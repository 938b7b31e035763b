---------------------------- MODULE TripsProofs ----------------------------
(***************************************************************************)
(* What TLAPS proves of rides: of the Office Commute (CommuteRide), of     *)
(* what a passenger leaves as deposit (DepositTerms), and of all kinds of  *)
(* rides together as MCTrips composes them, the Regular and the Assured    *)
(* rides from what RegularRide and AssuredSettlement prove of themselves.  *)
(***************************************************************************)
EXTENDS MCTrips, FiniteSetTheorems, WellFoundedInduction, SequenceTheorems, TLAPS

-----------------------------------------------------------------------------
(* Office Commute rides, for any requests, seats and prices.  A fare is    *)
(* returned only for a booking that is still active and was paid, so that  *)
(* the invariant needs to know that every active booking was paid.         *)

ActiveIsPaid == \A b \in Active : bookings[b].payment = "PAID"

CommuteInv == TypeOK /\ ActiveIsPaid /\ SeatsNeverOversold /\ FareGoesOneWay

\* The seats of a set of bookings: a natural number, none for no bookings, one
\* booking adds its seats, and more bookings have no fewer seats.
LEMMA SeatsOfNat == ASSUME NEW S PROVE SeatsOf(S) \in Nat
BY SumOverNat, CommuteRideAssumption DEF SeatsOf

\* No booking takes no seat.
LEMMA SeatsOfNone == SeatsOf({}) = 0
BY SumOverNone, CommuteRideAssumption DEF SeatsOf

\* One more booking takes its own seats more.
LEMMA SeatsOfMore ==
  ASSUME NEW S, NEW b \in Bookings, b \notin S
  PROVE  SeatsOf(S \cup {b}) = SeatsOf(S) + Seats[b]
BY SumOverMore, CommuteRideAssumption DEF SeatsOf, Bookings

\* Fewer bookings take no more seats.
LEMMA SeatsOfSubset ==
  ASSUME NEW T, NEW S \in SUBSET T
  PROVE  SeatsOf(S) <= SeatsOf(T)
BY SumOverSubset, CommuteRideAssumption DEF SeatsOf

\* The accepted bookings of the next state, and whether they fit.
LEMMA NextConfirmed ==
  /\ Confirmed' = {b \in Bookings : bookings'[b].status = "CONFIRMED"}
  /\ SeatsNeverOversold' <=> SeatsOf(Confirmed') <= ride'.total - ride'.available
<1>1. Confirmed' = {b \in Bookings : bookings'[b].status = "CONFIRMED"}
  BY DEF Confirmed
<1>2. SeatsNeverOversold' <=> SeatsOf(Confirmed') <= ride'.total - ride'.available
  BY DEF SeatsNeverOversold, SeatsOf
<1> QED BY <1>1, <1>2

\* What is left on offer is at most what the ride has.
LEMMA AvailableFits ==
  ASSUME TypeOK, SeatsNeverOversold PROVE ride.available <= ride.total
BY SeatsOfNat DEF TypeOK, RideRow, SeatsNeverOversold

\* Bookings that end leave those that stay in a ride that does not change.
LEMMA FewerFit ==
  ASSUME TypeOK, SeatsNeverOversold, UNCHANGED <<ride.total, ride.available>>,
         Confirmed' \subseteq Confirmed
  PROVE  SeatsNeverOversold'
<1>1. SeatsOf(Confirmed') <= SeatsOf(Confirmed)
  BY SeatsOfSubset
<1>2. SeatsOf(Confirmed') \in Nat /\ SeatsOf(Confirmed) \in Nat
  BY SeatsOfNat
<1> QED BY <1>1, <1>2, NextConfirmed DEF SeatsNeverOversold, TypeOK, RideRow

\* Without accepted bookings anything that is on offer fits.
LEMMA NobodyFits ==
  ASSUME ride' \in RideRow, ride'.available <= ride'.total, Confirmed' = {}
  PROVE  SeatsNeverOversold'
<1>1. SeatsOf(Confirmed') = 0
  BY SeatsOfNone
<1> QED BY <1>1, NextConfirmed DEF RideRow

\* A booking that ends gives its seats back, up to the seats of the ride.
LEMMA RestoredFit ==
  ASSUME TypeOK, SeatsNeverOversold, NEW b \in Bookings, RestoreSeats(b),
         Confirmed' = Confirmed \ {b}
  PROVE  ride' \in RideRow /\ SeatsNeverOversold'
<1>1. Seats[b] \in Nat /\ ride \in RideRow /\ ride.available \in Nat /\ ride.total \in 1..MaxSeats
  BY CommuteRideAssumption DEF TypeOK, RideRow, Bookings
<1>2. CASE b \notin Confirmed
  <2>1. ride' = ride /\ Confirmed' = Confirmed
    BY <1>1, <1>2 DEF RestoreSeats, RideRow
  <2> QED BY <1>1, <2>1, NextConfirmed DEF SeatsNeverOversold
<1>3. CASE b \in Confirmed
  <2> DEFINE back == Smaller(ride.total, ride.available + Seats[b])
  <2>1. back \in Nat /\ back <= ride.total /\ back <= ride.available + Seats[b]
    BY <1>1 DEF Smaller
  <2>2. ride' = [ride EXCEPT !.available = back]
    BY <1>3 DEF RestoreSeats
  <2> HIDE DEF back
  <2>3. ride' \in RideRow /\ ride'.available = back /\ ride'.total = ride.total
    BY <1>1, <2>1, <2>2 DEF RideRow
  <2>4. SeatsOf(Confirmed) = SeatsOf(Confirmed') + Seats[b]
    <3>1. Confirmed = Confirmed' \cup {b} /\ b \notin Confirmed'
      BY <1>3
    <3> DEFINE rest == Confirmed'
    <3> HIDE DEF rest
    <3>2. SeatsOf(rest \cup {b}) = SeatsOf(rest) + Seats[b]
      BY <3>1, SeatsOfMore DEF rest
    <3> QED BY <3>1, <3>2 DEF rest
  <2>5. SeatsOf(Confirmed) \in Nat /\ SeatsOf(Confirmed') \in Nat
    BY SeatsOfNat
  <2>6. SeatsOf(Confirmed') <= ride.total - back
    <3>1. SeatsOf(Confirmed) <= ride.total - ride.available
      BY DEF SeatsNeverOversold
    <3>2. back = ride.total \/ back = ride.available + Seats[b]
      BY DEF back, Smaller
    <3>3. CASE back = ride.available + Seats[b]
      BY <1>1, <2>1, <2>4, <2>5, <3>1, <3>3
    <3>4. CASE back = ride.total /\ ride.total <= ride.available + Seats[b]
      BY <1>1, <2>4, <2>5, <3>1, <3>4
    <3> QED BY <1>1, <2>1, <3>2, <3>3, <3>4
  <2> QED BY <2>3, <2>6, NextConfirmed
<1> QED BY <1>2, <1>3

\* Bookings that are cancelled stay typed, whatever the reason.
LEMMA CancelAllTyped ==
  ASSUME TypeOK, NEW S, NEW why \in Reasons, CancelAll(S, why)
  PROVE  bookings' \in [Bookings -> BookingRow] /\ refunds' \in [Bookings -> SUBSET Reasons]
<1>1. ASSUME NEW b \in Bookings
      PROVE  [bookings[b] EXCEPT !.status = "CANCELLED", !.reason = why,
                !.payment = IF Refundable(b) THEN "REFUNDED" ELSE @] \in BookingRow
  <2> DEFINE paid == IF Refundable(b) THEN "REFUNDED" ELSE bookings[b].payment
  <2>1. bookings[b] \in BookingRow /\ why \in Reasons \cup {"none"}
    BY DEF TypeOK
  <2>2. paid \in {"NONE", "PAID", "REFUNDED"}
    BY <2>1 DEF BookingRow
  <2> HIDE DEF paid
  <2>3. [bookings[b] EXCEPT !.status = "CANCELLED", !.reason = why, !.payment = paid] \in BookingRow
    BY <2>1, <2>2 DEF BookingRow, BookingStatus
  <2> QED BY <2>1, <2>3 DEF paid, BookingRow
<1>2. bookings' \in [Bookings -> BookingRow]
  BY <1>1 DEF CancelAll, TypeOK
<1>3. refunds' \in [Bookings -> SUBSET Reasons]
  BY DEF CancelAll, TypeOK
<1> QED BY <1>2, <1>3

\* What cancelling does to the rows, field by field.
LEMMA CancelAllRows ==
  ASSUME TypeOK, NEW S, NEW why \in Reasons, CancelAll(S, why)
  PROVE  /\ \A b \in Bookings : b \notin S => bookings'[b] = bookings[b] /\ refunds'[b] = refunds[b]
         /\ \A b \in Bookings \cap S :
              /\ bookings'[b].status = "CANCELLED" /\ bookings'[b].total = bookings[b].total
              /\ refunds'[b] = IF Refundable(b) THEN refunds[b] \cup {why} ELSE refunds[b]
<1>1. \A b \in Bookings : bookings[b] \in BookingRow
  BY DEF TypeOK
<1>2. ASSUME NEW b \in Bookings, b \notin S
      PROVE  bookings'[b] = bookings[b] /\ refunds'[b] = refunds[b]
  BY <1>2 DEF CancelAll
<1>3. ASSUME NEW b \in Bookings, b \in S
      PROVE  /\ bookings'[b].status = "CANCELLED" /\ bookings'[b].total = bookings[b].total
             /\ refunds'[b] = IF Refundable(b) THEN refunds[b] \cup {why} ELSE refunds[b]
  <2> DEFINE paid == IF Refundable(b) THEN "REFUNDED" ELSE bookings[b].payment
  <2>1. bookings'[b] = [bookings[b] EXCEPT !.status = "CANCELLED", !.reason = why, !.payment = paid]
    BY <1>1, <1>3 DEF CancelAll, BookingRow
  <2>2. refunds'[b] = IF Refundable(b) THEN refunds[b] \cup {why} ELSE refunds[b]
    BY <1>3 DEF CancelAll
  <2> HIDE DEF paid
  <2> QED BY <1>1, <2>1, <2>2 DEF BookingRow
<1> QED BY <1>2, <1>3

\* No reason or one is at most one.
LEMMA OneReason == ASSUME NEW x, NEW R \in {{}, {x}} PROVE Cardinality(R) <= 1
<1>1. Cardinality({}) = 0
  BY FS_EmptySet
<1>2. Cardinality({x}) = 1
  BY FS_Singleton
<1> QED BY <1>1, <1>2

\* Active bookings of any set are cancelled: each fare goes back at most once,
\* since a refund ended a booking for good.
LEMMA CancelKeepsFares ==
  ASSUME TypeOK, ActiveIsPaid, FareGoesOneWay, NEW S \in SUBSET Active, NEW why \in Reasons,
         CancelAll(S, why), settled' = settled
  PROVE  /\ ActiveIsPaid' /\ FareGoesOneWay'
         /\ Confirmed' = Confirmed \ S /\ Active' = Active \ S
<1>1. /\ \A b \in Bookings : b \notin S => bookings'[b] = bookings[b] /\ refunds'[b] = refunds[b]
      /\ \A b \in Bookings \cap S :
           /\ bookings'[b].status = "CANCELLED"
           /\ refunds'[b] = IF Refundable(b) THEN refunds[b] \cup {why} ELSE refunds[b]
  BY CancelAllRows
<1>2. Confirmed' = Confirmed \ S /\ Active' = Active \ S
  BY <1>1 DEF Confirmed, Active
<1>3. ActiveIsPaid'
  BY <1>1, <1>2 DEF ActiveIsPaid, Active
<1>4. ASSUME NEW b \in Bookings
      PROVE  /\ Cardinality(refunds'[b]) <= 1
             /\ b \in settled' => refunds'[b] = {} /\ bookings'[b].status = "COMPLETED"
             /\ refunds'[b] # {} => bookings'[b].status = "CANCELLED"
  <2>1. CASE b \notin S
    BY <1>1, <2>1 DEF FareGoesOneWay
  <2>2. CASE b \in S
    <3>1. bookings[b].status \in {"PENDING", "CONFIRMED"}
      BY <2>2 DEF Active
    <3>2. refunds[b] = {} /\ b \notin settled
      BY <3>1 DEF FareGoesOneWay
    <3>3. refunds'[b] \in {{}, {why}}
      BY <1>1, <2>2, <3>2
    <3>4. Cardinality(refunds'[b]) <= 1
      BY <3>3, OneReason
    <3> QED BY <1>1, <2>2, <3>2, <3>4
  <2> QED BY <2>1, <2>2
<1>5. FareGoesOneWay'
  BY <1>4 DEF FareGoesOneWay
<1> QED BY <1>2, <1>3, <1>5

\* Nothing is known to change for the fares when bookings keep their status and
\* payment.
LEMMA SameFares ==
  ASSUME CommuteInv, UNCHANGED <<refunds, settled>>,
         \A b \in Bookings : /\ bookings'[b].status = bookings[b].status
                             /\ bookings'[b].payment = bookings[b].payment
  PROVE  ActiveIsPaid' /\ FareGoesOneWay' /\ Confirmed' = Confirmed
BY DEF CommuteInv, ActiveIsPaid, FareGoesOneWay, Active, Confirmed

\* A published ride with no request satisfies the invariant.
THEOREM CommuteInit == Init => CommuteInv
<1> SUFFICES ASSUME Init PROVE CommuteInv
  OBVIOUS
<1>1. TypeOK
  <2>1. NoBooking \in BookingRow
    BY DEF NoBooking, BookingRow, BookingStatus
  <2>2. ride \in RideRow
    BY CommuteRideAssumption DEF Init, RideRow
  <2>3. driverClaim \in [status : ClaimStatus, by : 0..N] /\ driverClaim.status = "NONE"
    BY CommuteRideAssumption DEF Init, ClaimStatus
  <2>4. riderClaims \in [Bookings -> ClaimStatus]
    BY DEF Init, ClaimStatus
  <2> QED BY <2>1, <2>2, <2>3, <2>4 DEF Init, TypeOK
<1>2. Active = {} /\ Confirmed = {}
  BY DEF Init, Active, Confirmed, NoBooking
<1>3. SeatsNeverOversold
  <2>1. SeatsOf(Confirmed) = 0
    BY <1>2, SeatsOfNone
  <2>2. ride.total \in Nat /\ ride.available = ride.total
    BY CommuteRideAssumption DEF Init
  <2> QED BY <2>1, <2>2 DEF SeatsNeverOversold
<1>4. FareGoesOneWay
  BY FS_EmptySet DEF Init, FareGoesOneWay
<1> QED BY <1>1, <1>2, <1>3, <1>4 DEF CommuteInv, ActiveIsPaid

-----------------------------------------------------------------------------
(* Each step keeps the invariant.                                          *)

\* A request is paid, takes no seat yet, and nothing of it is refunded.
LEMMA RequestKeeps == ASSUME CommuteInv, NEW b \in Bookings, Request(b) PROVE CommuteInv'
<1>1. TypeOK /\ ActiveIsPaid /\ SeatsNeverOversold /\ FareGoesOneWay
  BY DEF CommuteInv
<1>2. PICK d \in Discounts :
        /\ d <= Fare(b)
        /\ bookings' = [bookings EXCEPT ![b] = [NoBooking EXCEPT
                          !.status = "PENDING", !.payment = "PAID", !.total = Fare(b) - d]]
  BY DEF Request
<1>3. UNCHANGED <<ride, departed, refunds, settled, claims>> /\ bookings[b] = NoBooking
  BY DEF Request
<1> DEFINE row == [NoBooking EXCEPT !.status = "PENDING", !.payment = "PAID", !.total = Fare(b) - d]
<1>4. row \in BookingRow /\ row.status = "PENDING" /\ row.payment = "PAID"
  <2>1. d \in Nat /\ Fare(b) \in Nat
    BY CommuteRideAssumption DEF Fare, DriverShare, PlatformShare, Bookings
  <2>2. Fare(b) - d \in Nat
    BY <1>2, <2>1
  <2>3. NoBooking \in BookingRow
    BY DEF NoBooking, BookingRow, BookingStatus
  <2> QED BY <2>2, <2>3 DEF BookingRow, BookingStatus
<1>5. bookings' = [bookings EXCEPT ![b] = row]
  BY <1>2
<1> HIDE DEF row
<1>6. TypeOK'
  BY <1>1, <1>3, <1>4, <1>5 DEF TypeOK, claims
<1>7. /\ \A c \in Bookings : bookings'[c] = IF c = b THEN row ELSE bookings[c]
      /\ bookings[b].status = "NONE"
  BY <1>1, <1>3, <1>5 DEF TypeOK, NoBooking
<1>8. Confirmed' = Confirmed /\ Active' = Active \cup {b}
  BY <1>4, <1>7 DEF Confirmed, Active
<1>9. ActiveIsPaid'
  BY <1>1, <1>4, <1>7, <1>8 DEF ActiveIsPaid, Active
<1>10. SeatsNeverOversold'
  BY <1>1, <1>3, <1>8, FewerFit
<1>11. FareGoesOneWay'
  BY <1>1, <1>3, <1>7 DEF FareGoesOneWay
<1> QED BY <1>6, <1>9, <1>10, <1>11 DEF CommuteInv

\* One active booking ends: its fare goes back, its seats are free again.
LEMMA CancelKeeps ==
  ASSUME CommuteInv, NEW b \in Active, NEW why \in Reasons, CancelAll({b}, why), RestoreSeats(b),
         UNCHANGED <<departed, settled, driverClaim>>, riderClaims' \in [Bookings -> ClaimStatus]
  PROVE  CommuteInv'
<1>1. TypeOK /\ ActiveIsPaid /\ SeatsNeverOversold /\ FareGoesOneWay /\ b \in Bookings
  BY DEF CommuteInv, Active
<1>2. ActiveIsPaid' /\ FareGoesOneWay' /\ Confirmed' = Confirmed \ {b}
  BY <1>1, CancelKeepsFares
<1>3. ride' \in RideRow /\ SeatsNeverOversold'
  BY <1>1, <1>2, RestoredFit
<1>4. bookings' \in [Bookings -> BookingRow] /\ refunds' \in [Bookings -> SUBSET Reasons]
  BY <1>1, CancelAllTyped
<1>5. TypeOK'
  BY <1>1, <1>3, <1>4 DEF TypeOK
<1> QED BY <1>2, <1>3, <1>5 DEF CommuteInv

\* The driver rejects a request.
LEMMA RejectKeeps == ASSUME CommuteInv, NEW b \in Bookings, Reject(b) PROVE CommuteInv'
<1>1. /\ b \in Active /\ b \notin Confirmed /\ CancelAll({b}, "reject") /\ "reject" \in Reasons
      /\ UNCHANGED <<ride, departed, settled, claims>>
  BY DEF Reject, Active, Confirmed, Reasons
<1>2. RestoreSeats(b)
  BY <1>1 DEF RestoreSeats, CommuteInv, TypeOK, RideRow
<1>3. riderClaims' \in [Bookings -> ClaimStatus] /\ driverClaim' = driverClaim
  BY <1>1 DEF CommuteInv, TypeOK, claims
<1> QED BY <1>1, <1>2, <1>3, CancelKeeps

\* A rider cancels a request or an accepted booking.
LEMMA CancelByRiderKeeps ==
  ASSUME CommuteInv, NEW b \in Bookings, CancelByRider(b)
  PROVE  CommuteInv'
<1>1. /\ b \in Active
      /\ RestoreSeats(b)
      /\ CancelAll({b}, "rider-cancel")
      /\ "rider-cancel" \in Reasons
      /\ UNCHANGED <<departed, settled, claims>>
  BY DEF CancelByRider, Reasons
<1>2. riderClaims' \in [Bookings -> ClaimStatus] /\ driverClaim' = driverClaim
  BY <1>1 DEF CommuteInv, TypeOK, claims
<1> QED BY <1>1, <1>2, CancelKeeps

\* A claim against a rider is approved, or found to be void.
LEMMA ApproveRiderNoShowKeeps ==
  ASSUME CommuteInv, NEW b \in Bookings, ApproveRiderNoShow(b) PROVE CommuteInv'
<1>1. riderClaims \in [Bookings -> ClaimStatus] /\ UNCHANGED <<departed, settled, driverClaim>>
  BY DEF CommuteInv, TypeOK, ApproveRiderNoShow
<1>2. CASE /\ b \in Active /\ RestoreSeats(b) /\ CancelAll({b}, "passenger-no-show")
           /\ riderClaims' = [riderClaims EXCEPT ![b] = "APPROVED"]
  <2>1. "passenger-no-show" \in Reasons /\ riderClaims' \in [Bookings -> ClaimStatus]
    BY <1>1, <1>2 DEF Reasons, ClaimStatus
  <2> QED BY <1>1, <1>2, <2>1, CancelKeeps
<1>3. CASE /\ UNCHANGED <<ride, bookings, refunds>>
           /\ riderClaims' = [riderClaims EXCEPT ![b] =
                IF bookings[b].picked THEN "REJECTED" ELSE "SUPERSEDED"]
  <2>1. riderClaims' \in [Bookings -> ClaimStatus]
    BY <1>1, <1>3 DEF ClaimStatus
  <2>2. TypeOK'
    BY <1>1, <1>3, <2>1 DEF CommuteInv, TypeOK
  <2>3. ActiveIsPaid' /\ FareGoesOneWay' /\ Confirmed' = Confirmed
    BY <1>1, <1>3, SameFares
  <2>4. SeatsNeverOversold'
    BY <1>3, <2>3, FewerFit DEF CommuteInv
  <2> QED BY <2>2, <2>3, <2>4 DEF CommuteInv
<1> QED BY <1>2, <1>3 DEF ApproveRiderNoShow

\* The driver accepts a request, and with the last seat gone the others end.
LEMMA AcceptKeeps == ASSUME CommuteInv, NEW b \in Bookings, Accept(b) PROVE CommuteInv'
<1> DEFINE others == IF ride.available = Seats[b] THEN Pending \ {b} ELSE {}
<1>1. TypeOK /\ ActiveIsPaid /\ SeatsNeverOversold /\ FareGoesOneWay
  BY DEF CommuteInv
<1>2. /\ bookings[b].status = "PENDING" /\ b \in Active /\ b \notin Confirmed
      /\ Seats[b] <= ride.available /\ ride' = [ride EXCEPT !.available = @ - Seats[b]]
      /\ UNCHANGED <<departed, settled, claims>>
  BY DEF Accept, Active, Confirmed
<1>3. /\ others \subseteq Pending
      /\ b \notin others
      /\ others \subseteq Active
      /\ others \cap Confirmed = {}
  BY DEF Pending, Active, Confirmed
<1>4. \A c \in Bookings : bookings[c] \in BookingRow /\ refunds[c] \in SUBSET Reasons
  BY <1>1 DEF TypeOK
<1>5. ASSUME NEW c \in Bookings
      PROVE  /\ bookings'[c] =
                  IF c = b THEN [bookings[c] EXCEPT !.status = "CONFIRMED"]
                  ELSE IF c \in others
                       THEN [bookings[c] EXCEPT !.status = "CANCELLED", !.reason = "ride-full",
                               !.payment = IF Refundable(c) THEN "REFUNDED" ELSE @]
                       ELSE bookings[c]
             /\ refunds'[c] = IF c \in others /\ Refundable(c)
                              THEN refunds[c] \cup {"ride-full"} ELSE refunds[c]
  BY DEF Accept
<1>6. DOMAIN bookings' = Bookings /\ DOMAIN refunds' = Bookings
      /\ bookings' = [c \in Bookings |-> bookings'[c]]
      /\ refunds' = [c \in Bookings |-> refunds'[c]]
  BY DEF Accept
<1> HIDE DEF others
<1>7. ASSUME NEW c \in others
      PROVE  /\ bookings'[c] \in BookingRow /\ bookings'[c].status = "CANCELLED"
             /\ refunds'[c] \in {{}, {"ride-full"}} /\ c \notin settled /\ c \in Bookings
  <2> DEFINE paid == IF Refundable(c) THEN "REFUNDED" ELSE bookings[c].payment
  <2>0. c \in Bookings /\ c # b /\ c \in Active
    BY <1>3 DEF Active
  <2>1. bookings'[c] = [bookings[c] EXCEPT !.status = "CANCELLED", !.reason = "ride-full",
            !.payment = paid]
    BY <1>4, <1>5, <2>0 DEF BookingRow
  <2>2. paid \in {"NONE", "PAID", "REFUNDED"}
    BY <1>4, <2>0 DEF BookingRow
  <2> HIDE DEF paid
  <2>3. bookings'[c] \in BookingRow /\ bookings'[c].status = "CANCELLED"
    BY <1>4, <2>0, <2>1, <2>2 DEF BookingRow, BookingStatus, Reasons
  <2>4. refunds[c] = {} /\ c \notin settled
    BY <1>1, <2>0 DEF FareGoesOneWay, Active
  <2> QED BY <1>5, <2>0, <2>3, <2>4
<1>8. bookings'[b] \in BookingRow /\ bookings'[b].status = "CONFIRMED" /\ refunds'[b] = refunds[b]
      /\ bookings'[b].payment = bookings[b].payment
  <2>1. bookings'[b] = [bookings[b] EXCEPT !.status = "CONFIRMED"] /\ refunds'[b] = refunds[b]
    BY <1>3, <1>5
  <2> QED BY <1>4, <2>1 DEF BookingRow, BookingStatus
<1>9. \A c \in Bookings : c # b /\ c \notin others => bookings'[c] = bookings[c] /\
        refunds'[c] = refunds[c]
  BY <1>5
<1>10. ride' \in RideRow /\ ride'.total = ride.total /\ ride'.available = ride.available - Seats[b]
  <2>1. ride \in RideRow /\ Seats[b] \in Nat
    BY <1>1, CommuteRideAssumption DEF TypeOK, Bookings
  <2>2. ride.available - Seats[b] \in Nat
    BY <1>2, <2>1 DEF RideRow
  <2> QED BY <1>2, <2>1, <2>2 DEF RideRow
<1>11. TypeOK'
  <2>1. \A c \in Bookings : bookings'[c] \in BookingRow
    BY <1>4, <1>7, <1>8, <1>9
  <2>2. \A c \in Bookings : refunds'[c] \in SUBSET Reasons
    <3>1. {} \in SUBSET Reasons /\ {"ride-full"} \in SUBSET Reasons
      BY DEF Reasons
    <3> QED BY <1>4, <1>7, <1>8, <1>9, <3>1
  <2>3. bookings' \in [Bookings -> BookingRow]
    BY <1>6, <2>1
  <2>4. refunds' \in [Bookings -> SUBSET Reasons]
    BY <1>6, <2>2
  <2> QED BY <1>1, <1>2, <1>10, <2>3, <2>4 DEF TypeOK, claims
<1>12. Confirmed' = Confirmed \cup {b} /\ Active' = Active \ others
  <2>1. Confirmed' = Confirmed \cup {b}
    BY <1>3, <1>7, <1>8, <1>9 DEF Confirmed
  <2>2. Active' = Active \ others
    BY <1>2, <1>3, <1>7, <1>8, <1>9 DEF Active
  <2> QED BY <2>1, <2>2
<1>13. ActiveIsPaid'
  BY <1>1, <1>3, <1>8, <1>9, <1>12 DEF ActiveIsPaid, Active
<1>14. SeatsNeverOversold'
  <2>1. SeatsOf(Confirmed') = SeatsOf(Confirmed) + Seats[b]
    BY <1>2, <1>12, SeatsOfMore
  <2>2. /\ SeatsOf(Confirmed) \in Nat
        /\ Seats[b] \in Nat
        /\ ride.total \in Nat
        /\ ride.available \in Nat
    BY <1>1, SeatsOfNat, CommuteRideAssumption DEF TypeOK, RideRow, Bookings
  <2>3. SeatsOf(Confirmed') <= ride'.total - ride'.available
    BY <1>1, <1>10, <2>1, <2>2 DEF SeatsNeverOversold
  <2> QED BY <2>3, NextConfirmed
<1>15. FareGoesOneWay'
  <2>1. ASSUME NEW c \in Bookings
        PROVE  /\ Cardinality(refunds'[c]) <= 1
               /\ c \in settled' => refunds'[c] = {} /\ bookings'[c].status = "COMPLETED"
               /\ refunds'[c] # {} => bookings'[c].status = "CANCELLED"
    <3>1. CASE c = b
      <4>1. refunds[b] = {} /\ b \notin settled /\ Cardinality(refunds[b]) <= 1
        BY <1>1, <1>2 DEF FareGoesOneWay
      <4> QED BY <1>2, <1>8, <3>1, <4>1
    <3>2. CASE c \in others
      <4>1. refunds'[c] \in {{}, {"ride-full"}}
        BY <1>7, <3>2
      <4>2. Cardinality(refunds'[c]) <= 1
        BY <4>1, OneReason
      <4> QED BY <1>2, <1>7, <3>2, <4>2
    <3>3. CASE c # b /\ c \notin others
      BY <1>1, <1>2, <1>9, <3>3 DEF FareGoesOneWay
    <3> QED BY <3>1, <3>2, <3>3
  <2> QED BY <2>1 DEF FareGoesOneWay
<1> QED BY <1>11, <1>13, <1>14, <1>15 DEF CommuteInv

\* Every booking that may still be accepted is among those that are counted.
LEMMA UpdateSeatsKeeps ==
  ASSUME CommuteInv, NEW n \in 1..MaxSeats, UpdateSeats(n) PROVE CommuteInv'
<1>1. /\ TypeOK /\ SeatsNeverOversold
      /\ UNCHANGED <<departed, bookings, refunds, settled, claims>>
      /\ BookedSeats <= n
      /\ ride' = [ride EXCEPT !.total = n, !.available = n - BookedSeats]
  BY DEF CommuteInv, UpdateSeats
<1>2. BookedSeats \in Nat /\ n - BookedSeats \in Nat /\ n \in Nat
  BY <1>1, SeatsOfNat, CommuteRideAssumption DEF BookedSeats
<1>3. ride' \in RideRow /\ ride'.total = n /\ ride'.available = n - BookedSeats
  BY <1>1, <1>2 DEF TypeOK, RideRow
<1>4. TypeOK'
  BY <1>1, <1>3 DEF TypeOK, claims
<1>5. ActiveIsPaid' /\ FareGoesOneWay' /\ Confirmed' = Confirmed
  BY <1>1, SameFares
<1>6. SeatsOf(Confirmed) <= BookedSeats /\ SeatsOf(Confirmed) \in Nat
  <2>1. Confirmed \subseteq Active
    BY DEF Confirmed, Active
  <2> QED BY <2>1, SeatsOfSubset, SeatsOfNat DEF BookedSeats
<1>7. SeatsNeverOversold'
  BY <1>2, <1>3, <1>5, <1>6, NextConfirmed
<1> QED BY <1>4, <1>5, <1>7 DEF CommuteInv

\* Steps that move neither fares nor seats.
LEMMA QuietKeeps ==
  ASSUME CommuteInv, TypeOK', UNCHANGED <<ride.total, ride.available, refunds, settled>>,
         \A b \in Bookings : /\ bookings'[b].status = bookings[b].status
                             /\ bookings'[b].payment = bookings[b].payment
  PROVE  CommuteInv'
<1>1. ActiveIsPaid' /\ FareGoesOneWay' /\ Confirmed' = Confirmed
  BY SameFares
<1>2. SeatsNeverOversold'
  BY <1>1, FewerFit DEF CommuteInv
<1> QED BY <1>1, <1>2 DEF CommuteInv

\* The ride departs, starts, and picks its riders up.
LEMMA TripKeeps ==
  ASSUME CommuteInv, Depart \/ Start \/ (\E b \in Bookings : VerifyPickup(b)) PROVE CommuteInv'
<1>1. TypeOK
  BY DEF CommuteInv
<1>2. CASE Depart
  BY <1>1, <1>2, QuietKeeps DEF Depart, TypeOK, claims
<1>3. CASE Start
  <2>1. /\ ride' = [ride EXCEPT !.status = "IN_PROGRESS"]
        /\ UNCHANGED <<departed, bookings, refunds, settled, claims>>
    BY <1>3 DEF Start
  <2>2. ride' \in RideRow /\ ride'.total = ride.total /\ ride'.available = ride.available
    BY <1>1, <2>1 DEF TypeOK, RideRow
  <2>3. TypeOK'
    BY <1>1, <2>1, <2>2 DEF TypeOK, claims
  <2> QED BY <2>1, <2>2, <2>3, QuietKeeps
<1>4. ASSUME NEW b \in Bookings, VerifyPickup(b) PROVE CommuteInv'
  <2>1. /\ bookings' = [bookings EXCEPT ![b].picked = TRUE]
        /\ UNCHANGED <<ride, departed, refunds, settled, claims>>
    BY <1>4 DEF VerifyPickup
  <2>2. /\ bookings' \in [Bookings -> BookingRow]
        /\ \A c \in Bookings : /\ bookings'[c].status = bookings[c].status
                               /\ bookings'[c].payment = bookings[c].payment
    <3>0. bookings[b] \in BookingRow
      BY <1>1 DEF TypeOK
    <3>1. [bookings[b] EXCEPT !.picked = TRUE] \in BookingRow
      BY <3>0 DEF BookingRow
    <3>2. bookings' = [bookings EXCEPT ![b] = [bookings[b] EXCEPT !.picked = TRUE]]
      BY <2>1
    <3> QED BY <1>1, <3>1, <3>2 DEF TypeOK, BookingRow
  <2>3. TypeOK'
    BY <1>1, <2>1, <2>2 DEF TypeOK, claims
  <2> QED BY <2>1, <2>2, <2>3, QuietKeeps
<1> QED BY <1>2, <1>3, <1>4

\* Reports and rejected claims only change the claims.
LEMMA ClaimsKeep ==
  ASSUME CommuteInv,
         \/ RejectDriverClaim
         \/ \E b \in Bookings : ReportDriver(b) \/ ReportRider(b) \/ RejectRiderClaim(b)
  PROVE  CommuteInv'
<1>1. TypeOK
  BY DEF CommuteInv
<1>2. UNCHANGED <<ride, departed, bookings, refunds, settled>>
  BY DEF RejectDriverClaim, ReportDriver, ReportRider, RejectRiderClaim
<1>3. /\ driverClaim' \in [status : ClaimStatus, by : 0..N]
      /\ driverClaim'.status # "NONE" => driverClaim'.by \in Bookings
  <2>1. CASE RejectDriverClaim
    <3>1. /\ driverClaim' = [driverClaim EXCEPT !.status = "REJECTED"]
          /\ driverClaim.status = "PENDING"
      BY <2>1 DEF RejectDriverClaim
    <3> QED BY <1>1, <3>1 DEF TypeOK, ClaimStatus
  <2>2. ASSUME NEW b \in Bookings, ReportDriver(b)
        PROVE  /\ driverClaim' \in [status : ClaimStatus, by : 0..N]
               /\ driverClaim'.status # "NONE" => driverClaim'.by \in Bookings
    <3>1. driverClaim' = [status |-> "PENDING", by |-> b] /\ b \in 0..N
      BY <2>2, CommuteRideAssumption DEF ReportDriver, Bookings
    <3> QED BY <3>1 DEF ClaimStatus
  <2>3. ASSUME NEW b \in Bookings, ReportRider(b) \/ RejectRiderClaim(b)
        PROVE  driverClaim' = driverClaim
    BY <2>3 DEF ReportRider, RejectRiderClaim
  <2> QED BY <1>1, <2>1, <2>2, <2>3 DEF TypeOK
<1>4. riderClaims' \in [Bookings -> ClaimStatus]
  BY <1>1 DEF TypeOK, ClaimStatus, RejectDriverClaim, ReportDriver, ReportRider, RejectRiderClaim
<1>5. TypeOK'
  BY <1>1, <1>2, <1>3, <1>4 DEF TypeOK
<1> QED BY <1>2, <1>5, QuietKeeps

\* A ride that is called off takes all its active bookings along.
LEMMA CallOffKeeps ==
  ASSUME CommuteInv, NEW why \in Reasons,
         ride' = [ride EXCEPT !.status = "CANCELLED", !.reason = why],
         CancelAll(Active, why), UNCHANGED <<departed, settled>>,
         driverClaim' \in [status : ClaimStatus, by : 0..N],
         driverClaim'.status # "NONE" => driverClaim'.by \in Bookings,
         riderClaims' \in [Bookings -> ClaimStatus]
  PROVE  CommuteInv'
<1>1. TypeOK /\ ActiveIsPaid /\ SeatsNeverOversold /\ FareGoesOneWay
  BY DEF CommuteInv
<1>2. ride' \in RideRow /\ ride'.total = ride.total /\ ride'.available = ride.available
  BY <1>1 DEF TypeOK, RideRow
<1>3. ActiveIsPaid' /\ FareGoesOneWay' /\ Confirmed' = Confirmed \ Active
  BY <1>1, CancelKeepsFares
<1>4. SeatsNeverOversold'
  BY <1>1, <1>2, <1>3, FewerFit
<1>5. bookings' \in [Bookings -> BookingRow] /\ refunds' \in [Bookings -> SUBSET Reasons]
  BY <1>1, CancelAllTyped
<1>6. TypeOK'
  BY <1>1, <1>2, <1>5 DEF TypeOK
<1> QED BY <1>3, <1>4, <1>6 DEF CommuteInv

\* The driver calls the ride off.
LEMMA CancelByDriverKeeps == ASSUME CommuteInv, CancelByDriver PROVE CommuteInv'
<1>1. CallOff("ride-cancel") /\ "ride-cancel" \in Reasons
  BY DEF CancelByDriver, Reasons
<1>2. /\ ride' = [ride EXCEPT !.status = "CANCELLED", !.reason = "ride-cancel"]
      /\ CancelAll(Active, "ride-cancel")
      /\ UNCHANGED <<departed, settled, driverClaim, riderClaims>>
  BY <1>1 DEF CallOff, claims
<1>3. /\ driverClaim' \in [status : ClaimStatus, by : 0..N]
      /\ driverClaim'.status # "NONE" => driverClaim'.by \in Bookings
      /\ riderClaims' \in [Bookings -> ClaimStatus]
  BY <1>2 DEF CommuteInv, TypeOK
<1> QED BY <1>1, <1>2, <1>3, CallOffKeeps

\* A claim against the driver calls the ride off, or is found to be void.
LEMMA ApproveDriverNoShowKeeps == ASSUME CommuteInv, ApproveDriverNoShow PROVE CommuteInv'
<1>1. TypeOK /\ driverClaim.status = "PENDING" /\ UNCHANGED <<departed, settled>>
  BY DEF CommuteInv, ApproveDriverNoShow
<1>2. CASE /\ ride' = [ride EXCEPT !.status = "CANCELLED", !.reason = "driver-no-show"]
           /\ CancelAll(Active, "driver-no-show")
           /\ driverClaim' = [driverClaim EXCEPT !.status = "APPROVED"]
           /\ riderClaims' = [b \in Bookings |->
                IF riderClaims[b] = "PENDING" THEN "SUPERSEDED" ELSE riderClaims[b]]
  <2>1. /\ driverClaim' \in [status : ClaimStatus, by : 0..N]
        /\ driverClaim'.status # "NONE" => driverClaim'.by \in Bookings
    BY <1>1, <1>2 DEF TypeOK, ClaimStatus
  <2>2. riderClaims' \in [Bookings -> ClaimStatus]
    BY <1>1, <1>2 DEF TypeOK, ClaimStatus
  <2>3. "driver-no-show" \in Reasons
    BY DEF Reasons
  <2> QED BY <1>1, <1>2, <2>1, <2>2, <2>3, CallOffKeeps
<1>3. CASE /\ driverClaim' = [driverClaim
                EXCEPT !.status = IF ride.status = "CANCELLED" THEN "SUPERSEDED" ELSE "REJECTED"]
           /\ UNCHANGED <<ride, bookings, refunds, riderClaims>>
  <2>1. /\ driverClaim' \in [status : ClaimStatus, by : 0..N]
        /\ driverClaim'.status # "NONE" => driverClaim'.by \in Bookings
    BY <1>1, <1>3 DEF TypeOK, ClaimStatus
  <2>2. TypeOK'
    BY <1>1, <1>3, <2>1 DEF TypeOK
  <2> QED BY <1>1, <1>3, <2>2, QuietKeeps
<1> QED BY <1>2, <1>3 DEF ApproveDriverNoShow

\* Completion settles the accepted fares, none of which was refunded.
LEMMA CompleteKeeps == ASSUME CommuteInv, Complete PROVE CommuteInv'
<1>1. TypeOK /\ ActiveIsPaid /\ SeatsNeverOversold /\ FareGoesOneWay
  BY DEF CommuteInv
<1>2. /\ ride' = [ride EXCEPT !.status = "COMPLETED"]
      /\ settled' = settled \cup Confirmed
      /\ UNCHANGED <<departed, refunds, claims>>
  BY DEF Complete
<1>3. /\ \A b \in Bookings : b \notin Confirmed => bookings'[b] = bookings[b]
      /\ \A b \in Confirmed : bookings'[b] = [bookings[b] EXCEPT !.status = "COMPLETED"]
      /\ bookings' = [b \in Bookings |-> bookings'[b]]
  BY DEF Complete, Confirmed
<1>4. \A b \in Bookings : bookings[b] \in BookingRow
  BY <1>1 DEF TypeOK
<1>5. \A b \in Confirmed : b \in Bookings /\ bookings'[b] \in BookingRow
                           /\ bookings'[b].status = "COMPLETED"
  BY <1>3, <1>4 DEF Confirmed, BookingRow, BookingStatus
<1>6. ride' \in RideRow /\ ride'.total = ride.total /\ ride'.available = ride.available
  BY <1>1, <1>2 DEF TypeOK, RideRow
<1>7. TypeOK'
  <2>1. \A b \in Bookings : bookings'[b] \in BookingRow
    BY <1>3, <1>4, <1>5
  <2>2. bookings' \in [Bookings -> BookingRow]
    BY <1>3, <2>1
  <2>3. settled' \subseteq Bookings
    BY <1>1, <1>2 DEF TypeOK, Confirmed
  <2> QED BY <1>1, <1>2, <1>6, <2>2, <2>3 DEF TypeOK, claims
<1>8. Confirmed' = {} /\ Active' = Active \ Confirmed
  <2>1. Confirmed' = {}
    BY <1>3, <1>5 DEF Confirmed
  <2>2. Active' = Active \ Confirmed
    BY <1>3, <1>5 DEF Active
  <2> QED BY <2>1, <2>2
<1>9. ActiveIsPaid'
  BY <1>1, <1>3, <1>8 DEF ActiveIsPaid, Active
<1>10. SeatsNeverOversold'
  BY <1>1, <1>6, <1>8, FewerFit
<1>11. FareGoesOneWay'
  <2>1. ASSUME NEW b \in Bookings
        PROVE  /\ Cardinality(refunds'[b]) <= 1
               /\ b \in settled' => refunds'[b] = {} /\ bookings'[b].status = "COMPLETED"
               /\ refunds'[b] # {} => bookings'[b].status = "CANCELLED"
    <3>1. CASE b \in Confirmed
      <4>1. refunds[b] = {} /\ Cardinality(refunds[b]) <= 1
        BY <1>1, <3>1 DEF FareGoesOneWay, Confirmed
      <4> QED BY <1>2, <1>5, <3>1, <4>1
    <3>2. CASE b \notin Confirmed
      BY <1>1, <1>2, <1>3, <3>2 DEF FareGoesOneWay
    <3> QED BY <3>1, <3>2
  <2> QED BY <2>1 DEF FareGoesOneWay
<1> QED BY <1>7, <1>9, <1>10, <1>11 DEF CommuteInv

\* The admin's row of the ride, which says that all its accepted seats are free.
LEMMA CancelledByAdmin ==
  ASSUME TypeOK, CancelByAdmin
  PROVE  ride' \in RideRow /\ ride'.available <= ride'.total /\ ride'.status = "CANCELLED"
<1> DEFINE back == Smaller(ride.total, ride.available + SeatsOf(Confirmed))
<1>1. ride \in RideRow /\ ride.total \in Nat /\ ride.available \in Nat
  BY CommuteRideAssumption DEF TypeOK, RideRow
<1>2. back \in Nat /\ back <= ride.total
  BY <1>1, SeatsOfNat DEF Smaller
<1>3. ride' = [ride EXCEPT !.status = "CANCELLED", !.reason = "admin-cancel", !.available = back]
  BY DEF CancelByAdmin
<1> HIDE DEF back
<1>4. "admin-cancel" \in Reasons
  BY DEF Reasons
<1> QED BY <1>1, <1>2, <1>3, <1>4 DEF RideRow

\* The admin calls the ride off, with refunds unless it is on its way.
LEMMA CancelByAdminKeeps == ASSUME CommuteInv, CancelByAdmin PROVE CommuteInv'
<1>1. TypeOK /\ ActiveIsPaid /\ SeatsNeverOversold /\ FareGoesOneWay
  BY DEF CommuteInv
<1>2. ride' \in RideRow /\ ride'.available <= ride'.total /\ "admin-cancel" \in Reasons
  BY <1>1, CancelledByAdmin DEF Reasons
<1>3. UNCHANGED <<departed, settled, claims>>
  BY DEF CancelByAdmin
<1>4. /\ bookings' \in [Bookings -> BookingRow] /\ refunds' \in [Bookings -> SUBSET Reasons]
      /\ ActiveIsPaid' /\ FareGoesOneWay' /\ Confirmed' = {}
  <2>1. CASE CancelAll(Active, "admin-cancel")
    <3>1. ActiveIsPaid' /\ FareGoesOneWay' /\ Confirmed' = Confirmed \ Active
      BY <1>1, <1>2, <1>3, <2>1, CancelKeepsFares
    <3>2. Confirmed \ Active = {}
      BY DEF Confirmed, Active
    <3> QED BY <1>1, <1>2, <2>1, <3>1, <3>2, CancelAllTyped
  <2>2. CASE /\ bookings' = [b \in Bookings |-> IF b \in Active
                  THEN [bookings[b] EXCEPT !.status = "CANCELLED", !.reason = "admin-cancel"]
                  ELSE bookings[b]]
             /\ UNCHANGED refunds
    <3>1. \A b \in Bookings : bookings[b] \in BookingRow
      BY <1>1 DEF TypeOK
    <3>2. ASSUME NEW b \in Bookings
          PROVE  /\ bookings'[b] \in BookingRow
                 /\ bookings'[b].status = IF b \in Active THEN "CANCELLED" ELSE bookings[b].status
      BY <1>2, <2>2, <3>1 DEF BookingRow, BookingStatus
    <3>3. bookings' \in [Bookings -> BookingRow]
      <4>1. bookings' = [b \in Bookings |-> bookings'[b]]
        BY <2>2
      <4> QED BY <3>2, <4>1
    <3>4. Active' = {} /\ Confirmed' = {}
      BY <3>2 DEF Active, Confirmed
    <3>5. FareGoesOneWay'
      BY <1>1, <1>3, <2>2, <3>2 DEF FareGoesOneWay, Active
    <3> QED BY <1>1, <2>2, <3>3, <3>4, <3>5 DEF TypeOK, ActiveIsPaid
  <2> QED BY <2>1, <2>2 DEF CancelByAdmin
<1>5. SeatsNeverOversold'
  BY <1>2, <1>4, NobodyFits
<1>6. TypeOK'
  BY <1>1, <1>2, <1>3, <1>4 DEF TypeOK, claims
<1> QED BY <1>4, <1>5, <1>6 DEF CommuteInv

\* Every step of Next, or none, keeps the invariant.
THEOREM CommuteStep == CommuteInv /\ [Next]_vars => CommuteInv'
<1> SUFFICES ASSUME CommuteInv, [Next]_vars PROVE CommuteInv'
  OBVIOUS
<1>1. ASSUME NEW b \in Bookings,
             \/ Request(b) \/ Accept(b) \/ Reject(b) \/ CancelByRider(b) \/ ApproveRiderNoShow(b)
      PROVE  CommuteInv'
  BY <1>1, RequestKeeps, AcceptKeeps, RejectKeeps, CancelByRiderKeeps, ApproveRiderNoShowKeeps
<1>2. ASSUME NEW b \in Bookings,
             \/ VerifyPickup(b) \/ ReportDriver(b) \/ ReportRider(b) \/ RejectRiderClaim(b)
      PROVE  CommuteInv'
  BY <1>2, TripKeeps, ClaimsKeep
<1>3. CASE ApproveDriverNoShow \/ RejectDriverClaim
  BY <1>3, ApproveDriverNoShowKeeps, ClaimsKeep
<1>4. CASE \E n \in 1..MaxSeats : UpdateSeats(n)
  BY <1>4, UpdateSeatsKeeps
<1>5. CASE Depart \/ Start \/ Complete \/ CancelByDriver \/ CancelByAdmin
  BY <1>5, TripKeeps, CompleteKeeps, CancelByDriverKeeps, CancelByAdminKeeps
<1>6. CASE Over \/ UNCHANGED vars
  <2>1. UNCHANGED <<ride, departed, bookings, refunds, settled, driverClaim, riderClaims>>
    BY <1>6 DEF Over, vars, claims
  <2>2. TypeOK'
    BY <2>1 DEF CommuteInv, TypeOK
  <2> QED BY <2>1, <2>2, QuietKeeps
<1> QED BY <1>1, <1>2, <1>3, <1>4, <1>5, <1>6 DEF Next

\* The invariant holds of every reachable state of a commute.
THEOREM CommuteInvariant == Spec => []CommuteInv
<1>1. Init => CommuteInv
  BY CommuteInit
<1>2. CommuteInv /\ [Next]_vars => CommuteInv'
  BY CommuteStep
<1> QED BY <1>1, <1>2, PTL DEF Spec

\* Every reachable state of a commute is well typed, for any requests.
THEOREM CommuteTyped == Spec => []TypeOK
<1>1. CommuteInv => TypeOK
  BY DEF CommuteInv
<1> QED BY <1>1, CommuteInvariant, PTL

\* The accepted bookings fit into the ride, however requests are accepted and
\* cancelled and the driver changes the seats in between.
THEOREM SeatsAreNotOversold == Spec => []SeatsNeverOversold
<1>1. CommuteInv => SeatsNeverOversold
  BY DEF CommuteInv
<1> QED BY <1>1, CommuteInvariant, PTL

\* A fare is settled or refunded, never both and never twice, over all seven
\* reasons a booking is refunded for.
THEOREM SettledOrReturned == Spec => []FareGoesOneWay
<1>1. CommuteInv => FareGoesOneWay
  BY DEF CommuteInv
<1> QED BY <1>1, CommuteInvariant, PTL

-----------------------------------------------------------------------------
(* The prepaid trip is implemented: each step moves the fares as one of its *)
(* steps does, or leaves them alone.                                        *)

\* The fares and the trip of the next state, over the next rows.
LEMMA NextFares ==
  /\ \A b \in Bookings : FareState(b)' =
       IF bookings'[b].total = 0 THEN "none"
       ELSE IF b \in settled' THEN "earned"
       ELSE IF bookings'[b].status \in {"PENDING", "CONFIRMED"} THEN "held"
       ELSE IF refunds'[b] # {} THEN "returned" ELSE "kept"
  /\ TripState' = IF ride'.status = "COMPLETED" THEN "done"
                  ELSE IF ride'.status = "CANCELLED" THEN "off" ELSE "open"
BY DEF FareState, TripState, Active

\* The fares the trip holds are those of the active bookings that cost some.
LEMMA HeldFares ==
  ASSUME CommuteInv, NEW b \in Bookings
  PROVE  FareState(b) = "held" <=> b \in Active /\ bookings[b].total # 0
BY DEF FareState, Active, CommuteInv, FareGoesOneWay

\* Fares that stay on a trip that does not end: a stutter.
LEMMA FaresStay ==
  ASSUME \A b \in Bookings : FareState(b)' = FareState(b), TripState' = TripState
  PROVE  [Trip!Next]_(Trip!vars)
<1>1. [b \in Bookings |-> FareState(b)]' = [b \in Bookings |-> FareState(b)]
  OBVIOUS
<1> QED BY <1>1 DEF Trip!vars

\* Held fares that are returned on a trip that does not end.
LEMMA FaresReturn ==
  ASSUME NEW S \in SUBSET Bookings, \A b \in S : FareState(b) = "held",
         \A b \in Bookings : FareState(b)' = IF b \in S THEN "returned" ELSE FareState(b),
         TripState' = TripState
  PROVE  [Trip!Next]_(Trip!vars)
<1>1. CASE S = {}
  BY <1>1, FaresStay
<1>2. CASE S # {}
  <2>1. S \in SUBSET Trip!Held
    BY DEF Trip!Held
  <2>2. Trip!Move(S, "returned")
    BY DEF Trip!Move
  <2>3. Trip!Return(S)
    BY <1>2, <2>2 DEF Trip!Return
  <2> QED BY <2>1, <2>3 DEF Trip!Next
<1> QED BY <1>1, <1>2

\* Where the fares of cancelled bookings go: back, unless there was none.
LEMMA CancelledFares ==
  ASSUME CommuteInv, NEW S \in SUBSET Active, NEW why \in Reasons, CancelAll(S, why),
         settled' = settled
  PROVE  \A b \in Bookings : FareState(b)' =
           IF b \in S /\ bookings[b].total # 0 THEN "returned" ELSE FareState(b)
<1>1. /\ \A b \in Bookings : b \notin S => bookings'[b] = bookings[b] /\ refunds'[b] = refunds[b]
      /\ \A b \in Bookings \cap S :
           /\ bookings'[b].status = "CANCELLED" /\ bookings'[b].total = bookings[b].total
           /\ refunds'[b] = IF Refundable(b) THEN refunds[b] \cup {why} ELSE refunds[b]
  BY CancelAllRows DEF CommuteInv
<1>2. ASSUME NEW b \in Bookings, b \notin S PROVE FareState(b)' = FareState(b)
  BY <1>1, <1>2, NextFares DEF FareState, Active
<1>3. ASSUME NEW b \in Bookings, b \in S, bookings[b].total = 0
      PROVE  FareState(b)' = "none" /\ FareState(b) = "none"
  BY <1>1, <1>3, NextFares DEF FareState
<1>4. ASSUME NEW b \in Bookings, b \in S, bookings[b].total # 0
      PROVE  FareState(b)' = "returned"
  <2>1. Refundable(b)
    <3>1. bookings[b].payment = "PAID" /\ bookings[b].total \in Nat
      BY <1>4 DEF CommuteInv, ActiveIsPaid, TypeOK, BookingRow
    <3> QED BY <1>4, <3>1 DEF Refundable
  <2>2. b \notin settled
    BY <1>4 DEF CommuteInv, FareGoesOneWay, Active
  <2>3. refunds'[b] # {} /\ bookings'[b].status = "CANCELLED" /\ bookings'[b].total # 0
    BY <1>1, <1>4, <2>1
  <2> QED BY <2>2, <2>3, NextFares
<1> QED BY <1>2, <1>3, <1>4

\* Active bookings that are cancelled while the trip goes on.
LEMMA CancelImplements ==
  ASSUME CommuteInv, NEW S \in SUBSET Active, NEW why \in Reasons, CancelAll(S, why),
         settled' = settled, TripState' = TripState
  PROVE  [Trip!Next]_(Trip!vars)
<1> DEFINE H == {b \in S : bookings[b].total # 0}
<1>1. H \in SUBSET Bookings /\ \A b \in H : FareState(b) = "held"
  BY HeldFares DEF Active
<1>2. \A b \in Bookings : FareState(b)' = IF b \in H THEN "returned" ELSE FareState(b)
  BY CancelledFares
<1> HIDE DEF H
<1> QED BY <1>1, <1>2, FaresReturn

\* All held fares leave a trip that is called off.
LEMMA CallOffImplements ==
  ASSUME NEW where \in {"returned", "kept"}, TripState = "open", TripState' = "off",
         \A b \in Bookings : FareState(b)' = IF FareState(b) = "held" THEN where ELSE FareState(b)
  PROVE  [Trip!Next]_(Trip!vars)
<1>1. Trip!Move(Trip!Held, where)
  BY DEF Trip!Move, Trip!Held
<1>2. Trip!CallOff(where)
  BY <1>1 DEF Trip!CallOff
<1> QED BY <1>2 DEF Trip!Next

\* All held fares are returned when the trip is called off.
LEMMA CancelAllImplements ==
  ASSUME CommuteInv, NEW why \in Reasons, CancelAll(Active, why), settled' = settled,
         TripState = "open", TripState' = "off"
  PROVE  [Trip!Next]_(Trip!vars)
<1>1. \A b \in Bookings : FareState(b)' =
        IF b \in Active /\ bookings[b].total # 0 THEN "returned" ELSE FareState(b)
  BY CancelledFares
<1>2. \A b \in Bookings : FareState(b)' = IF FareState(b) = "held" THEN "returned" ELSE FareState(b)
  BY <1>1, HeldFares
<1> QED BY <1>2, CallOffImplements

\* A fare is taken when a seat is asked for, unless a coupon covers all of it.
LEMMA RequestImplements ==
  ASSUME CommuteInv, NEW b \in Bookings, Request(b) PROVE [Trip!Next]_(Trip!vars)
<1>1. PICK d \in Discounts :
        bookings' = [bookings EXCEPT ![b] = [NoBooking EXCEPT
                       !.status = "PENDING", !.payment = "PAID", !.total = Fare(b) - d]]
  BY DEF Request
<1>2. /\ UNCHANGED <<ride, refunds, settled>> /\ bookings[b] = NoBooking
      /\ ride.status = "PUBLISHED"
  BY DEF Request
<1>3. /\ bookings'[b].status = "PENDING" /\ bookings'[b].total = Fare(b) - d
      /\ \A c \in Bookings : c # b => bookings'[c] = bookings[c]
  BY <1>1 DEF CommuteInv, TypeOK, NoBooking
<1>4. FareState(b) = "none" /\ b \notin settled
  BY <1>2 DEF CommuteInv, FareGoesOneWay, FareState, NoBooking
<1>5. TripState = "open" /\ TripState' = "open"
  BY <1>2, NextFares DEF TripState
<1>6. \A c \in Bookings : c # b => FareState(c)' = FareState(c)
  BY <1>2, <1>3, NextFares DEF FareState, Active
<1>7. CASE Fare(b) - d = 0
  <2>1. FareState(b)' = "none"
    BY <1>3, <1>7, NextFares
  <2> QED BY <1>4, <1>5, <1>6, <2>1, FaresStay
<1>8. CASE Fare(b) - d # 0
  <2>1. FareState(b)' = "held"
    BY <1>2, <1>3, <1>4, <1>8, NextFares
  <2>2. Trip!Move({b}, "held")
    BY <1>6, <2>1 DEF Trip!Move
  <2>3. Trip!Take(b)
    BY <1>4, <1>5, <2>2 DEF Trip!Take
  <2> QED BY <2>3 DEF Trip!Next
<1> QED BY <1>7, <1>8

\* Accepting takes no fare; the requests it ends return theirs.
LEMMA AcceptImplements ==
  ASSUME CommuteInv, NEW b \in Bookings, Accept(b) PROVE [Trip!Next]_(Trip!vars)
<1> DEFINE others == IF ride.available = Seats[b] THEN Pending \ {b} ELSE {}
           H == {c \in others : bookings[c].total # 0}
<1>1. /\ bookings[b].status = "PENDING" /\ settled' = settled
      /\ ride' = [ride EXCEPT !.available = @ - Seats[b]]
  BY DEF Accept
<1>2. others \subseteq Active /\ b \notin others
  BY DEF Pending, Active
<1>3. \A c \in Bookings : bookings[c] \in BookingRow
  BY DEF CommuteInv, TypeOK
<1>4. ASSUME NEW c \in Bookings
      PROVE  /\ bookings'[c] =
                  IF c = b THEN [bookings[c] EXCEPT !.status = "CONFIRMED"]
                  ELSE IF c \in others
                       THEN [bookings[c] EXCEPT !.status = "CANCELLED", !.reason = "ride-full",
                               !.payment = IF Refundable(c) THEN "REFUNDED" ELSE @]
                       ELSE bookings[c]
             /\ refunds'[c] = IF c \in others /\ Refundable(c)
                              THEN refunds[c] \cup {"ride-full"} ELSE refunds[c]
  BY DEF Accept
<1> HIDE DEF others
<1>5. TripState' = TripState
  BY <1>1, NextFares DEF TripState, CommuteInv, TypeOK, RideRow
<1>6. ASSUME NEW c \in others
      PROVE  FareState(c)' = IF bookings[c].total # 0 THEN "returned" ELSE FareState(c)
  <2> DEFINE paid == IF Refundable(c) THEN "REFUNDED" ELSE bookings[c].payment
  <2>0. c \in Bookings /\ c # b /\ c \in Active
    BY <1>2 DEF Active
  <2>1. bookings'[c] = [bookings[c] EXCEPT !.status = "CANCELLED", !.reason = "ride-full",
            !.payment = paid]
    BY <1>3, <1>4, <2>0 DEF BookingRow
  <2> HIDE DEF paid
  <2>2. bookings'[c].status = "CANCELLED" /\ bookings'[c].total = bookings[c].total
    BY <1>3, <2>0, <2>1 DEF BookingRow
  <2>3. c \notin settled
    BY <2>0 DEF CommuteInv, FareGoesOneWay, Active
  <2>4. CASE bookings[c].total = 0
    BY <2>0, <2>2, <2>4, NextFares DEF FareState
  <2>5. CASE bookings[c].total # 0
    <3>1. bookings[c].payment = "PAID" /\ bookings[c].total \in Nat
      BY <1>3, <2>0 DEF CommuteInv, ActiveIsPaid, BookingRow
    <3>2. Refundable(c)
      BY <2>5, <3>1 DEF Refundable
    <3>3. refunds'[c] # {}
      BY <1>4, <2>0, <3>2
    <3> QED BY <1>1, <2>0, <2>2, <2>3, <2>5, <3>3, NextFares
  <2> QED BY <2>4, <2>5
<1>7. FareState(b)' = FareState(b)
  <2>1. /\ bookings'[b].status = "CONFIRMED" /\ bookings'[b].total = bookings[b].total
        /\ refunds'[b] = refunds[b]
    <3>1. bookings'[b] = [bookings[b] EXCEPT !.status = "CONFIRMED"] /\ refunds'[b] = refunds[b]
      BY <1>2, <1>4
    <3> QED BY <1>3, <3>1 DEF BookingRow
  <2> QED BY <1>1, <2>1, NextFares DEF FareState, Active
<1>8. ASSUME NEW c \in Bookings, c # b, c \notin others PROVE FareState(c)' = FareState(c)
  BY <1>1, <1>4, <1>8, NextFares DEF FareState, Active
<1>9. \A c \in Bookings : FareState(c)' = IF c \in H THEN "returned" ELSE FareState(c)
  BY <1>2, <1>6, <1>7, <1>8
<1>10. H \in SUBSET Bookings /\ \A c \in H : FareState(c) = "held"
  BY <1>2, HeldFares DEF Active
<1> HIDE DEF H
<1> QED BY <1>5, <1>9, <1>10, FaresReturn

\* One booking that ends returns its fare; the trip goes on.
LEMMA CancelOneImplements ==
  ASSUME CommuteInv, NEW b \in Active, NEW why \in Reasons, CancelAll({b}, why), RestoreSeats(b),
         settled' = settled
  PROVE  [Trip!Next]_(Trip!vars)
<1>1. ride'.status = ride.status
  BY DEF RestoreSeats, CommuteInv, TypeOK, RideRow
<1>2. TripState' = TripState
  BY <1>1, NextFares DEF TripState
<1> QED BY <1>2, CancelImplements

\* Steps that leave the bookings' fares and the outcome of the ride alone.
LEMMA QuietImplements ==
  ASSUME UNCHANGED <<refunds, settled>>, TripState' = TripState,
         \A b \in Bookings : /\ bookings'[b].status = bookings[b].status
                             /\ bookings'[b].total = bookings[b].total
  PROVE  [Trip!Next]_(Trip!vars)
<1>1. \A b \in Bookings : FareState(b)' = FareState(b)
  BY NextFares DEF FareState, Active
<1> QED BY <1>1, FaresStay

\* Completion earns the fares of the accepted bookings.
LEMMA CompleteImplements == ASSUME CommuteInv, Complete PROVE [Trip!Next]_(Trip!vars)
<1> DEFINE S == {b \in Confirmed : bookings[b].total # 0}
<1>1. /\ ride' = [ride EXCEPT !.status = "COMPLETED"] /\ ride.status = "IN_PROGRESS"
      /\ settled' = settled \cup Confirmed /\ refunds' = refunds
  BY DEF Complete
<1>2. \A b \in Bookings : bookings[b] \in BookingRow
  BY DEF CommuteInv, TypeOK
<1>3. ASSUME NEW b \in Bookings
      PROVE  /\ bookings'[b].total = bookings[b].total
             /\ b \notin Confirmed => bookings'[b] = bookings[b]
  BY <1>2 DEF Complete, BookingRow
<1>4. TripState = "open" /\ TripState' = "done"
  BY <1>1, NextFares DEF TripState, CommuteInv, TypeOK, RideRow
<1>5. \A b \in Bookings : FareState(b)' = IF b \in S THEN "earned" ELSE FareState(b)
  <2>1. ASSUME NEW b \in Bookings, b \in Confirmed
        PROVE  FareState(b)' = IF b \in S THEN "earned" ELSE FareState(b)
    BY <1>1, <1>3, <2>1, NextFares DEF FareState
  <2>2. ASSUME NEW b \in Bookings, b \notin Confirmed
        PROVE  FareState(b)' = FareState(b)
    BY <1>1, <1>3, <2>2, NextFares DEF FareState, Active
  <2> QED BY <2>1, <2>2
<1>6. S \in SUBSET Trip!Held
  <2>1. Confirmed \subseteq Active /\ Active \subseteq Bookings
    BY DEF Confirmed, Active
  <2>2. \A b \in S : b \in Bookings /\ FareState(b) = "held"
    BY <2>1, HeldFares
  <2> HIDE DEF S
  <2> QED BY <2>2 DEF Trip!Held
<1> HIDE DEF S
<1>7. S \subseteq Bookings
  BY <1>6 DEF Trip!Held
<1>8. Trip!Move(S, "earned")
  BY <1>5 DEF Trip!Move
<1>9. Trip!Earn(S)
  BY <1>4, <1>8 DEF Trip!Earn
<1> QED BY <1>6, <1>9 DEF Trip!Next

\* The admin's cancellation returns the held fares, or the driver keeps them.
LEMMA CancelByAdminImplements == ASSUME CommuteInv, CancelByAdmin PROVE [Trip!Next]_(Trip!vars)
<1>1. /\ ride.status \in {"PUBLISHED", "IN_PROGRESS"} /\ settled' = settled
      /\ ride'.status = "CANCELLED" /\ "admin-cancel" \in Reasons
  BY CancelledByAdmin DEF CancelByAdmin, CommuteInv, Reasons
<1>2. TripState = "open" /\ TripState' = "off"
  BY <1>1, NextFares DEF TripState
<1>3. CASE CancelAll(Active, "admin-cancel")
  BY <1>1, <1>2, <1>3, CancelAllImplements
<1>4. CASE /\ bookings' = [b \in Bookings |-> IF b \in Active
                THEN [bookings[b] EXCEPT !.status = "CANCELLED", !.reason = "admin-cancel"]
                ELSE bookings[b]]
           /\ UNCHANGED refunds
  <2>1. \A b \in Bookings : bookings[b] \in BookingRow
    BY DEF CommuteInv, TypeOK
  <2>2. ASSUME NEW b \in Bookings
        PROVE  /\ bookings'[b].total = bookings[b].total
               /\ bookings'[b].status = IF b \in Active THEN "CANCELLED" ELSE bookings[b].status
    BY <1>4, <2>1 DEF BookingRow
  <2>3. ASSUME NEW b \in Bookings
        PROVE  FareState(b)' = IF FareState(b) = "held" THEN "kept" ELSE FareState(b)
    <3>1. CASE b \in Active /\ bookings[b].total # 0
      <4>1. refunds[b] = {} /\ b \notin settled
        BY <3>1 DEF CommuteInv, FareGoesOneWay, Active
      <4> QED BY <1>1, <1>4, <2>2, <3>1, <4>1, NextFares, HeldFares
    <3>2. CASE ~(b \in Active /\ bookings[b].total # 0)
      <4>1. FareState(b) # "held"
        BY <3>2, HeldFares
      <4>2. FareState(b)' = FareState(b)
        BY <1>1, <1>4, <2>2, <3>2, NextFares DEF FareState, Active
      <4> QED BY <4>1, <4>2
    <3> QED BY <3>1, <3>2
  <2> QED BY <1>2, <2>3, CallOffImplements
<1> QED BY <1>3, <1>4 DEF CancelByAdmin

\* An approved no-show returns fares; a void one changes none.
LEMMA NoShowImplements ==
  ASSUME CommuteInv, ApproveDriverNoShow \/ (\E b \in Bookings : ApproveRiderNoShow(b))
  PROVE  [Trip!Next]_(Trip!vars)
<1>1. CASE ApproveDriverNoShow
  <2>1. settled' = settled /\ "driver-no-show" \in Reasons
    BY <1>1 DEF ApproveDriverNoShow, Reasons
  <2>2. CASE /\ OnOffer /\ CancelAll(Active, "driver-no-show")
             /\ ride' = [ride EXCEPT !.status = "CANCELLED", !.reason = "driver-no-show"]
    <3>1. ride'.status = "CANCELLED"
      BY <2>2 DEF CommuteInv, TypeOK, RideRow
    <3>2. TripState = "open" /\ TripState' = "off"
      BY <2>2, <3>1, NextFares DEF TripState, OnOffer
    <3> QED BY <2>1, <2>2, <3>2, CancelAllImplements
  <2>3. CASE UNCHANGED <<ride, bookings, refunds>>
    <3>1. TripState' = TripState
      BY <2>3, NextFares DEF TripState
    <3> QED BY <2>1, <2>3, <3>1, QuietImplements
  <2> QED BY <1>1, <2>2, <2>3 DEF ApproveDriverNoShow
<1>2. ASSUME NEW b \in Bookings, ApproveRiderNoShow(b) PROVE [Trip!Next]_(Trip!vars)
  <2>1. settled' = settled /\ "passenger-no-show" \in Reasons
    BY <1>2 DEF ApproveRiderNoShow, Reasons
  <2>2. CASE b \in Active /\ RestoreSeats(b) /\ CancelAll({b}, "passenger-no-show")
    BY <2>1, <2>2, CancelOneImplements
  <2>3. CASE UNCHANGED <<ride, bookings, refunds>>
    <3>1. TripState' = TripState
      BY <2>3, NextFares DEF TripState
    <3> QED BY <2>1, <2>3, <3>1, QuietImplements
  <2> QED BY <1>2, <2>2, <2>3 DEF ApproveRiderNoShow
<1> QED BY <1>1, <1>2

\* What moves no fare is a stutter of the trip.
LEMMA RideImplements ==
  ASSUME CommuteInv,
         \/ Depart \/ Start \/ RejectDriverClaim \/ (\E n \in 1..MaxSeats : UpdateSeats(n))
         \/ Over \/ UNCHANGED vars
         \/ \E b \in Bookings : \/ VerifyPickup(b) \/ ReportDriver(b)
                                \/ ReportRider(b) \/ RejectRiderClaim(b)
  PROVE  [Trip!Next]_(Trip!vars)
<1>1. UNCHANGED <<refunds, settled>>
  BY DEF Depart, Start, RejectDriverClaim, UpdateSeats, Over, vars, VerifyPickup, ReportDriver,
         ReportRider, RejectRiderClaim
<1>2. TripState' = TripState
  <2>1. \/ ride'.status = ride.status
        \/ ride.status = "PUBLISHED" /\ ride'.status = "IN_PROGRESS"
    BY DEF Depart, Start, RejectDriverClaim, UpdateSeats, Over, vars, VerifyPickup, ReportDriver,
           ReportRider, RejectRiderClaim, CommuteInv, TypeOK, RideRow
  <2> QED BY <2>1, NextFares DEF TripState
<1>3. CASE bookings' = bookings
  BY <1>1, <1>2, <1>3, QuietImplements
<1>4. ASSUME NEW b \in Bookings, VerifyPickup(b) PROVE [Trip!Next]_(Trip!vars)
  <2>1. bookings' = [bookings EXCEPT ![b] = [bookings[b] EXCEPT !.picked = TRUE]]
    BY <1>4 DEF VerifyPickup
  <2>2. \A c \in Bookings : /\ bookings'[c].status = bookings[c].status
                            /\ bookings'[c].total = bookings[c].total
    BY <2>1 DEF CommuteInv, TypeOK, BookingRow
  <2> QED BY <1>1, <1>2, <2>2, QuietImplements
<1> QED BY <1>3, <1>4 DEF Depart, Start, RejectDriverClaim, UpdateSeats, Over, vars, ReportDriver,
                          ReportRider, RejectRiderClaim

\* Every step of Next, or none, is a step of the trip or a stutter.
LEMMA StepIsTripStep == CommuteInv /\ [Next]_vars => [Trip!Next]_(Trip!vars)
<1> SUFFICES ASSUME CommuteInv, [Next]_vars PROVE [Trip!Next]_(Trip!vars)
  OBVIOUS
<1>1. ASSUME NEW b \in Bookings, Reject(b) PROVE [Trip!Next]_(Trip!vars)
  <2>1. /\ b \in Active /\ CancelAll({b}, "reject") /\ "reject" \in Reasons
        /\ settled' = settled /\ ride' = ride
    BY <1>1 DEF Reject, Active, Reasons
  <2>2. TripState' = TripState
    BY <2>1, NextFares DEF TripState
  <2> QED BY <2>1, <2>2, CancelImplements
<1>2. ASSUME NEW b \in Bookings, CancelByRider(b) PROVE [Trip!Next]_(Trip!vars)
  <2>1. /\ b \in Active /\ CancelAll({b}, "rider-cancel") /\ "rider-cancel" \in Reasons
        /\ settled' = settled /\ RestoreSeats(b)
    BY <1>2 DEF CancelByRider, Reasons
  <2> QED BY <2>1, CancelOneImplements
<1>3. CASE CancelByDriver
  <2>1. /\ ride.status = "PUBLISHED"
        /\ ride' = [ride EXCEPT !.status = "CANCELLED", !.reason = "ride-cancel"]
        /\ CancelAll(Active, "ride-cancel") /\ settled' = settled /\ "ride-cancel" \in Reasons
    BY <1>3 DEF CancelByDriver, CallOff, Reasons
  <2>2. ride'.status = "CANCELLED"
    BY <2>1 DEF CommuteInv, TypeOK, RideRow
  <2>3. TripState = "open" /\ TripState' = "off"
    BY <2>1, <2>2, NextFares DEF TripState
  <2> QED BY <2>1, <2>3, CancelAllImplements
<1> QED BY <1>1, <1>2, <1>3, RequestImplements, AcceptImplements, CompleteImplements,
           CancelByAdminImplements, NoShowImplements, RideImplements DEF Next

\* Nothing is booked and no fare taken at first.
LEMMA InitIsTripInit == Init => Trip!Init
<1> SUFFICES ASSUME Init PROVE Trip!Init
  OBVIOUS
<1>1. \A b \in Bookings : FareState(b) = "none"
  BY DEF Init, FareState, NoBooking
<1>2. TripState = "open"
  BY DEF Init, TripState
<1> QED BY <1>1, <1>2 DEF Trip!Init

\* Whatever riders, driver, admin and claims do, the fares of a commute move as
\* those of a prepaid trip: taken once, earned at the one completion, or back.
THEOREM CommuteImplementsTrip == Spec => ImplementsPrepaidTrip
<1> QED
  BY CommuteInvariant, StepIsTripStep, InitIsTripInit, PTL DEF Spec, ImplementsPrepaidTrip,
    Trip!Spec

-----------------------------------------------------------------------------
(* Deposits, for any requests and amounts.  Between the moment a booking   *)
(* reads its rate and its commit nobody else books the ride, because both  *)
(* lock it (QuotesAlone); whatever ends bookings in between is told apart  *)
(* by how it ends them.                                                    *)

\* There are no bookings, penalties and vouchers at first.
LEMMA InitTermsInv == ASSUME Terms!Parameters, Terms!Init PROVE Terms!TermsInv
<1>1. vouchers = <<>> /\ vouchers \in Seq(Terms!Voucher) /\ DOMAIN vouchers = {}
  BY DEF Terms!Init
<1>2. Terms!TypeOK
  BY <1>1 DEF Terms!Init, Terms!TypeOK, Terms!NoBooking, Terms!NoPenalty, Terms!Stages,
     Terms!Statuses, Terms!BookingRow, Terms!PenaltyRow
<1>3. Terms!RowsFit /\ Terms!QuotesAlone /\ Terms!PenaltyFits
  BY <1>1 DEF Terms!Init, Terms!NoBooking, Terms!RowsFit, Terms!QuotesAlone, Terms!PenaltyFits
<1>4. Terms!PenaltyIsWorkedOff
  BY DEF Terms!Init, Terms!PenaltyIsWorkedOff
<1>5. Terms!VouchersCountOnce
  BY <1>1 DEF Terms!Init, Terms!NoBooking, Terms!VouchersCountOnce
<1>6. Terms!OneBookingPerKey
  BY DEF Terms!Init, Terms!OneBookingPerKey
<1> QED BY <1>2, <1>3, <1>4, <1>5, <1>6 DEF Terms!TermsInv

\* The vouchers are a sequence of typed rows.
LEMMA VouchersTyped ==
  ASSUME Terms!TypeOK
  PROVE  /\ Len(vouchers) \in Nat /\ DOMAIN vouchers = 1..Len(vouchers)
         /\ \A v \in DOMAIN vouchers : /\ vouchers[v] \in Terms!Voucher
                                       /\ vouchers[v].source \in Terms!Requests
                                       /\ vouchers[v].usedOn \in Terms!Requests \cup {0}
<1>1. vouchers \in Seq(Terms!Voucher)
  BY DEF Terms!TypeOK
<1>2. Len(vouchers) \in Nat /\ DOMAIN vouchers = 1..Len(vouchers)
  BY <1>1
<1>3. \A v \in DOMAIN vouchers : vouchers[v] \in Terms!Voucher
  BY <1>1, <1>2
<1> QED BY <1>2, <1>3 DEF Terms!Voucher

\* Steps that change no booking, penalty or voucher.
LEMMA NoBookingChanges ==
  ASSUME Terms!TermsInv, UNCHANGED <<booking, penalty, vouchers>>,
         stage' \in [Terms!Requests -> Terms!Stages], rate' \in [Terms!Requests -> Nat],
         boarded' \in [Terms!Rides -> {"OPEN", "DEPARTED", "OVER"}], Terms!QuotesAlone'
  PROVE  Terms!TermsInv'
<1>1. Terms!TypeOK' /\ Terms!RowsFit' /\ Terms!PenaltyFits'
  BY DEF Terms!TermsInv, Terms!TypeOK, Terms!RowsFit, Terms!PenaltyFits
<1>2. Terms!PenaltyIsWorkedOff' /\ Terms!VouchersCountOnce'
  BY DEF Terms!TermsInv, Terms!PenaltyIsWorkedOff, Terms!VouchersCountOnce
<1>3. Terms!OneBookingPerKey'
  BY DEF Terms!TermsInv, Terms!OneBookingPerKey, Terms!Live
<1> QED BY <1>1, <1>2, <1>3 DEF Terms!TermsInv

\* A request that goes on, and reads no rate.
LEMMA RequestMoves ==
  ASSUME Terms!TermsInv, NEW i \in Terms!Requests, NEW to \in Terms!Stages \ {"quoted"},
         stage' = [stage EXCEPT ![i] = to], UNCHANGED <<rate, booking, boarded, penalty, vouchers>>
  PROVE  Terms!TermsInv'
<1>1. stage \in [Terms!Requests -> Terms!Stages] /\ rate' \in [Terms!Requests -> Nat]
      /\ boarded' \in [Terms!Rides -> {"OPEN", "DEPARTED", "OVER"}]
  BY DEF Terms!TermsInv, Terms!TypeOK
<1>2. Terms!QuotesAlone'
  BY <1>1 DEF Terms!TermsInv, Terms!QuotesAlone, Terms!LiveOn, Terms!Live
<1> QED BY <1>1, <1>2, NoBookingChanges

\* A request is looked up, and refused.
LEMMA BeginKeeps ==
  ASSUME Terms!TermsInv, NEW i \in Terms!Requests, Terms!Begin(i) \/ Terms!Refuse(i)
  PROVE  Terms!TermsInv'
<1>1. UNCHANGED <<rate, booking, boarded, penalty, vouchers>>
  BY DEF Terms!Begin, Terms!Refuse
<1>2. PICK to \in {"checked", "answered", "refused"} : stage' = [stage EXCEPT ![i] = to]
  BY DEF Terms!Begin, Terms!Refuse, Terms!AnswerFrom
<1> QED BY <1>1, <1>2, RequestMoves DEF Terms!Stages

\* The rate is read under the lock of the ride, when nobody is live on it.
LEMMA ReadQuoteKeeps ==
  ASSUME Terms!Parameters, Terms!TermsInv, NEW i \in Terms!Requests, Terms!ReadQuote(i)
  PROVE  Terms!TermsInv'
<1>1. UNCHANGED <<booking, boarded, penalty, vouchers>> /\ ~Terms!Locked(TermsAsked[i].ride)
  BY DEF Terms!ReadQuote
<1>2. CASE UNCHANGED rate /\ \E to \in {"answered", "refused"} : stage' = [stage EXCEPT ![i] = to]
  BY <1>1, <1>2, RequestMoves DEF Terms!Stages
<1>3. CASE /\ stage' = [stage EXCEPT ![i] = "quoted"] /\ rate' = [rate EXCEPT ![i] = Terms!Quote]
           /\ Terms!LiveOn(TermsAsked[i].ride) = {}
  <2>1. /\ stage \in [Terms!Requests -> Terms!Stages]
        /\ rate \in [Terms!Requests -> Nat]
        /\ Terms!QuotesAlone
        /\ boarded' \in [Terms!Rides -> {"OPEN", "DEPARTED", "OVER"}]
    BY <1>1 DEF Terms!TermsInv, Terms!TypeOK
  <2>2. Terms!Quote \in Nat
    BY DEF Terms!Quote, Terms!Elevated, Terms!Parameters
  <2>3. stage' \in [Terms!Requests -> Terms!Stages] /\ rate' \in [Terms!Requests -> Nat]
    BY <1>3, <2>1, <2>2 DEF Terms!Stages
  <2>4. \A j \in Terms!Requests : Terms!LiveOn(TermsAsked[j].ride)' =
          Terms!LiveOn(TermsAsked[j].ride)
    BY <1>1 DEF Terms!LiveOn, Terms!Live
  <2>5. \A j \in Terms!Requests : stage'[j] = "quoted" => j = i \/ stage[j] = "quoted"
    BY <1>3, <2>1
  <2>6. \A j \in Terms!Requests : stage[j] = "quoted" => TermsAsked[j].ride # TermsAsked[i].ride
    BY <1>1 DEF Terms!Locked
  <2>7. Terms!QuotesAlone'
    BY <1>3, <2>1, <2>4, <2>5, <2>6 DEF Terms!QuotesAlone
  <2> QED BY <1>1, <2>1, <2>3, <2>7, NoBookingChanges
<1> QED BY <1>2, <1>3 DEF Terms!ReadQuote, Terms!AnswerFrom

\* A ride leaves, or nothing is left to happen.
LEMMA DepartKeeps ==
  ASSUME Terms!TermsInv,
         Terms!Rest \/ UNCHANGED Terms!termsVars \/ \E r \in Terms!Rides : Terms!Depart(r)
  PROVE  Terms!TermsInv'
<1>1. UNCHANGED <<stage, rate, booking, penalty, vouchers>>
  BY DEF Terms!Rest, Terms!termsVars, Terms!Depart
<1>2. boarded' \in [Terms!Rides -> {"OPEN", "DEPARTED", "OVER"}]
  BY DEF Terms!Rest, Terms!termsVars, Terms!Depart, Terms!TermsInv, Terms!TypeOK
<1>3. Terms!QuotesAlone'
  BY <1>1 DEF Terms!TermsInv, Terms!QuotesAlone, Terms!LiveOn, Terms!Live
<1>4. stage' \in [Terms!Requests -> Terms!Stages] /\ rate' \in [Terms!Requests -> Nat]
  BY <1>1 DEF Terms!TermsInv, Terms!TypeOK
<1> QED BY <1>1, <1>2, <1>3, <1>4, NoBookingChanges

-----------------------------------------------------------------------------
Endings == Terms!Statuses \ {"NONE", "CONFIRMED"}

\* Bookings that end keep what they were charged.
LEMMA EndOf ==
  ASSUME Terms!TypeOK, NEW S \in SUBSET Terms!Requests, \A i \in S : Terms!Live(i),
         NEW how \in Endings,
         booking' = Terms!End(S, how)
  PROVE  /\ booking' \in [Terms!Requests -> Terms!BookingRow]
         /\ \A i \in Terms!Requests :
              /\ booking'[i].rate = booking[i].rate /\ booking'[i].voucher = booking[i].voucher
              /\ booking'[i].deposit = booking[i].deposit
              /\ booking'[i].status = IF i \in S THEN how ELSE booking[i].status
              /\ booking'[i] # Terms!NoBooking => booking[i] # Terms!NoBooking
<1>1. booking \in [Terms!Requests -> Terms!BookingRow]
  BY DEF Terms!TypeOK
<1>2. ASSUME NEW i \in Terms!Requests
      PROVE  /\ booking'[i] = IF i \in S THEN [booking[i] EXCEPT !.status = how] ELSE booking[i]
             /\ [booking[i] EXCEPT !.status = how] \in Terms!BookingRow
             /\ i \in S => booking[i] # Terms!NoBooking
  <2>1. booking'[i] = IF i \in S THEN [booking[i] EXCEPT !.status = how] ELSE booking[i]
    BY <1>2 DEF Terms!End
  <2>2. [booking[i] EXCEPT !.status = how] \in Terms!BookingRow
    BY <1>1, <1>2 DEF Terms!BookingRow, Endings
  <2>3. i \in S => booking[i] # Terms!NoBooking
    BY DEF Terms!Live, Terms!NoBooking
  <2> QED BY <2>1, <2>2, <2>3
<1>3. booking' \in [Terms!Requests -> Terms!BookingRow]
  <2>1. booking' = [i \in Terms!Requests |-> IF i \in S
                THEN [booking[i] EXCEPT !.status = how] ELSE booking[i]]
    BY DEF Terms!End
  <2> QED BY <1>1, <1>2, <2>1
<1>4. \A i \in Terms!Requests : booking[i] \in Terms!BookingRow
  BY <1>1
<1> QED BY <1>2, <1>3, <1>4 DEF Terms!BookingRow

\* Bookings that end free their keys and rides for nobody.
LEMMA EndedFits ==
  ASSUME Terms!TermsInv, NEW S \in SUBSET Terms!Requests, \A i \in S : Terms!Live(i),
         NEW how \in Endings,
         booking' = Terms!End(S, how), UNCHANGED <<stage, rate>>,
         boarded' \in [Terms!Rides -> {"OPEN", "DEPARTED", "OVER"}],
         penalty' \in Terms!PenaltyRow, vouchers' \in Seq(Terms!Voucher),
         DOMAIN vouchers \subseteq DOMAIN vouchers',
         Terms!PenaltyFits', Terms!PenaltyIsWorkedOff', Terms!VouchersCountOnce'
  PROVE  Terms!TermsInv'
<1>1. Terms!TypeOK /\ Terms!RowsFit /\ Terms!QuotesAlone /\ Terms!OneBookingPerKey
  BY DEF Terms!TermsInv
<1>2. /\ booking' \in [Terms!Requests -> Terms!BookingRow]
      /\ \A i \in Terms!Requests :
           /\ booking'[i].voucher = booking[i].voucher
           /\ booking'[i].status = "CONFIRMED" => booking[i].status = "CONFIRMED"
           /\ booking'[i] # Terms!NoBooking => booking[i] # Terms!NoBooking
  <2>1. /\ booking' \in [Terms!Requests -> Terms!BookingRow]
        /\ \A i \in Terms!Requests :
             /\ booking'[i].rate = booking[i].rate /\ booking'[i].voucher = booking[i].voucher
             /\ booking'[i].deposit = booking[i].deposit
             /\ booking'[i].status = IF i \in S THEN how ELSE booking[i].status
             /\ booking'[i] # Terms!NoBooking => booking[i] # Terms!NoBooking
    BY <1>1, EndOf
  <2>2. how # "CONFIRMED"
    BY DEF Endings
  <2> QED BY <2>1, <2>2
<1>3. Terms!TypeOK'
  BY <1>1, <1>2 DEF Terms!TypeOK
<1>4. Terms!RowsFit'
  BY <1>1, <1>2 DEF Terms!RowsFit
<1>5. Terms!QuotesAlone'
  BY <1>1, <1>2 DEF Terms!QuotesAlone, Terms!LiveOn, Terms!Live
<1>6. Terms!OneBookingPerKey'
  BY <1>1, <1>2 DEF Terms!OneBookingPerKey, Terms!Live
<1> QED BY <1>3, <1>4, <1>5, <1>6 DEF Terms!TermsInv

\* No voucher is issued.
LEMMA EndedWithoutVoucher ==
  ASSUME Terms!TermsInv, NEW S \in SUBSET Terms!Requests, \A i \in S : Terms!Live(i),
         NEW how \in Endings,
         booking' = Terms!End(S, how), UNCHANGED vouchers
  PROVE  Terms!VouchersCountOnce' /\ vouchers' \in Seq(Terms!Voucher) /\
           DOMAIN vouchers \subseteq DOMAIN vouchers'
<1>1. Terms!TypeOK /\ Terms!VouchersCountOnce
  BY DEF Terms!TermsInv
<1>2. \A i \in Terms!Requests :
        /\ booking'[i].voucher = booking[i].voucher /\ booking'[i].deposit = booking[i].deposit
        /\ booking[i].status \in {"RIDE_CANCELLED", "RIDER_NO_SHOW"} =>
             booking'[i].status = booking[i].status
  BY <1>1, EndOf DEF Terms!Live
<1>3. \A v \in DOMAIN vouchers : vouchers[v].source \in Terms!Requests /\
        vouchers[v].usedOn \in Terms!Requests \cup {0}
  BY <1>1, VouchersTyped
<1>4. Terms!VouchersCountOnce'
  BY <1>1, <1>2, <1>3 DEF Terms!VouchersCountOnce
<1> QED BY <1>1, <1>4 DEF Terms!TypeOK

\* One of the bookings that end, if any, brings a voucher.
LEMMA EndedWithVoucher ==
  ASSUME Terms!Parameters, Terms!TermsInv, NEW S \in SUBSET Terms!Requests,
         \A i \in S : Terms!Live(i),
         NEW how \in {"RIDE_CANCELLED", "RIDER_NO_SHOW"},
         booking' = Terms!End(S, how), vouchers' = Terms!Issued(S)
  PROVE  Terms!VouchersCountOnce' /\ vouchers' \in Seq(Terms!Voucher) /\
           DOMAIN vouchers \subseteq DOMAIN vouchers'
<1>0. how \in Endings
  BY DEF Endings, Terms!Statuses
<1>t. /\ Terms!TypeOK
      /\ Terms!VouchersCountOnce
      /\ vouchers \in Seq(Terms!Voucher)
      /\ Len(vouchers) \in Nat
      /\ DOMAIN vouchers = 1..Len(vouchers)
  BY DEF Terms!TermsInv, Terms!TypeOK
<1>1. CASE S = {}
  <2>1. vouchers' = vouchers \o <<>>
    BY <1>1 DEF Terms!Issued
  <2>2. UNCHANGED vouchers
    BY <1>t, <2>1
  <2> QED BY <1>0, <2>2, EndedWithoutVoucher
<1>2. CASE S # {}
  <2> DEFINE s == CHOOSE i \in S : TRUE
             new == [source |-> s, usedOn |-> 0]
             n == Len(vouchers) + 1
  <2>1. s \in S /\ s \in Terms!Requests
    BY <1>2
  <2>2. vouchers' = vouchers \o <<new>>
    BY <1>2 DEF Terms!Issued
  <2>3. new \in Terms!Voucher
    BY <2>1 DEF Terms!Voucher
  <2>4. new.source = s /\ new.usedOn = 0
    OBVIOUS
  <2> HIDE DEF s, new
  <2>5. /\ vouchers' = Append(vouchers, new) /\ vouchers' \in Seq(Terms!Voucher)
        /\ DOMAIN vouchers' = 1..n /\ vouchers'[n] = new
        /\ \A v \in DOMAIN vouchers : vouchers'[v] = vouchers[v]
    BY <1>t, <2>2, <2>3
  <2>6. \A i \in Terms!Requests :
          /\ booking'[i].voucher = booking[i].voucher /\ booking'[i].deposit = booking[i].deposit
          /\ booking[i].status \in {"RIDE_CANCELLED", "RIDER_NO_SHOW"} =>
               booking'[i].status = booking[i].status
          /\ i \in S => booking[i].status = "CONFIRMED" /\ booking'[i].status = how
    BY <1>0, <1>t, EndOf DEF Terms!Live
  <2>7. \A v \in DOMAIN vouchers : /\ vouchers[v].source \in Terms!Requests /\
                                        vouchers[v].usedOn \in Terms!Requests \cup {0}
                                   /\ vouchers[v].source # s
    BY <1>t, <2>1, <2>6, VouchersTyped DEF Terms!VouchersCountOnce
  <2>8. DOMAIN vouchers' = DOMAIN vouchers \cup {n} /\ n \notin DOMAIN vouchers
    BY <1>t, <2>5
  <2>9. Terms!RowsFit
    BY DEF Terms!TermsInv
  <2>a. \A v \in DOMAIN vouchers' :
          /\ booking'[vouchers'[v].source].status \in {"RIDE_CANCELLED", "RIDER_NO_SHOW"}
          /\ vouchers'[v].usedOn # 0 =>
               /\ vouchers'[v].usedOn # vouchers'[v].source
               /\ booking'[vouchers'[v].usedOn].voucher = v
               /\ booking'[vouchers'[v].usedOn].deposit = 0
    BY <1>t, <2>1, <2>4, <2>5, <2>6, <2>7, <2>8 DEF Terms!VouchersCountOnce
  <2>b. \A i \in Terms!Requests : booking'[i].voucher # 0 =>
          vouchers'[booking'[i].voucher].usedOn = i
    BY <1>t, <2>5, <2>6, <2>8, <2>9 DEF Terms!VouchersCountOnce, Terms!RowsFit
  <2>c. \A v, w \in DOMAIN vouchers' : v # w => vouchers'[v].source # vouchers'[w].source
    BY <1>t, <2>4, <2>5, <2>7, <2>8 DEF Terms!VouchersCountOnce
  <2> QED BY <2>5, <2>8, <2>a, <2>b, <2>c DEF Terms!VouchersCountOnce
<1> QED BY <1>1, <1>2

\* A booking others end neither works the penalty off nor brings it back.
LEMMA EndedByOthers ==
  ASSUME Terms!Parameters, Terms!TermsInv, NEW S \in SUBSET Terms!Requests,
         \A i \in S : Terms!Live(i),
         NEW how \in Endings \ {"CANCELLED_BY_PASSENGER", "COMPLETED"},
         booking' = Terms!End(S, how), UNCHANGED penalty
  PROVE  Terms!PenaltyIsWorkedOff' /\ Terms!PenaltyFits' /\ penalty' \in Terms!PenaltyRow
<1>1. Terms!TypeOK /\ Terms!PenaltyIsWorkedOff /\ Terms!PenaltyFits
  BY DEF Terms!TermsInv
<1>2. \A i \in Terms!Requests :
        /\ booking'[i].rate = booking[i].rate
        /\ booking'[i].status = IF i \in S THEN how ELSE booking[i].status
        /\ i \in S => booking[i].status = "CONFIRMED"
  BY <1>1, EndOf DEF Terms!Live
<1>3. penalty.consumedOn \in Terms!Requests \cup {0} /\ penalty.cleared \in BOOLEAN
  BY <1>1 DEF Terms!TypeOK, Terms!PenaltyRow
<1>4. Terms!PenaltyIsWorkedOff'
  BY <1>1, <1>2, <1>3 DEF Terms!PenaltyIsWorkedOff, Terms!PenaltyFits
<1> QED BY <1>1, <1>4 DEF Terms!TypeOK, Terms!PenaltyFits

\* Completing the booking a penalty was used on clears it, and no other does.
LEMMA EndedByCompletion ==
  ASSUME Terms!Parameters, Terms!TermsInv, NEW S \in SUBSET Terms!Requests,
         \A i \in S : Terms!Live(i),
         booking' = Terms!End(S, "COMPLETED"), penalty' = Terms!ClearedBy(S)
  PROVE  Terms!PenaltyIsWorkedOff' /\ Terms!PenaltyFits' /\ penalty' \in Terms!PenaltyRow
<1>1. Terms!TypeOK /\ Terms!PenaltyIsWorkedOff /\ Terms!PenaltyFits
  BY DEF Terms!TermsInv
<1>2. "COMPLETED" \in Endings
  BY DEF Endings, Terms!Statuses
<1>3. \A i \in Terms!Requests :
        /\ booking'[i].rate = booking[i].rate
        /\ booking'[i].status = IF i \in S THEN "COMPLETED" ELSE booking[i].status
        /\ i \in S => booking[i].status = "CONFIRMED"
  BY <1>1, <1>2, EndOf DEF Terms!Live
<1>4. penalty \in Terms!PenaltyRow
  BY <1>1 DEF Terms!TypeOK
<1>5. CASE ~penalty.cleared /\ penalty.consumedOn \in S
  <2>1. penalty' = [penalty EXCEPT !.cleared = TRUE]
    BY <1>5 DEF Terms!ClearedBy
  <2>2. /\ penalty' \in Terms!PenaltyRow /\ penalty'.source = penalty.source
        /\ penalty'.consumedOn = penalty.consumedOn /\ penalty'.cleared
    BY <1>4, <2>1 DEF Terms!PenaltyRow
  <2>3. penalty # Terms!NoPenalty
    BY <1>5 DEF Terms!NoPenalty
  <2> QED BY <1>1, <1>3, <1>5, <2>2, <2>3 DEF Terms!PenaltyIsWorkedOff, Terms!PenaltyFits,
  Terms!Parameters
<1>6. CASE ~(~penalty.cleared /\ penalty.consumedOn \in S)
  <2>1. penalty' = penalty
    BY <1>6 DEF Terms!ClearedBy
  <2>2. penalty.consumedOn \in Terms!Requests \cup {0} /\ penalty.cleared \in BOOLEAN
    BY <1>4 DEF Terms!PenaltyRow
  <2>3. Terms!PenaltyIsWorkedOff'
    BY <1>1, <1>3, <1>6, <2>1, <2>2 DEF Terms!PenaltyIsWorkedOff, Terms!PenaltyFits
  <2> QED BY <1>1, <1>4, <2>1, <2>3 DEF Terms!PenaltyFits
<1> QED BY <1>5, <1>6

\* A passenger who cancels has a penalty afterwards, and has not worked it off.
LEMMA EndedByPassenger ==
  ASSUME Terms!Parameters, Terms!TermsInv, NEW i \in Terms!Requests, Terms!Live(i),
         booking' = Terms!End({i}, "CANCELLED_BY_PASSENGER"), penalty' =
           Terms!Penalised(Terms!Reopened(i), i)
  PROVE  Terms!PenaltyIsWorkedOff' /\ Terms!PenaltyFits' /\ penalty' \in Terms!PenaltyRow
<1>1. Terms!TypeOK /\ Terms!PenaltyIsWorkedOff /\ Terms!PenaltyFits
  BY DEF Terms!TermsInv
<1>2. "CANCELLED_BY_PASSENGER" \in Endings
  BY DEF Endings, Terms!Statuses
<1>3. /\ \A j \in Terms!Requests :
           /\ booking'[j].rate = booking[j].rate
           /\ booking'[j].status = IF j = i THEN "CANCELLED_BY_PASSENGER" ELSE booking[j].status
      /\ booking[i].status = "CONFIRMED"
  <2>1. \A j \in Terms!Requests :
          /\ booking'[j].rate = booking[j].rate
          /\ booking'[j].status = IF j \in {i} THEN "CANCELLED_BY_PASSENGER" ELSE booking[j].status
    BY <1>1, <1>2, EndOf
  <2> QED BY <2>1 DEF Terms!Live
<1>4. penalty \in Terms!PenaltyRow
  BY <1>1 DEF Terms!TypeOK
<1>5. CASE penalty.cleared
  <2>1. penalty' = [source |-> i, consumedOn |-> 0, cleared |-> FALSE]
    BY <1>5 DEF Terms!Penalised, Terms!Reopened
  <2>2. /\ penalty' \in Terms!PenaltyRow /\ penalty'.source = i
        /\ penalty'.consumedOn = 0 /\ penalty'.cleared = FALSE
    BY <2>1 DEF Terms!PenaltyRow
  <2>3. booking'[i].status = "CANCELLED_BY_PASSENGER"
    BY <1>3
  <2> QED BY <2>2, <2>3 DEF Terms!PenaltyIsWorkedOff, Terms!PenaltyFits
<1>6. CASE ~penalty.cleared /\ penalty.consumedOn = i
  <2>1. Terms!Reopened(i) = [penalty EXCEPT !.consumedOn = 0]
    BY <1>6 DEF Terms!Reopened
  <2>2. /\ Terms!Reopened(i).cleared = FALSE
        /\ Terms!Reopened(i).source = penalty.source
        /\ Terms!Reopened(i).consumedOn = 0
        /\ Terms!Reopened(i) \in Terms!PenaltyRow
    <3>1. penalty.cleared = FALSE
      BY <1>4, <1>6 DEF Terms!PenaltyRow
    <3> QED BY <1>4, <2>1, <3>1 DEF Terms!PenaltyRow
  <2>3. penalty' = Terms!Reopened(i)
    BY <2>2 DEF Terms!Penalised
  <2>4. penalty # Terms!NoPenalty
    BY <1>6 DEF Terms!NoPenalty
  <2> QED BY <1>1, <1>3, <2>2, <2>3, <2>4 DEF Terms!PenaltyIsWorkedOff, Terms!PenaltyFits
<1>7. CASE ~penalty.cleared /\ penalty.consumedOn # i
  <2>1. penalty' = penalty
    BY <1>7 DEF Terms!Penalised, Terms!Reopened
  <2>2. penalty.consumedOn \in Terms!Requests \cup {0} /\ penalty # Terms!NoPenalty
    BY <1>4, <1>7 DEF Terms!PenaltyRow, Terms!NoPenalty
  <2> QED BY <1>1, <1>3, <1>4, <1>7, <2>1, <2>2 DEF Terms!PenaltyIsWorkedOff, Terms!PenaltyFits
<1> QED BY <1>5, <1>6, <1>7

\* Whoever ends bookings, and however.
LEMMA EndingKeeps ==
  ASSUME Terms!Parameters, Terms!TermsInv,
         \/ \E i \in Terms!Requests : Terms!CancelByPassenger(i) \/ Terms!RiderNoShow(i)
         \/ \E r \in Terms!Rides : Terms!CancelByDriver(r) \/ Terms!DriverNoShow(r) \/
              Terms!CancelByAdmin(r) \/ Terms!CompleteRide(r)
  PROVE  Terms!TermsInv'
<1>0. boarded \in [Terms!Rides -> {"OPEN", "DEPARTED", "OVER"}]
  BY DEF Terms!TermsInv, Terms!TypeOK
<1>1. {"CANCELLED_BY_PASSENGER", "RIDER_NO_SHOW", "RIDE_CANCELLED", "DRIVER_NO_SHOW",
          "COMPLETED"} \subseteq Endings
  BY DEF Endings, Terms!Statuses
<1>2. ASSUME NEW i \in Terms!Requests, Terms!CancelByPassenger(i) PROVE Terms!TermsInv'
  <2>1. /\ Terms!Live(i) /\ booking' = Terms!End({i}, "CANCELLED_BY_PASSENGER")
        /\ penalty' = Terms!Penalised(Terms!Reopened(i), i)
        /\ UNCHANGED <<stage, rate, boarded, vouchers>>
    BY <1>2 DEF Terms!CancelByPassenger
  <2>2. Terms!PenaltyIsWorkedOff' /\ Terms!PenaltyFits' /\ penalty' \in Terms!PenaltyRow
    BY <2>1, EndedByPassenger
  <2>3. /\ Terms!VouchersCountOnce'
        /\ vouchers' \in Seq(Terms!Voucher)
        /\ DOMAIN vouchers \subseteq DOMAIN vouchers'
    BY <1>1, <2>1, EndedWithoutVoucher
  <2> QED BY <1>0, <1>1, <2>1, <2>2, <2>3, EndedFits
<1>3. ASSUME NEW i \in Terms!Requests, Terms!RiderNoShow(i) PROVE Terms!TermsInv'
  <2>1. /\ Terms!Live(i)
        /\ booking' = Terms!End({i}, "RIDER_NO_SHOW")
        /\ vouchers' = Terms!Issued({i})
        /\ UNCHANGED <<stage, rate, boarded, penalty>>
    BY <1>3 DEF Terms!RiderNoShow
  <2>2. Terms!PenaltyIsWorkedOff' /\ Terms!PenaltyFits' /\ penalty' \in Terms!PenaltyRow
    BY <1>1, <2>1, EndedByOthers
  <2>3. /\ Terms!VouchersCountOnce'
        /\ vouchers' \in Seq(Terms!Voucher)
        /\ DOMAIN vouchers \subseteq DOMAIN vouchers'
    BY <2>1, EndedWithVoucher
  <2> QED BY <1>0, <1>1, <2>1, <2>2, <2>3, EndedFits
<1>4. ASSUME NEW r \in Terms!Rides, NEW how \in Endings, Terms!EndRide(r, how)
      PROVE  /\ Terms!LiveOn(r) \in SUBSET Terms!Requests /\
                  \A i \in Terms!LiveOn(r) : Terms!Live(i)
             /\ booking' = Terms!End(Terms!LiveOn(r), how) /\ UNCHANGED <<stage, rate>>
             /\ boarded' \in [Terms!Rides -> {"OPEN", "DEPARTED", "OVER"}]
  BY <1>0, <1>4 DEF Terms!EndRide, Terms!LiveOn
<1>5. ASSUME NEW r \in Terms!Rides, Terms!CancelByDriver(r) PROVE Terms!TermsInv'
  <2>1. /\ Terms!EndRide(r, "RIDE_CANCELLED")
        /\ vouchers' = Terms!Issued(Terms!LiveOn(r))
        /\ UNCHANGED penalty
    BY <1>5 DEF Terms!CancelByDriver
  <2>2. Terms!PenaltyIsWorkedOff' /\ Terms!PenaltyFits' /\ penalty' \in Terms!PenaltyRow
    BY <1>1, <1>4, <2>1, EndedByOthers
  <2>3. /\ Terms!VouchersCountOnce'
        /\ vouchers' \in Seq(Terms!Voucher)
        /\ DOMAIN vouchers \subseteq DOMAIN vouchers'
    BY <1>1, <1>4, <2>1, EndedWithVoucher
  <2> QED BY <1>1, <1>4, <2>1, <2>2, <2>3, EndedFits
<1>6. ASSUME NEW r \in Terms!Rides, NEW how \in {"RIDE_CANCELLED", "DRIVER_NO_SHOW"},
             Terms!EndRide(r, how),
             UNCHANGED <<penalty, vouchers>>
      PROVE  Terms!TermsInv'
  <2>1. Terms!PenaltyIsWorkedOff' /\ Terms!PenaltyFits' /\ penalty' \in Terms!PenaltyRow
    BY <1>1, <1>4, <1>6, EndedByOthers
  <2>2. /\ Terms!VouchersCountOnce'
        /\ vouchers' \in Seq(Terms!Voucher)
        /\ DOMAIN vouchers \subseteq DOMAIN vouchers'
    BY <1>1, <1>4, <1>6, EndedWithoutVoucher
  <2> QED BY <1>1, <1>4, <1>6, <2>1, <2>2, EndedFits
<1>7. ASSUME NEW r \in Terms!Rides, Terms!CompleteRide(r) PROVE Terms!TermsInv'
  <2>1. /\ Terms!EndRide(r, "COMPLETED")
        /\ penalty' = Terms!ClearedBy(Terms!LiveOn(r))
        /\ UNCHANGED vouchers
    BY <1>7 DEF Terms!CompleteRide
  <2>2. Terms!PenaltyIsWorkedOff' /\ Terms!PenaltyFits' /\ penalty' \in Terms!PenaltyRow
    BY <1>1, <1>4, <2>1, EndedByCompletion
  <2>3. /\ Terms!VouchersCountOnce'
        /\ vouchers' \in Seq(Terms!Voucher)
        /\ DOMAIN vouchers \subseteq DOMAIN vouchers'
    BY <1>1, <1>4, <2>1, EndedWithoutVoucher
  <2> QED BY <1>1, <1>4, <2>1, <2>2, <2>3, EndedFits
<1> QED BY <1>2, <1>3, <1>5, <1>6, <1>7 DEF Terms!DriverNoShow, Terms!CancelByAdmin

-----------------------------------------------------------------------------
\* The oldest unused voucher is one of them, if there is one.
LEMMA OldestUnused ==
  ASSUME Terms!TypeOK
  PROVE  IF Terms!Unused = {} THEN Terms!Oldest = 0 ELSE Terms!Oldest \in Terms!Unused
<1>1. CASE Terms!Unused # {}
  <2>1. Terms!Unused \in SUBSET Nat
    BY VouchersTyped DEF Terms!Unused
  <2>2. PICK m \in Terms!Unused : \A n \in Terms!Unused : <<n, m>> \notin OpToRel(<, Nat)
    <3> HIDE DEF OpToRel
    <3> QED BY <1>1, <2>1, NatLessThanWellFounded, WFMin
  <2>3. \A n \in Terms!Unused : ~(n < m)
    BY <2>1, <2>2, Zenon DEF OpToRel
  <2>4. \A n \in Terms!Unused : m <= n
    BY <2>1, <2>3
  <2> QED BY <1>1, <2>4 DEF Terms!Oldest
<1> QED BY <1>1 DEF Terms!Oldest

\* The row of a booking that is made.
LEMMA CommitOf ==
  ASSUME Terms!Parameters, Terms!TypeOK, NEW i \in Terms!Requests, Terms!Commit(i)
  PROVE  /\ booking[i] = Terms!NoBooking /\ Terms!Known(TermsAsked[i].key) = {} /\
              stage[i] = "quoted"
         /\ stage' = [stage EXCEPT ![i] = "answered"] /\ UNCHANGED <<rate, boarded>>
         /\ booking' \in [Terms!Requests -> Terms!BookingRow]
         /\ \A j \in Terms!Requests : j # i => booking'[j] = booking[j]
         /\ booking'[i].status = "CONFIRMED" /\ booking'[i].rate = rate[i]
         /\ booking'[i].voucher = Terms!Oldest
         /\ Terms!Oldest # 0 => booking'[i].deposit = 0
         /\ penalty' = Terms!Consumed(i)
<1> DEFINE full == IF Terms!Oldest = 0 THEN Terms!Deposit(rate[i]) ELSE 0
           fare == IF TermsAsked[i].method = "NOW" THEN FareAmount ELSE 0
           row == [status |-> "CONFIRMED", rate |-> rate[i], voucher |-> Terms!Oldest,
                   deposit |-> IF TermsAsked[i].charge = "deposit" THEN Terms!Less(full) ELSE full,
                   fare |-> IF TermsAsked[i].charge = "fare" THEN Terms!Less(fare) ELSE fare]
<1>1. /\ stage[i] = "quoted" /\ Terms!Known(TermsAsked[i].key) = {}
      /\ stage' = [stage EXCEPT ![i] = "answered"] /\ UNCHANGED <<rate, boarded>>
      /\ booking' = [booking EXCEPT ![i] = row] /\ penalty' = Terms!Consumed(i)
  BY DEF Terms!Commit
<1>2. booking \in [Terms!Requests -> Terms!BookingRow] /\ rate[i] \in Nat
  BY DEF Terms!TypeOK
<1>3. Terms!Oldest \in Nat
  BY OldestUnused, VouchersTyped DEF Terms!Unused
<1>4. full \in Nat /\ fare \in Nat /\ (Terms!Oldest # 0 => full = 0)
  <2>1. Terms!Deposit(rate[i]) \in Nat
    <3>1. FareAmount * rate[i] \in Nat
      BY <1>2, SMT DEF Terms!Parameters
    <3>2. \A n \in Nat : (n + 50) \div 100 \in Nat
      OBVIOUS
    <3> QED BY <3>1, <3>2 DEF Terms!Deposit
  <2> QED BY <2>1 DEF Terms!Parameters
<1>5. \A n \in Nat : Terms!Less(n) \in Nat /\ (n = 0 => Terms!Less(n) = 0)
  BY DEF Terms!Less, Terms!Parameters
<1>6. /\ row \in Terms!BookingRow
      /\ row.status = "CONFIRMED"
      /\ row.rate = rate[i]
      /\ row.voucher = Terms!Oldest
      /\ Terms!Oldest # 0 => row.deposit = 0
  <2> HIDE DEF full, fare
  <2>1. /\ Terms!Less(full) \in Nat
        /\ Terms!Less(fare) \in Nat
        /\ (Terms!Oldest # 0 => Terms!Less(full) = 0)
    BY <1>4, <1>5
  <2> QED BY <1>2, <1>3, <1>4, <2>1 DEF Terms!BookingRow, Terms!Statuses
<1>7. booking[i] = Terms!NoBooking
  BY <1>1 DEF Terms!Known
<1> HIDE DEF row
<1>8. /\ booking' \in [Terms!Requests -> Terms!BookingRow]
      /\ booking'[i] = row
      /\ \A j \in Terms!Requests : j # i => booking'[j] = booking[j]
  BY <1>1, <1>2, <1>6
<1> QED BY <1>1, <1>6, <1>7, <1>8

\* The vouchers after a booking: the oldest unused one was used for it.
LEMMA CommitVouchers ==
  ASSUME Terms!TypeOK, NEW i \in Terms!Requests, Terms!Commit(i)
  PROVE  /\ vouchers' \in Seq(Terms!Voucher) /\ DOMAIN vouchers' = DOMAIN vouchers
         /\ \A v \in DOMAIN vouchers :
              /\ vouchers'[v].source = vouchers[v].source
              /\ vouchers'[v].usedOn = IF v = Terms!Oldest THEN i ELSE vouchers[v].usedOn
<1>1. vouchers' = [v \in DOMAIN vouchers |->
        IF v = Terms!Oldest THEN [vouchers[v] EXCEPT !.usedOn = i] ELSE vouchers[v]]
  BY DEF Terms!Commit
<1>2. \A v \in DOMAIN vouchers : vouchers[v] \in Terms!Voucher
  BY VouchersTyped
<1>3. \A v \in DOMAIN vouchers :
        /\ vouchers'[v] \in Terms!Voucher
        /\ vouchers'[v].source = vouchers[v].source
        /\ vouchers'[v].usedOn = IF v = Terms!Oldest THEN i ELSE vouchers[v].usedOn
  BY <1>1, <1>2 DEF Terms!Voucher
<1>4. vouchers' \in Seq(Terms!Voucher) /\ DOMAIN vouchers' = DOMAIN vouchers
  <2>1. DOMAIN vouchers = 1..Len(vouchers) /\ Len(vouchers) \in Nat
    BY VouchersTyped
  <2>2. vouchers' \in [1..Len(vouchers) -> Terms!Voucher]
    BY <1>1, <1>3, <2>1
  <2> QED BY <2>1, <2>2
<1> QED BY <1>3, <1>4

\* A booking is made: the rate and the voucher read under the locks are its own.
LEMMA CommitKeeps ==
  ASSUME Terms!Parameters, Terms!TermsInv, NEW i \in Terms!Requests, Terms!Commit(i)
  PROVE  Terms!TermsInv'
<1>1. /\ Terms!TypeOK
      /\ Terms!RowsFit
      /\ Terms!QuotesAlone
      /\ Terms!PenaltyFits
      /\ Terms!PenaltyIsWorkedOff
      /\ Terms!VouchersCountOnce
      /\ Terms!OneBookingPerKey
  BY DEF Terms!TermsInv
<1>2. /\ booking[i] = Terms!NoBooking /\ Terms!Known(TermsAsked[i].key) = {} /\ stage[i] = "quoted"
      /\ stage' = [stage EXCEPT ![i] = "answered"] /\ UNCHANGED <<rate, boarded>>
      /\ booking' \in [Terms!Requests -> Terms!BookingRow]
      /\ \A j \in Terms!Requests : j # i => booking'[j] = booking[j]
      /\ booking'[i].status = "CONFIRMED" /\ booking'[i].rate = rate[i]
      /\ booking'[i].voucher = Terms!Oldest
      /\ Terms!Oldest # 0 => booking'[i].deposit = 0
      /\ penalty' = Terms!Consumed(i)
  BY <1>1, CommitOf
<1>3. /\ vouchers' \in Seq(Terms!Voucher) /\ DOMAIN vouchers' = DOMAIN vouchers
      /\ \A v \in DOMAIN vouchers :
           /\ vouchers'[v].source = vouchers[v].source
           /\ vouchers'[v].usedOn = IF v = Terms!Oldest THEN i ELSE vouchers[v].usedOn
  BY <1>1, CommitVouchers
<1>o. /\ Terms!Oldest \in DOMAIN vouchers \cup {0}
      /\ (Terms!Oldest # 0 => vouchers[Terms!Oldest].usedOn = 0)
  BY <1>1, OldestUnused DEF Terms!Unused
<1>z. i # 0 /\ 0 \notin DOMAIN vouchers
  BY <1>1, VouchersTyped DEF Terms!Parameters
<1>4. penalty \in Terms!PenaltyRow /\ stage \in [Terms!Requests -> Terms!Stages]
  BY <1>1 DEF Terms!TypeOK
<1>5. penalty' \in Terms!PenaltyRow /\ Terms!PenaltyFits' /\ Terms!PenaltyIsWorkedOff'
  <2>1. booking[i].status = "NONE" /\ (penalty # Terms!NoPenalty => penalty.source # i)
    BY <1>1, <1>2 DEF Terms!NoBooking, Terms!PenaltyIsWorkedOff
  <2>2. CASE rate[i] = Terms!Elevated /\ ~penalty.cleared /\ penalty.consumedOn = 0
    <3>1. penalty' = [penalty EXCEPT !.consumedOn = i]
      BY <1>2, <2>2 DEF Terms!Consumed
    <3>2. penalty.cleared = FALSE
      BY <1>4, <2>2 DEF Terms!PenaltyRow
    <3>3. /\ penalty' \in Terms!PenaltyRow /\ penalty'.source = penalty.source
          /\ penalty'.consumedOn = i /\ penalty'.cleared = FALSE
      BY <1>4, <3>1, <3>2 DEF Terms!PenaltyRow
    <3>4. penalty # Terms!NoPenalty
      BY <2>2 DEF Terms!NoPenalty
    <3> QED BY <1>1, <1>2, <2>1, <2>2, <3>3, <3>4 DEF Terms!PenaltyIsWorkedOff, Terms!PenaltyFits
  <2>3. CASE ~(rate[i] = Terms!Elevated /\ ~penalty.cleared /\ penalty.consumedOn = 0)
    <3>1. penalty' = penalty
      BY <1>2, <2>3 DEF Terms!Consumed
    <3>2. penalty # Terms!NoPenalty /\ penalty.consumedOn # 0 => penalty.consumedOn # i
      <4>1. Terms!Elevated # Terms!NoBooking.rate
        BY DEF Terms!Elevated, Terms!NoBooking
      <4> QED BY <1>1, <1>2, <4>1 DEF Terms!PenaltyIsWorkedOff
    <3>3. penalty.consumedOn \in Terms!Requests \cup {0}
      BY <1>4 DEF Terms!PenaltyRow
    <3> QED BY <1>1, <1>2, <1>4, <2>1, <3>1, <3>2, <3>3 DEF Terms!PenaltyIsWorkedOff,
    Terms!PenaltyFits
  <2> QED BY <2>2, <2>3
<1>6. Terms!VouchersCountOnce'
  <2>1. booking[i].status = "NONE" /\ booking[i].voucher = 0
    BY <1>2 DEF Terms!NoBooking
  <2>2. \A v \in DOMAIN vouchers : /\ vouchers[v].source \in Terms!Requests /\
                                        vouchers[v].usedOn \in Terms!Requests \cup {0}
                                   /\ vouchers[v].source # i /\ vouchers[v].usedOn # i
    BY <1>1, <1>z, <2>1, VouchersTyped DEF Terms!VouchersCountOnce
  <2>3. \A v \in DOMAIN vouchers' :
          /\ booking'[vouchers'[v].source].status \in {"RIDE_CANCELLED", "RIDER_NO_SHOW"}
          /\ vouchers'[v].usedOn # 0 =>
               /\ vouchers'[v].usedOn # vouchers'[v].source
               /\ booking'[vouchers'[v].usedOn].voucher = v
               /\ booking'[vouchers'[v].usedOn].deposit = 0
    BY <1>1, <1>2, <1>3, <1>z, <2>2 DEF Terms!VouchersCountOnce
  <2>4. \A j \in Terms!Requests : booking'[j].voucher # 0 =>
          vouchers'[booking'[j].voucher].usedOn = j
    <3> SUFFICES ASSUME NEW j \in Terms!Requests, booking'[j].voucher # 0
                 PROVE  vouchers'[booking'[j].voucher].usedOn = j
      OBVIOUS
    <3>1. CASE j = i
      BY <1>2, <1>3, <1>o, <3>1
    <3>2. CASE j # i
      <4>1. /\ booking[j].voucher \in DOMAIN vouchers
            /\ vouchers[booking[j].voucher].usedOn = j
            /\ j # 0
        BY <1>1, <1>2, <3>2 DEF Terms!RowsFit, Terms!VouchersCountOnce, Terms!Parameters
      <4>2. booking[j].voucher # Terms!Oldest
        BY <1>o, <1>z, <4>1
      <4> QED BY <1>2, <1>3, <3>2, <4>1, <4>2
    <3> QED BY <3>1, <3>2
  <2>5. \A v, w \in DOMAIN vouchers' : v # w => vouchers'[v].source # vouchers'[w].source
    BY <1>1, <1>3 DEF Terms!VouchersCountOnce
  <2> QED BY <2>3, <2>4, <2>5 DEF Terms!VouchersCountOnce
<1>7. Terms!OneBookingPerKey'
  <2>1. \A j \in Terms!Requests : j # i /\ booking[j] # Terms!NoBooking =>
          TermsAsked[j].key # TermsAsked[i].key
    BY <1>2 DEF Terms!Known
  <2>2. \A j \in Terms!Requests : j # i /\ Terms!Live(j) => TermsAsked[j].ride # TermsAsked[i].ride
    BY <1>1, <1>2 DEF Terms!QuotesAlone, Terms!LiveOn
  <2>3. \A j \in Terms!Requests : j # i => (Terms!Live(j)' <=> Terms!Live(j))
    BY <1>2 DEF Terms!Live
  <2> QED BY <1>1, <1>2, <2>1, <2>2, <2>3 DEF Terms!OneBookingPerKey
<1>8. Terms!QuotesAlone'
  <2>1. \A j \in Terms!Requests : stage'[j] = "quoted" => stage[j] = "quoted" /\ j # i
    BY <1>2, <1>4
  <2>2. \A j \in Terms!Requests : stage'[j] = "quoted" => TermsAsked[j].ride # TermsAsked[i].ride
    BY <1>1, <1>2, <2>1 DEF Terms!QuotesAlone
  <2>3. \A j \in Terms!Requests : stage'[j] = "quoted" => Terms!LiveOn(TermsAsked[j].ride)' = {}
    BY <1>1, <1>2, <2>1, <2>2 DEF Terms!QuotesAlone, Terms!LiveOn, Terms!Live
  <2> QED BY <1>1, <2>1, <2>3 DEF Terms!QuotesAlone
<1>9. Terms!TypeOK'
  <2>1. stage' \in [Terms!Requests -> Terms!Stages]
    BY <1>2, <1>4 DEF Terms!Stages
  <2> QED BY <1>1, <1>2, <1>3, <1>5, <2>1 DEF Terms!TypeOK
<1>a. Terms!RowsFit'
  BY <1>1, <1>2, <1>3, <1>o DEF Terms!RowsFit
<1> QED BY <1>5, <1>6, <1>7, <1>8, <1>9, <1>a DEF Terms!TermsInv

\* TermsInv is inductive.
LEMMA StepKeepsTermsInv ==
  ASSUME Terms!Parameters, Terms!TermsInv, [Terms!Next]_(Terms!termsVars)
  PROVE  Terms!TermsInv'
<1>1. ASSUME NEW i \in Terms!Requests,
             Terms!Begin(i) \/ Terms!ReadQuote(i) \/ Terms!Commit(i) \/ Terms!Refuse(i)
      PROVE  Terms!TermsInv'
  BY <1>1, BeginKeeps, ReadQuoteKeeps, CommitKeeps
<1> QED BY <1>1, DepartKeeps, EndingKeeps DEF Terms!Next

\* passenger-assured-deposit-penalty.service.ts: whatever bookings race, a penalty
\* is worked off by the booking that was charged for it and by no other.
THEOREM PenaltiesAreWorkedOff ==
  ASSUME Terms!Parameters PROVE Terms!TermsSpec => []Terms!PenaltyIsWorkedOff
<1>1. Terms!Init => Terms!TermsInv
  BY InitTermsInv
<1>2. Terms!TermsInv /\ [Terms!Next]_(Terms!termsVars) => Terms!TermsInv'
  BY StepKeepsTermsInv
<1>3. Terms!TermsInv => Terms!PenaltyIsWorkedOff
  BY DEF Terms!TermsInv
<1> QED BY <1>1, <1>2, <1>3, PTL DEF Terms!TermsSpec

-----------------------------------------------------------------------------
(* Regular rides, for any number of requests, passengers, keys and prices. *)
(* The row of the ride counts its free seats exactly because every booking *)
(* that stands took its own, and a credit is for a fare that was debited   *)
(* because a booking paid at once was debited when it was made.            *)

\* Bookings take a whole number of seats.
LEMMA RegularSeatsOfNat == ASSUME Regular!Parameters, NEW S PROVE Regular!SeatsOf(S) \in Nat
<1> DEFINE f == [b \in Regular!Bookings |-> RegularAsked[b].seats]
<1>1. RegularN \in Nat /\ \A i \in 1..RegularN : f[i] \in Nat
  BY DEF Regular!Parameters, Regular!Bookings
<1> HIDE DEF f
<1>2. Regular!SumOver(S, f, RegularN) \in Nat
  BY <1>1, Regular!SumOverNat
<1> QED BY <1>2 DEF Regular!SeatsOf, f

\* No booking takes no seat.
LEMMA RegularSeatsOfNone == ASSUME Regular!Parameters PROVE Regular!SeatsOf({}) = 0
BY Regular!SumOverNone DEF Regular!SeatsOf, Regular!Parameters

\* One more booking takes its own seats more.
LEMMA RegularSeatsOfMore ==
  ASSUME Regular!Parameters, NEW S, NEW b \in Regular!Bookings, b \notin S
  PROVE  Regular!SeatsOf(S \cup {b}) = Regular!SeatsOf(S) + RegularAsked[b].seats
<1> DEFINE f == [c \in Regular!Bookings |-> RegularAsked[c].seats]
<1>1. /\ RegularN \in Nat
      /\ (\A i \in 1..RegularN : f[i] \in Nat)
      /\ b \in 1..RegularN
      /\ f[b] = RegularAsked[b].seats
  BY DEF Regular!Parameters, Regular!Bookings
<1> HIDE DEF f
<1>2. Regular!SumOver(S \cup {b}, f, RegularN) = Regular!SumOver(S, f, RegularN) + f[b]
  BY <1>1, Regular!SumOverMore
<1> QED BY <1>1, <1>2 DEF Regular!SeatsOf, f

\* The next state's bookings that stand, and the seats they leave.
LEMMA NextActive ==
  /\ Regular!Active' = {b \in Regular!Bookings : requested'[b].status = "CONFIRMED"}
  /\ Regular!SeatsExact' <=> (regularRide'.status \in {"PUBLISHED", "IN_PROGRESS"}
                             => regularRide'.available =
                                  regularRide'.total - Regular!SeatsOf(Regular!Active'))
<1>1. Regular!Active' = {b \in Regular!Bookings : requested'[b].status = "CONFIRMED"}
  BY DEF Regular!Active
<1>2. Regular!SeatsExact' <=> (regularRide'.status \in {"PUBLISHED", "IN_PROGRESS"}
                             => regularRide'.available =
                                  regularRide'.total - Regular!SeatsOf(Regular!Active'))
  BY DEF Regular!SeatsExact, Regular!OnOffer, Regular!SeatsOf
<1> QED BY <1>1, <1>2

\* What is posted in the next state is in the next ledger.
LEMMA NextPosted ==
  ASSUME NEW what, NEW b PROVE Regular!Posted(what, b)' <=> Regular!Row(what, b) \in regularLedger'
BY DEF Regular!Posted, Regular!Row

\* Bookings that are cancelled, some of them with a refund of what was debited.
LEMMA CancelledKeeps ==
  ASSUME Regular!TypeOK, Regular!BookingsInv, NEW S \in SUBSET Regular!Active,
         NEW refunded \in SUBSET S,
         \A b \in refunded : Regular!Posted("debit", b),
         requested' = Regular!Cancelled(S, refunded), pc' = pc,
         regularLedger' = regularLedger \cup {Regular!Row("refund", b) : b \in refunded}
  PROVE  /\ Regular!BookingsInv' /\ Regular!Active' = Regular!Active \ S
         /\ requested' \in [Regular!Bookings -> Regular!BookingRow]
         /\ regularLedger' \subseteq Regular!LedgerRow
<1>1. \A b \in Regular!Bookings : requested[b] \in Regular!BookingRow
  BY DEF Regular!TypeOK
<1>2. ASSUME NEW b \in Regular!Bookings
      PROVE  /\ b \notin S => requested'[b] = requested[b]
             /\ b \in S => requested'[b].status = "CANCELLED"
             /\ requested'[b] \in Regular!BookingRow
  <2> DEFINE paid == IF b \in refunded THEN "REFUNDED" ELSE requested[b].payment
  <2>1. paid \in {"UNPAID", "PAID", "REFUNDED"}
    BY <1>1 DEF Regular!BookingRow
  <2>2. b \in S => requested'[b] = [requested[b] EXCEPT !.status = "CANCELLED", !.payment = paid]
    BY <1>1 DEF Regular!Cancelled, Regular!BookingRow
  <2>3. b \notin S => requested'[b] = requested[b]
    BY DEF Regular!Cancelled
  <2> HIDE DEF paid
  <2> QED BY <1>1, <2>1, <2>2, <2>3 DEF Regular!BookingRow
<1>3. requested' \in [Regular!Bookings -> Regular!BookingRow]
  <2>1. requested' = [b \in Regular!Bookings |-> requested'[b]]
    BY DEF Regular!Cancelled
  <2> QED BY <1>2, <2>1
<1>4. Regular!Active' = Regular!Active \ S /\ S \subseteq Regular!Bookings
  BY <1>2 DEF Regular!Active
<1>5. regularLedger' \subseteq Regular!LedgerRow
  BY <1>4 DEF Regular!TypeOK, Regular!LedgerRow, Regular!Row
<1>6. /\ \A b \in Regular!Bookings : Regular!Posted("debit", b)' <=> Regular!Posted("debit", b)
      /\ \A b \in Regular!Bookings : Regular!Posted("credit", b)' <=> Regular!Posted("credit", b)
      /\ \A b \in Regular!Bookings :
           Regular!Posted("refund", b)' <=> Regular!Posted("refund", b) \/ b \in refunded
  BY <1>4 DEF Regular!Posted, Regular!Row
<1>7. \A b \in S : requested[b].status = "CONFIRMED"
  BY DEF Regular!Active
<1>8. Regular!Unanswered'
  BY <1>2, <1>7 DEF Regular!BookingsInv, Regular!Unanswered
<1>9. Regular!FaresKnown'
  BY <1>2, <1>4, <1>6 DEF Regular!BookingsInv, Regular!FaresKnown, Regular!Active
<1>10. Regular!Made' = Regular!Made
  BY <1>2, <1>7 DEF Regular!Made
<1>11. Regular!KeysOnce'
  BY <1>10 DEF Regular!BookingsInv, Regular!KeysOnce, Regular!SameKey
<1>12. Regular!OnePerPassenger'
  BY <1>4 DEF Regular!BookingsInv, Regular!OnePerPassenger
<1>13. Regular!CreditsAreEarned'
  BY <1>2, <1>4, <1>6, <1>7 DEF Regular!BookingsInv, Regular!CreditsAreEarned
<1> QED BY <1>3, <1>4, <1>5, <1>8, <1>9, <1>11, <1>12, <1>13 DEF Regular!BookingsInv

\* Bookings that keep status and payment, and requests that are not asked anew.
LEMMA SameBookings ==
  ASSUME Regular!BookingsInv, regularLedger' = regularLedger,
         \A b \in Regular!Bookings : /\ requested'[b].status = requested[b].status
                                     /\ requested'[b].payment = requested[b].payment
                                     /\ pc'[b] \in {"idle", "looked"}
                                          => pc[b] \in {"idle", "looked"}
  PROVE  Regular!BookingsInv' /\ Regular!Active' = Regular!Active
<1>1. Regular!Active' = Regular!Active /\ Regular!Made' = Regular!Made
  BY DEF Regular!Active, Regular!Made
<1>2. Regular!Unanswered'
  BY DEF Regular!BookingsInv, Regular!Unanswered
<1>3. Regular!FaresKnown'
  BY <1>1 DEF Regular!BookingsInv, Regular!FaresKnown, Regular!Posted, Regular!Row, Regular!Active
<1>4. Regular!KeysOnce' /\ Regular!OnePerPassenger'
  BY <1>1 DEF Regular!BookingsInv, Regular!KeysOnce, Regular!SameKey, Regular!OnePerPassenger
<1>5. Regular!CreditsAreEarned'
  BY DEF Regular!BookingsInv, Regular!CreditsAreEarned, Regular!Posted, Regular!Row
<1> QED BY <1>1, <1>2, <1>3, <1>4, <1>5 DEF Regular!BookingsInv

\* Steps that leave the seats and those who have them alone.
LEMMA RegularQuietKeeps ==
  ASSUME Regular!RegularInv, Regular!TypeOK', regularLedger' = regularLedger,
         UNCHANGED <<regularRide.total, regularRide.available>>,
         Regular!OnOffer' => Regular!OnOffer,
         \A b \in Regular!Bookings : /\ requested'[b].status = requested[b].status
                                     /\ requested'[b].payment = requested[b].payment
                                     /\ pc'[b] \in {"idle", "looked"}
                                          => pc[b] \in {"idle", "looked"}
  PROVE  Regular!RegularInv'
<1>1. Regular!BookingsInv' /\ Regular!Active' = Regular!Active
  BY SameBookings DEF Regular!RegularInv
<1>2. Regular!SeatsExact'
  BY <1>1, NextActive DEF Regular!RegularInv, Regular!SeatsExact, Regular!OnOffer
<1> QED BY <1>1, <1>2 DEF Regular!RegularInv

\* A published ride nobody booked satisfies the invariant.
LEMMA RegularInit == Regular!Parameters /\ Regular!Init => Regular!RegularInv
<1> SUFFICES ASSUME Regular!Parameters, Regular!Init PROVE Regular!RegularInv
  OBVIOUS
<1>1. Regular!Active = {} /\ \A b \in Regular!Bookings : requested[b].status = "NONE"
  BY DEF Regular!Init, Regular!Active, Regular!NoBooking
<1>2. Regular!TypeOK
  <2>1. Regular!NoBooking \in Regular!BookingRow
    BY DEF Regular!NoBooking, Regular!BookingRow
  <2>2. regularRide \in Regular!RideRow
    BY DEF Regular!Init, Regular!RideRow, Regular!Parameters
  <2>3. /\ againstDriver \in [status : Regular!ClaimStatus, by : 0..RegularN]
        /\ againstDriver.status = "NONE"
    BY DEF Regular!Init, Regular!ClaimStatus, Regular!Parameters
  <2>4. againstRiders \in [Regular!Bookings -> Regular!ClaimStatus]
    BY DEF Regular!Init, Regular!ClaimStatus
  <2>5. /\ requested \in [Regular!Bookings -> Regular!BookingRow]
        /\ pc \in [Regular!Bookings -> {"idle", "looked", "booked", "refused"}]
    BY <2>1 DEF Regular!Init
  <2> QED BY <2>2, <2>3, <2>4, <2>5 DEF Regular!Init, Regular!TypeOK
<1>3. Regular!SeatsExact
  BY <1>1, RegularSeatsOfNone DEF Regular!Init, Regular!SeatsExact, Regular!Parameters
<1>4. Regular!BookingsInv
  BY <1>1 DEF Regular!Init, Regular!BookingsInv, Regular!Unanswered, Regular!FaresKnown,
     Regular!KeysOnce, Regular!Made, Regular!OnePerPassenger,
              Regular!CreditsAreEarned, Regular!Posted
<1> QED BY <1>2, <1>3, <1>4 DEF Regular!RegularInv

-----------------------------------------------------------------------------
(* Each step keeps the invariant.                                          *)

\* Looking a key up and refusing a request only answer it.
LEMMA AnswersKeep ==
  ASSUME Regular!RegularInv, NEW b \in Regular!Bookings,
         Regular!LookUp(b) \/ Regular!RefuseBooking(b)
  PROVE  Regular!RegularInv'
<1>1. Regular!TypeOK /\ pc[b] \in {"idle", "looked"}
  BY DEF Regular!RegularInv, Regular!LookUp, Regular!RefuseBooking
<1>2. UNCHANGED <<regularRide, regularDeparted, requested, regularLedger, Regular!claims>>
  BY DEF Regular!LookUp, Regular!RefuseBooking
<1>3. \E how \in {"looked", "booked", "refused"} : pc' = [pc EXCEPT ![b] = how]
  BY DEF Regular!LookUp, Regular!RefuseBooking, Regular!Answer, Regular!Replay
<1>4. /\ pc' \in [Regular!Bookings -> {"idle", "looked", "booked", "refused"}]
      /\ \A c \in Regular!Bookings : pc'[c] \in {"idle", "looked"} => pc[c] \in {"idle", "looked"}
  BY <1>1, <1>3 DEF Regular!TypeOK
<1>5. Regular!TypeOK'
  BY <1>1, <1>2, <1>4 DEF Regular!TypeOK, Regular!claims
<1> QED BY <1>2, <1>4, <1>5, RegularQuietKeeps DEF Regular!OnOffer

\* A booking takes its seats, and its fare if it is paid at once; no other one
\* has its key or its passenger.
LEMMA BookKeeps ==
  ASSUME Regular!Parameters, Regular!RegularInv, NEW b \in Regular!Bookings, Regular!Book(b)
  PROVE  Regular!RegularInv'
<1>1. Regular!TypeOK /\ Regular!SeatsExact /\ Regular!BookingsInv
  BY DEF Regular!RegularInv
<1>2. /\ pc[b] = "looked" /\ Regular!Bookable(b) /\ Regular!UnderKey(b) = {}
      /\ regularRide' = [regularRide EXCEPT !.available = @ - RegularAsked[b].seats]
      /\ pc' = [pc EXCEPT ![b] = "booked"]
      /\ UNCHANGED <<regularDeparted, Regular!claims>>
  BY DEF Regular!Book, Regular!Answer
<1>3. /\ requested[b].status = "NONE" /\ b \notin Regular!Active
      /\ ~Regular!Posted("credit", b) /\ ~Regular!Posted("refund", b)
  BY <1>1, <1>2 DEF Regular!BookingsInv, Regular!Unanswered, Regular!CreditsAreEarned,
     Regular!Active
<1>4. \E row \in Regular!BookingRow :
        /\ row.status = "CONFIRMED" /\ requested' = [requested EXCEPT ![b] = row]
        /\ \/ /\ RegularAsked[b].method = "PAY_NOW"
              /\ regularLedger' = regularLedger \cup {Regular!Row("debit", b)}
           \/ /\ RegularAsked[b].method = "PAY_LATER" /\ row.payment = "UNPAID"
              /\ regularLedger' = regularLedger
  <2>1. CASE RegularAsked[b].method = "PAY_NOW"
    <3> DEFINE row == [status |-> "CONFIRMED", payment |-> "PAID", picked |-> FALSE]
    <3>1. row \in Regular!BookingRow /\ row.status = "CONFIRMED"
      BY DEF Regular!BookingRow
    <3>2. /\ requested' = [requested EXCEPT ![b] = row]
          /\ regularLedger' = regularLedger \cup {Regular!Row("debit", b)}
      BY <2>1 DEF Regular!Book
    <3> QED BY <2>1, <3>1, <3>2
  <2>2. CASE RegularAsked[b].method = "PAY_LATER"
    <3> DEFINE row == [status |-> "CONFIRMED", payment |-> "UNPAID", picked |-> FALSE]
    <3>1. row \in Regular!BookingRow /\ row.status = "CONFIRMED" /\ row.payment = "UNPAID"
      BY DEF Regular!BookingRow
    <3>2. requested' = [requested EXCEPT ![b] = row] /\ regularLedger' = regularLedger
      BY <2>2 DEF Regular!Book
    <3> QED BY <2>2, <3>1, <3>2
  <2> QED BY <2>1, <2>2 DEF Regular!Parameters
<1>5. PICK row \in Regular!BookingRow :
        /\ row.status = "CONFIRMED" /\ requested' = [requested EXCEPT ![b] = row]
        /\ \/ /\ RegularAsked[b].method = "PAY_NOW"
              /\ regularLedger' = regularLedger \cup {Regular!Row("debit", b)}
           \/ /\ RegularAsked[b].method = "PAY_LATER" /\ row.payment = "UNPAID"
              /\ regularLedger' = regularLedger
  BY <1>4
<1>6. \A c \in Regular!Bookings : requested'[c] = IF c = b THEN row ELSE requested[c]
  BY <1>1, <1>5 DEF Regular!TypeOK
<1>7. Regular!Active' = Regular!Active \cup {b} /\ Regular!Made' = Regular!Made \cup {b}
  BY <1>3, <1>5, <1>6 DEF Regular!Active, Regular!Made
<1>8. /\ \A c \in Regular!Bookings : Regular!Posted("credit", c)' <=> Regular!Posted("credit", c)
      /\ \A c \in Regular!Bookings : Regular!Posted("refund", c)' <=> Regular!Posted("refund", c)
      /\ \A c \in Regular!Bookings : Regular!Posted("debit", c) => Regular!Posted("debit", c)'
      /\ RegularAsked[b].method = "PAY_NOW" => Regular!Posted("debit", b)'
  BY <1>5 DEF Regular!Posted, Regular!Row
<1>9. /\ regularRide \in Regular!RideRow
      /\ regularRide' \in Regular!RideRow
      /\ regularRide'.available = regularRide.available - RegularAsked[b].seats
      /\ regularRide'.total = regularRide.total
      /\ regularRide'.status = regularRide.status
      /\ Regular!OnOffer
  <2>1. /\ regularRide \in Regular!RideRow
        /\ RegularAsked[b].seats \in Nat
        /\ RegularAsked[b].seats <= regularRide.available
    BY <1>1, <1>2 DEF Regular!TypeOK, Regular!Parameters, Regular!Bookable
  <2>2. regularRide.available - RegularAsked[b].seats \in Nat
    BY <2>1 DEF Regular!RideRow
  <2> QED BY <1>2, <2>1, <2>2 DEF Regular!RideRow, Regular!OnOffer, Regular!Bookable
<1>10. Regular!TypeOK'
  <2>1. regularLedger' \subseteq Regular!LedgerRow
    BY <1>1, <1>5 DEF Regular!TypeOK, Regular!LedgerRow, Regular!Row
  <2>2. requested' \in [Regular!Bookings -> Regular!BookingRow]
    BY <1>1, <1>5 DEF Regular!TypeOK
  <2>3. pc' \in [Regular!Bookings -> {"idle", "looked", "booked", "refused"}]
    BY <1>1, <1>2 DEF Regular!TypeOK
  <2> QED BY <1>1, <1>2, <1>9, <2>1, <2>2, <2>3 DEF Regular!TypeOK, Regular!claims
<1>11. Regular!SeatsExact'
  <2>1. Regular!SeatsOf(Regular!Active') = Regular!SeatsOf(Regular!Active) + RegularAsked[b].seats
    BY <1>3, <1>7, RegularSeatsOfMore
  <2>2. Regular!SeatsOf(Regular!Active) \in Nat /\ RegularAsked[b].seats \in Nat
    BY RegularSeatsOfNat DEF Regular!Parameters
  <2>3. regularRide.available = regularRide.total - Regular!SeatsOf(Regular!Active)
    BY <1>1, <1>9 DEF Regular!SeatsExact
  <2> QED BY <1>9, <2>1, <2>2, <2>3, NextActive DEF Regular!RideRow
<1>12. Regular!Unanswered'
  BY <1>1, <1>2, <1>6 DEF Regular!BookingsInv, Regular!Unanswered, Regular!TypeOK
<1>13. Regular!FaresKnown'
  BY <1>1, <1>5, <1>6, <1>7, <1>8 DEF Regular!BookingsInv, Regular!FaresKnown, Regular!Active
<1>14. Regular!KeysOnce'
  <2>1. \A c \in Regular!Made : ~Regular!SameKey(b, c) /\ ~Regular!SameKey(c, b)
    BY <1>2 DEF Regular!UnderKey, Regular!Made, Regular!SameKey
  <2>2. SUFFICES ASSUME NEW c \in Regular!Made \cup {b}, NEW d \in Regular!Made \cup {b},
                        Regular!SameKey(c, d)
                 PROVE  c = d
    BY <1>7 DEF Regular!KeysOnce, Regular!SameKey
  <2> QED BY <1>1, <2>1, <2>2 DEF Regular!BookingsInv, Regular!KeysOnce
<1>15. Regular!OnePerPassenger'
  BY <1>1, <1>2, <1>7 DEF Regular!BookingsInv, Regular!OnePerPassenger, Regular!Bookable
<1>16. Regular!CreditsAreEarned'
  BY <1>1, <1>3, <1>6, <1>8 DEF Regular!BookingsInv, Regular!CreditsAreEarned
<1> QED BY <1>10, <1>11, <1>12, <1>13, <1>14, <1>15, <1>16 DEF Regular!RegularInv,
Regular!BookingsInv

\* The seats of one booking that leaves are free again.
LEMMA SeatsRestored ==
  ASSUME Regular!Parameters, Regular!TypeOK, Regular!SeatsExact, Regular!OnOffer,
         NEW b \in Regular!Active, Regular!RestoreSeats({b}),
         Regular!Active' = Regular!Active \ {b}
  PROVE  regularRide' \in Regular!RideRow /\ Regular!SeatsExact'
<1>1. /\ regularRide \in Regular!RideRow
      /\ regularRide.available \in Nat
      /\ regularRide.total \in 1..RegularSeats
      /\ RegularAsked[b].seats \in Nat /\ b \in Regular!Bookings
  BY DEF Regular!TypeOK, Regular!RideRow, Regular!Parameters, Regular!Active
<1>2. Regular!SeatsOf({b}) = RegularAsked[b].seats
  <2>1. Regular!SeatsOf({} \cup {b}) = Regular!SeatsOf({}) + RegularAsked[b].seats
    BY <1>1, RegularSeatsOfMore
  <2> QED BY <1>1, <2>1, RegularSeatsOfNone
<1>3. Regular!SeatsOf(Regular!Active) = Regular!SeatsOf(Regular!Active') + RegularAsked[b].seats
  <2> DEFINE rest == Regular!Active \ {b}
  <2>1. Regular!Active = rest \cup {b} /\ b \notin rest
    OBVIOUS
  <2> HIDE DEF rest
  <2>2. Regular!SeatsOf(rest \cup {b}) = Regular!SeatsOf(rest) + RegularAsked[b].seats
    BY <1>1, <2>1, RegularSeatsOfMore
  <2> QED BY <2>1, <2>2 DEF rest
<1>4. Regular!SeatsOf(Regular!Active) \in Nat /\ Regular!SeatsOf(Regular!Active') \in Nat
  BY RegularSeatsOfNat
<1>5. regularRide.available = regularRide.total - Regular!SeatsOf(Regular!Active)
  BY DEF Regular!SeatsExact
<1> DEFINE back == Regular!Smaller(regularRide.total, regularRide.available + RegularAsked[b].seats)
<1>6. back = regularRide.total - Regular!SeatsOf(Regular!Active') /\ back \in Nat
  BY <1>1, <1>3, <1>4, <1>5, Regular!Parameters DEF Regular!Smaller, Regular!Parameters
<1>7. regularRide' = [regularRide EXCEPT !.available = back]
  BY <1>2 DEF Regular!RestoreSeats
<1> HIDE DEF back
<1>8. /\ regularRide' \in Regular!RideRow
      /\ regularRide'.available = back
      /\ regularRide'.total = regularRide.total
  BY <1>1, <1>6, <1>7 DEF Regular!RideRow
<1> QED BY <1>6, <1>8, NextActive

\* One booking that stands leaves a ride that is on offer.
LEMMA LeaveKeeps ==
  ASSUME Regular!Parameters, Regular!RegularInv, Regular!OnOffer, NEW b \in Regular!Active,
         NEW refunded \in SUBSET {b},
         refunded \subseteq Regular!Prepaid, Regular!RestoreSeats({b}),
         requested' = Regular!Cancelled({b}, refunded),
         regularLedger' = regularLedger \cup {Regular!Row("refund", c) : c \in refunded},
         UNCHANGED <<regularDeparted, pc, againstDriver>>,
         againstRiders' \in [Regular!Bookings -> Regular!ClaimStatus]
  PROVE  Regular!RegularInv'
<1>1. Regular!TypeOK /\ Regular!SeatsExact /\ Regular!BookingsInv
  BY DEF Regular!RegularInv
<1>2. \A c \in refunded : Regular!Posted("debit", c)
  BY <1>1 DEF Regular!Prepaid, Regular!BookingsInv, Regular!FaresKnown
<1>3. /\ Regular!BookingsInv' /\ Regular!Active' = Regular!Active \ {b}
      /\ requested' \in [Regular!Bookings -> Regular!BookingRow]
      /\ regularLedger' \subseteq Regular!LedgerRow
  <2>1. {b} \in SUBSET Regular!Active
    OBVIOUS
  <2> QED BY <1>1, <1>2, <2>1, CancelledKeeps
<1>4. regularRide' \in Regular!RideRow /\ Regular!SeatsExact'
  BY <1>1, <1>3, SeatsRestored
<1>5. Regular!TypeOK'
  BY <1>1, <1>3, <1>4 DEF Regular!TypeOK
<1> QED BY <1>3, <1>4, <1>5 DEF Regular!RegularInv

\* A rider leaves and gets back what was debited.
LEMMA RegularCancelByRiderKeeps ==
  ASSUME Regular!Parameters, Regular!RegularInv, NEW b \in Regular!Bookings,
         Regular!CancelByRider(b)
  PROVE  Regular!RegularInv'
<1> DEFINE refunded == {b} \cap Regular!Prepaid
<1>1. /\ b \in Regular!Active
      /\ Regular!OnOffer
      /\ Regular!RestoreSeats({b})
      /\ requested' = Regular!Cancelled({b}, refunded)
      /\ regularLedger' = regularLedger \cup {Regular!Row("refund", c) : c \in refunded}
      /\ UNCHANGED <<regularDeparted, pc, Regular!claims>>
  BY DEF Regular!CancelByRider
<1>2. refunded \in SUBSET {b} /\ refunded \subseteq Regular!Prepaid
  OBVIOUS
<1>3. againstDriver' = againstDriver /\ againstRiders' \in [Regular!Bookings -> Regular!ClaimStatus]
  BY <1>1 DEF Regular!RegularInv, Regular!TypeOK, Regular!claims
<1> HIDE DEF refunded
<1> QED BY <1>1, <1>2, <1>3, LeaveKeeps

\* A claim against a rider is approved, or found to be void.
LEMMA RegularApproveRiderNoShowKeeps ==
  ASSUME Regular!Parameters, Regular!RegularInv, NEW b \in Regular!Bookings,
         Regular!ApproveRiderNoShow(b)
  PROVE  Regular!RegularInv'
<1>1. Regular!TypeOK /\ UNCHANGED <<regularDeparted, pc, regularLedger, againstDriver>>
  BY DEF Regular!RegularInv, Regular!ApproveRiderNoShow
<1>2. CASE /\ Regular!OnOffer
           /\ b \in Regular!Active
           /\ Regular!RestoreSeats({b})
           /\ requested' = Regular!Cancelled({b}, {})
           /\ againstRiders' = [againstRiders EXCEPT ![b] = "APPROVED"]
  <2>1. againstRiders' \in [Regular!Bookings -> Regular!ClaimStatus]
    BY <1>1, <1>2 DEF Regular!TypeOK, Regular!ClaimStatus
  <2>2. regularLedger' = regularLedger \cup {Regular!Row("refund", c) : c \in {}}
    BY <1>1
  <2> QED BY <1>1, <1>2, <2>1, <2>2, LeaveKeeps
<1>3. CASE /\ UNCHANGED <<regularRide, requested>>
           /\ againstRiders' = [againstRiders EXCEPT ![b] =
                IF requested[b].picked THEN "REJECTED" ELSE "SUPERSEDED"]
  <2>1. againstRiders' \in [Regular!Bookings -> Regular!ClaimStatus]
    BY <1>1, <1>3 DEF Regular!TypeOK, Regular!ClaimStatus
  <2>2. Regular!TypeOK'
    BY <1>1, <1>3, <2>1 DEF Regular!TypeOK
  <2> QED BY <1>1, <1>3, <2>2, RegularQuietKeeps DEF Regular!OnOffer
<1> QED BY <1>2, <1>3 DEF Regular!ApproveRiderNoShow

\* All bookings end with a ride that is called off.
LEMMA CalledOffKeeps ==
  ASSUME Regular!Parameters, Regular!RegularInv, NEW refunded \in SUBSET Regular!Active,
         \A b \in refunded : requested[b].payment = "PAID",
         regularRide' \in Regular!RideRow, regularRide'.status = "CANCELLED",
         requested' = Regular!Cancelled(Regular!Active, refunded),
         regularLedger' = regularLedger \cup {Regular!Row("refund", b) : b \in refunded},
         UNCHANGED <<regularDeparted, pc>>,
         againstDriver' \in [status : Regular!ClaimStatus, by : 0..RegularN],
         againstDriver'.status # "NONE" => againstDriver'.by \in Regular!Bookings,
         againstRiders' \in [Regular!Bookings -> Regular!ClaimStatus]
  PROVE  Regular!RegularInv'
<1>1. Regular!TypeOK /\ Regular!SeatsExact /\ Regular!BookingsInv
  BY DEF Regular!RegularInv
<1>2. \A b \in refunded : Regular!Posted("debit", b)
  <2>1. \A b \in refunded :
          b \in Regular!Active /\ b \in Regular!Bookings /\ requested[b].payment = "PAID"
    BY DEF Regular!Active
  <2> QED BY <1>1, <2>1 DEF Regular!BookingsInv, Regular!FaresKnown, Regular!Parameters
<1>3. /\ Regular!BookingsInv'
      /\ requested' \in [Regular!Bookings -> Regular!BookingRow]
      /\ regularLedger' \subseteq Regular!LedgerRow
  <2>1. Regular!Active \in SUBSET Regular!Active
    OBVIOUS
  <2> QED BY <1>1, <1>2, <2>1, CancelledKeeps
<1>4. Regular!SeatsExact'
  BY NextActive
<1>5. Regular!TypeOK'
  BY <1>1, <1>3 DEF Regular!TypeOK
<1> QED BY <1>3, <1>4, <1>5 DEF Regular!RegularInv

\* Calling the ride off without money.
LEMMA CancelRideKeeps ==
  ASSUME Regular!Parameters, Regular!RegularInv, Regular!CancelRide,
         againstDriver' \in [status : Regular!ClaimStatus, by : 0..RegularN],
         againstDriver'.status # "NONE" => againstDriver'.by \in Regular!Bookings,
         againstRiders' \in [Regular!Bookings -> Regular!ClaimStatus]
  PROVE  Regular!RegularInv'
<1>1. /\ regularRide' = [regularRide EXCEPT !.status = "CANCELLED"]
      /\ requested' = Regular!Cancelled(Regular!Active, {})
      /\ UNCHANGED <<regularDeparted, pc>>
      /\ regularLedger' = regularLedger \cup {Regular!Row("refund", b) : b \in {}}
  BY DEF Regular!CancelRide
<1>2. regularRide' \in Regular!RideRow /\ regularRide'.status = "CANCELLED"
  BY <1>1 DEF Regular!RegularInv, Regular!TypeOK, Regular!RideRow
<1> QED BY <1>1, <1>2, CalledOffKeeps

\* The driver calls the ride off.
LEMMA RegularCancelByDriverKeeps ==
  ASSUME Regular!Parameters, Regular!RegularInv, Regular!CancelByDriver
  PROVE  Regular!RegularInv'
<1>1. Regular!CancelRide /\ UNCHANGED <<againstDriver, againstRiders>>
  BY DEF Regular!CancelByDriver, Regular!claims
<1>2. /\ againstDriver' \in [status : Regular!ClaimStatus, by : 0..RegularN]
      /\ againstDriver'.status # "NONE" => againstDriver'.by \in Regular!Bookings
      /\ againstRiders' \in [Regular!Bookings -> Regular!ClaimStatus]
  BY <1>1 DEF Regular!RegularInv, Regular!TypeOK
<1> QED BY <1>1, <1>2, CancelRideKeeps

\* The admin calls the ride off, with refunds unless it is on its way.
LEMMA RegularCancelByAdminKeeps ==
  ASSUME Regular!Parameters, Regular!RegularInv, Regular!CancelByAdmin
  PROVE  Regular!RegularInv'
<1> DEFINE refunded == IF regularRide.status = "PUBLISHED"
                       THEN {b \in Regular!Active : requested[b].payment = "PAID"} ELSE {}
           back == Regular!Smaller(regularRide.total,
                                   regularRide.available + Regular!SeatsOf(Regular!Active))
<1>1. /\ regularRide' = [regularRide EXCEPT !.status = "CANCELLED", !.available = back]
      /\ requested' = Regular!Cancelled(Regular!Active, refunded)
      /\ regularLedger' = regularLedger \cup {Regular!Row("refund", b) : b \in refunded}
      /\ UNCHANGED <<regularDeparted, pc, Regular!claims>>
  BY DEF Regular!CancelByAdmin
<1>2. refunded \in SUBSET Regular!Active /\ \A b \in refunded : requested[b].payment = "PAID"
  OBVIOUS
<1>3. back \in Nat
  BY RegularSeatsOfNat
  DEF Regular!Smaller, Regular!RegularInv, Regular!TypeOK, Regular!RideRow, Regular!Parameters
<1> HIDE DEF refunded, back
<1>4. regularRide' \in Regular!RideRow /\ regularRide'.status = "CANCELLED"
  BY <1>1, <1>3 DEF Regular!RegularInv, Regular!TypeOK, Regular!RideRow
<1>5. /\ againstDriver' \in [status : Regular!ClaimStatus, by : 0..RegularN]
      /\ againstDriver'.status # "NONE" => againstDriver'.by \in Regular!Bookings
      /\ againstRiders' \in [Regular!Bookings -> Regular!ClaimStatus]
  BY <1>1 DEF Regular!RegularInv, Regular!TypeOK, Regular!claims
<1> QED BY <1>1, <1>2, <1>4, <1>5, CalledOffKeeps

\* A claim against the driver calls the ride off, or is found to be void.
LEMMA RegularApproveDriverNoShowKeeps ==
  ASSUME Regular!Parameters, Regular!RegularInv, Regular!ApproveDriverNoShow
  PROVE  Regular!RegularInv'
<1>1. Regular!TypeOK /\ againstDriver.status = "PENDING"
  BY DEF Regular!RegularInv, Regular!ApproveDriverNoShow
<1>2. CASE /\ Regular!CancelRide /\ againstDriver' = [againstDriver EXCEPT !.status = "APPROVED"]
           /\ againstRiders' = [b \in Regular!Bookings |->
                IF againstRiders[b] = "PENDING" THEN "SUPERSEDED" ELSE againstRiders[b]]
  <2>1. /\ againstDriver' \in [status : Regular!ClaimStatus, by : 0..RegularN]
        /\ againstDriver'.status # "NONE" => againstDriver'.by \in Regular!Bookings
    BY <1>1, <1>2 DEF Regular!TypeOK, Regular!ClaimStatus
  <2>2. againstRiders' \in [Regular!Bookings -> Regular!ClaimStatus]
    BY <1>1, <1>2 DEF Regular!TypeOK, Regular!ClaimStatus
  <2> QED BY <1>2, <2>1, <2>2, CancelRideKeeps
<1>3. CASE /\ againstDriver' = [againstDriver
                EXCEPT !.status = IF regularRide.status = "CANCELLED" THEN "SUPERSEDED" ELSE "REJECTED"]
           /\ UNCHANGED <<regularRide, regularDeparted, requested, pc>>
           /\ UNCHANGED <<regularLedger, againstRiders>>
  <2>1. /\ againstDriver' \in [status : Regular!ClaimStatus, by : 0..RegularN]
        /\ againstDriver'.status # "NONE" => againstDriver'.by \in Regular!Bookings
    BY <1>1, <1>3 DEF Regular!TypeOK, Regular!ClaimStatus
  <2>2. Regular!TypeOK'
    BY <1>1, <1>3, <2>1 DEF Regular!TypeOK
  <2> QED BY <1>1, <1>3, <2>2, RegularQuietKeeps DEF Regular!OnOffer
<1> QED BY <1>2, <1>3 DEF Regular!ApproveDriverNoShow

\* Reports and rejected claims only change the claims.
LEMMA RegularClaimsKeep ==
  ASSUME Regular!Parameters, Regular!RegularInv,
         \/ Regular!RejectDriverClaim
         \/ \E b \in Regular!Bookings :
              Regular!ReportDriver(b) \/ Regular!ReportRider(b) \/ Regular!RejectRiderClaim(b)
  PROVE  Regular!RegularInv'
<1>1. Regular!TypeOK
  BY DEF Regular!RegularInv
<1>2. UNCHANGED <<regularRide, regularDeparted, requested, pc, regularLedger>>
  BY DEF Regular!RejectDriverClaim, Regular!ReportDriver, Regular!ReportRider,
     Regular!RejectRiderClaim
<1>3. /\ againstDriver' \in [status : Regular!ClaimStatus, by : 0..RegularN]
      /\ againstDriver'.status # "NONE" => againstDriver'.by \in Regular!Bookings
  <2>1. CASE Regular!RejectDriverClaim
    <3>1. /\ againstDriver' = [againstDriver EXCEPT !.status = "REJECTED"]
          /\ againstDriver.status = "PENDING"
      BY <2>1 DEF Regular!RejectDriverClaim
    <3> QED BY <1>1, <3>1 DEF Regular!TypeOK, Regular!ClaimStatus
  <2>2. ASSUME NEW b \in Regular!Bookings, Regular!ReportDriver(b)
        PROVE  /\ againstDriver' \in [status : Regular!ClaimStatus, by : 0..RegularN]
               /\ againstDriver'.status # "NONE" => againstDriver'.by \in Regular!Bookings
    <3>1. againstDriver' = [status |-> "PENDING", by |-> b] /\ b \in 0..RegularN
      BY <2>2 DEF Regular!ReportDriver, Regular!Bookings, Regular!Parameters
    <3> QED BY <3>1 DEF Regular!ClaimStatus
  <2>3. ASSUME NEW b \in Regular!Bookings, Regular!ReportRider(b) \/ Regular!RejectRiderClaim(b)
        PROVE  againstDriver' = againstDriver
    BY <2>3 DEF Regular!ReportRider, Regular!RejectRiderClaim
  <2> QED BY <1>1, <2>1, <2>2, <2>3 DEF Regular!TypeOK
<1>4. againstRiders' \in [Regular!Bookings -> Regular!ClaimStatus]
  BY <1>1 DEF Regular!TypeOK, Regular!ClaimStatus, Regular!RejectDriverClaim, Regular!ReportDriver,
     Regular!ReportRider, Regular!RejectRiderClaim
<1>5. Regular!TypeOK'
  BY <1>1, <1>2, <1>3, <1>4 DEF Regular!TypeOK
<1> QED BY <1>1, <1>2, <1>5, RegularQuietKeeps DEF Regular!OnOffer

\* The ride departs, starts, and picks its passengers up.
LEMMA RegularTripKeeps ==
  ASSUME Regular!RegularInv,
         Regular!Depart \/ Regular!Start \/ (\E b \in Regular!Bookings : Regular!VerifyPickup(b))
  PROVE  Regular!RegularInv'
<1>1. Regular!TypeOK
  BY DEF Regular!RegularInv
<1>2. CASE Regular!Depart
  <2>1. /\ UNCHANGED <<regularRide, requested, pc, regularLedger, Regular!claims>>
        /\ regularDeparted' = TRUE
    BY <1>2 DEF Regular!Depart
  <2>2. Regular!TypeOK'
    BY <1>1, <2>1 DEF Regular!TypeOK, Regular!claims
  <2> QED BY <1>1, <2>1, <2>2, RegularQuietKeeps DEF Regular!OnOffer
<1>3. CASE Regular!Start
  <2>1. /\ regularRide.status = "PUBLISHED"
        /\ regularRide' = [regularRide EXCEPT !.status = "IN_PROGRESS"]
        /\ UNCHANGED <<regularDeparted, requested, pc, regularLedger, Regular!claims>>
    BY <1>3 DEF Regular!Start
  <2>2. /\ regularRide' \in Regular!RideRow
        /\ regularRide'.total = regularRide.total
        /\ regularRide'.available = regularRide.available
    BY <1>1, <2>1 DEF Regular!TypeOK, Regular!RideRow
  <2>3. Regular!TypeOK'
    BY <1>1, <2>1, <2>2 DEF Regular!TypeOK, Regular!claims
  <2> QED BY <1>1, <2>1, <2>2, <2>3, RegularQuietKeeps DEF Regular!OnOffer
<1>4. ASSUME NEW b \in Regular!Bookings, Regular!VerifyPickup(b) PROVE Regular!RegularInv'
  <2>1. /\ requested' = [requested EXCEPT ![b].picked = TRUE]
        /\ UNCHANGED <<regularRide, regularDeparted, pc, regularLedger, Regular!claims>>
    BY <1>4 DEF Regular!VerifyPickup
  <2>2. /\ requested' \in [Regular!Bookings -> Regular!BookingRow]
        /\ \A c \in Regular!Bookings : /\ requested'[c].status = requested[c].status
                                       /\ requested'[c].payment = requested[c].payment
    <3>0. requested[b] \in Regular!BookingRow
      BY <1>1 DEF Regular!TypeOK
    <3>1. [requested[b] EXCEPT !.picked = TRUE] \in Regular!BookingRow
      BY <3>0 DEF Regular!BookingRow
    <3>2. requested' = [requested EXCEPT ![b] = [requested[b] EXCEPT !.picked = TRUE]]
      BY <2>1
    <3> QED BY <1>1, <3>1, <3>2 DEF Regular!TypeOK, Regular!BookingRow
  <2>3. Regular!TypeOK'
    BY <1>1, <2>1, <2>2 DEF Regular!TypeOK, Regular!claims
  <2> QED BY <1>1, <2>1, <2>2, <2>3, RegularQuietKeeps DEF Regular!OnOffer
<1> QED BY <1>2, <1>3, <1>4

\* A new number of seats leaves those that are taken.
LEMMA RegularUpdateSeatsKeeps ==
  ASSUME Regular!Parameters, Regular!RegularInv, NEW n \in 1..RegularSeats, Regular!UpdateSeats(n)
  PROVE  Regular!RegularInv'
<1>1. Regular!TypeOK /\ Regular!BookingsInv
  BY DEF Regular!RegularInv
<1>2. /\ regularRide' =
           [regularRide EXCEPT !.total = n, !.available = n - Regular!SeatsOf(Regular!Active)]
      /\ Regular!SeatsOf(Regular!Active) <= n
      /\ UNCHANGED <<regularDeparted, requested, pc, regularLedger, Regular!claims>>
  BY DEF Regular!UpdateSeats
<1> DEFINE free == n - Regular!SeatsOf(Regular!Active)
<1>3. free \in Nat
  BY <1>2, RegularSeatsOfNat DEF Regular!Parameters
<1>4. /\ regularRide' = [regularRide EXCEPT !.total = n, !.available = free]
      /\ free = n - Regular!SeatsOf(Regular!Active)
  BY <1>2
<1> HIDE DEF free
<1>5. regularRide' \in Regular!RideRow /\ regularRide'.total = n /\ regularRide'.available = free
  BY <1>1, <1>3, <1>4 DEF Regular!TypeOK, Regular!RideRow
<1>6. Regular!BookingsInv' /\ Regular!Active' = Regular!Active
  BY <1>1, <1>2, SameBookings
<1>7. Regular!SeatsExact'
  BY <1>4, <1>5, <1>6, NextActive
<1>8. Regular!TypeOK'
  BY <1>1, <1>2, <1>5 DEF Regular!TypeOK, Regular!claims
<1> QED BY <1>6, <1>7, <1>8 DEF Regular!RegularInv

\* The ride is completed: the fares that were debited are credited.
LEMMA RegularCompleteKeeps ==
  ASSUME Regular!Parameters, Regular!RegularInv, Regular!Complete
  PROVE  Regular!RegularInv'
<1>1. Regular!TypeOK /\ Regular!BookingsInv
  BY DEF Regular!RegularInv
<1>2. /\ regularRide' = [regularRide EXCEPT !.status = "COMPLETED"]
      /\ regularLedger' =
           regularLedger \cup {Regular!Row("credit", b) : b \in Regular!CreditedAtCompletion}
      /\ UNCHANGED <<regularDeparted, pc, Regular!claims>>
  BY DEF Regular!Complete
<1>3. \A b \in Regular!Bookings : requested[b] \in Regular!BookingRow
  BY <1>1 DEF Regular!TypeOK
<1>4. ASSUME NEW b \in Regular!Bookings
      PROVE  /\ b \notin Regular!Active => requested'[b] = requested[b]
             /\ b \in Regular!Active => requested'[b].status = "COMPLETED"
             /\ requested'[b] \in Regular!BookingRow
  BY <1>3 DEF Regular!Complete, Regular!BookingRow
<1>5. requested' \in [Regular!Bookings -> Regular!BookingRow]
  <2>1. requested' = [b \in Regular!Bookings |-> requested'[b]]
    BY DEF Regular!Complete
  <2> QED BY <1>4, <2>1
<1>6. regularRide' \in Regular!RideRow /\ regularRide'.status = "COMPLETED"
  BY <1>1, <1>2 DEF Regular!TypeOK, Regular!RideRow
<1>7. Regular!Active' = {} /\ Regular!Made' = Regular!Made
  BY <1>4 DEF Regular!Active, Regular!Made
<1>8. /\ Regular!CreditedAtCompletion \subseteq Regular!Active
      /\ \A b \in Regular!CreditedAtCompletion : Regular!Posted("debit", b)
  BY <1>1 DEF Regular!CreditedAtCompletion, Regular!BookingsInv, Regular!FaresKnown
<1>9. /\ \A b \in Regular!Bookings : Regular!Posted("debit", b)' <=> Regular!Posted("debit", b)
      /\ \A b \in Regular!Bookings : Regular!Posted("refund", b)' <=> Regular!Posted("refund", b)
      /\ \A b \in Regular!Bookings :
           Regular!Posted("credit", b)' <=>
             Regular!Posted("credit", b) \/ b \in Regular!CreditedAtCompletion
  BY <1>2 DEF Regular!Posted, Regular!Row
<1>10. regularLedger' \subseteq Regular!LedgerRow
  BY <1>1, <1>2, <1>8 DEF Regular!TypeOK, Regular!LedgerRow, Regular!Row, Regular!Active
<1>11. Regular!TypeOK'
  BY <1>1, <1>2, <1>5, <1>6, <1>10 DEF Regular!TypeOK, Regular!claims
<1>12. Regular!SeatsExact'
  BY <1>6, NextActive
<1>13. Regular!Unanswered'
  BY <1>1, <1>2, <1>4 DEF Regular!BookingsInv, Regular!Unanswered, Regular!Active
<1>14. Regular!FaresKnown' /\ Regular!OnePerPassenger'
  BY <1>7 DEF Regular!FaresKnown, Regular!OnePerPassenger
<1>15. Regular!KeysOnce'
  BY <1>1, <1>7 DEF Regular!BookingsInv, Regular!KeysOnce, Regular!SameKey
<1>16. Regular!CreditsAreEarned'
  BY <1>1, <1>4, <1>8, <1>9 DEF Regular!BookingsInv, Regular!CreditsAreEarned, Regular!Active
<1> QED BY <1>11, <1>12, <1>13, <1>14, <1>15, <1>16 DEF Regular!RegularInv, Regular!BookingsInv

\* The fare of a completed booking is paid, by wallet or in cash.
LEMMA PaymentKeeps ==
  ASSUME Regular!RegularInv, NEW b \in Regular!Bookings,
         Regular!PayWithWallet(b) \/ Regular!PayWithCash(b)
  PROVE  Regular!RegularInv'
<1>1. Regular!TypeOK /\ Regular!BookingsInv
  BY DEF Regular!RegularInv
<1>2. /\ requested[b].status = "COMPLETED"
      /\ requested' = [requested EXCEPT ![b].payment = "PAID"]
      /\ UNCHANGED <<regularRide, regularDeparted, pc, Regular!claims>>
      /\ \/ regularLedger' = regularLedger
         \/ regularLedger' = regularLedger \cup {Regular!Row("debit", b), Regular!Row("credit", b)}
  BY DEF Regular!PayWithWallet, Regular!PayWithCash, Regular!Owing
<1>3. /\ requested' \in [Regular!Bookings -> Regular!BookingRow]
      /\ \A c \in Regular!Bookings : requested'[c].status = requested[c].status
      /\ \A c \in Regular!Bookings : c # b => requested'[c] = requested[c]
  <2>1. [requested[b] EXCEPT !.payment = "PAID"] \in Regular!BookingRow
    BY <1>1 DEF Regular!TypeOK, Regular!BookingRow
  <2>2. requested' = [requested EXCEPT ![b] = [requested[b] EXCEPT !.payment = "PAID"]]
    BY <1>2
  <2> QED BY <1>1, <2>1, <2>2 DEF Regular!TypeOK, Regular!BookingRow
<1>4. Regular!Active' = Regular!Active /\ Regular!Made' = Regular!Made /\ b \notin Regular!Active
  BY <1>2, <1>3 DEF Regular!Active, Regular!Made
<1>5. /\ \A c \in Regular!Bookings : Regular!Posted("refund", c)' <=> Regular!Posted("refund", c)
      /\ \A c \in Regular!Bookings : Regular!Posted("debit", c) => Regular!Posted("debit", c)'
      /\ \A c \in Regular!Bookings : Regular!Posted("credit", c)' =>
           \/ Regular!Posted("credit", c)
           \/ c = b /\ Regular!Posted("debit", c)'
  BY <1>2 DEF Regular!Posted, Regular!Row
<1>6. regularLedger' \subseteq Regular!LedgerRow
  BY <1>1, <1>2 DEF Regular!TypeOK, Regular!LedgerRow, Regular!Row
<1>7. Regular!TypeOK'
  BY <1>1, <1>2, <1>3, <1>6 DEF Regular!TypeOK, Regular!claims
<1>8. Regular!SeatsExact'
  BY <1>2, <1>4, NextActive DEF Regular!RegularInv, Regular!SeatsExact, Regular!OnOffer
<1>9. Regular!Unanswered'
  BY <1>1, <1>2, <1>3 DEF Regular!BookingsInv, Regular!Unanswered
<1>10. Regular!FaresKnown'
  BY <1>1, <1>3, <1>4, <1>5 DEF Regular!BookingsInv, Regular!FaresKnown, Regular!Active
<1>11. Regular!KeysOnce' /\ Regular!OnePerPassenger'
  BY <1>1, <1>4 DEF Regular!BookingsInv, Regular!KeysOnce, Regular!SameKey, Regular!OnePerPassenger
<1>12. Regular!CreditsAreEarned'
  BY <1>1, <1>2, <1>3, <1>5 DEF Regular!BookingsInv, Regular!CreditsAreEarned
<1> QED BY <1>7, <1>8, <1>9, <1>10, <1>11, <1>12 DEF Regular!RegularInv, Regular!BookingsInv

\* Every step of Next, or none, keeps the invariant.
LEMMA RegularStep ==
  Regular!Parameters /\ Regular!RegularInv /\ [Regular!Next]_(Regular!vars) => Regular!RegularInv'
<1> SUFFICES ASSUME Regular!Parameters, Regular!RegularInv, [Regular!Next]_(Regular!vars)
             PROVE  Regular!RegularInv'
  OBVIOUS
<1>1. ASSUME NEW b \in Regular!Bookings,
             \/ Regular!LookUp(b) \/ Regular!Book(b)
             \/ Regular!RefuseBooking(b) \/ Regular!CancelByRider(b)
      PROVE  Regular!RegularInv'
  BY <1>1, AnswersKeep, BookKeeps, RegularCancelByRiderKeeps
<1>2. ASSUME NEW b \in Regular!Bookings,
             \/ Regular!ReportDriver(b) \/ Regular!ReportRider(b) \/ Regular!ApproveRiderNoShow(b)
                                         \/ Regular!RejectRiderClaim(b) \/ Regular!VerifyPickup(b)
      PROVE  Regular!RegularInv'
  BY <1>2, RegularClaimsKeep, RegularApproveRiderNoShowKeeps, RegularTripKeeps
<1>3. ASSUME NEW b \in Regular!Bookings, Regular!PayWithWallet(b) \/ Regular!PayWithCash(b)
      PROVE  Regular!RegularInv'
  BY <1>3, PaymentKeeps
<1>4. CASE Regular!ApproveDriverNoShow \/ Regular!RejectDriverClaim
  BY <1>4, RegularApproveDriverNoShowKeeps, RegularClaimsKeep
<1>5. ASSUME NEW n \in 1..RegularSeats, Regular!UpdateSeats(n) PROVE Regular!RegularInv'
  BY <1>5, RegularUpdateSeatsKeeps
<1>6. CASE \/ Regular!Depart
           \/ Regular!Start
           \/ Regular!Complete
           \/ Regular!CancelByDriver
           \/ Regular!CancelByAdmin
  BY <1>6, RegularTripKeeps, RegularCompleteKeeps, RegularCancelByDriverKeeps,
     RegularCancelByAdminKeeps
<1>7. CASE Regular!Over \/ UNCHANGED Regular!vars
  <2>1. /\ UNCHANGED <<regularRide, regularDeparted, requested, pc, regularLedger>>
        /\ UNCHANGED <<againstDriver, againstRiders>>
    BY <1>7 DEF Regular!Over, Regular!vars, Regular!claims
  <2>2. Regular!TypeOK'
    BY <2>1 DEF Regular!RegularInv, Regular!TypeOK
  <2> QED BY <2>1, <2>2, RegularQuietKeeps DEF Regular!OnOffer
<1> QED BY <1>1, <1>2, <1>3, <1>4, <1>5, <1>6, <1>7 DEF Regular!Next

\* The invariant holds of every reachable state of a Regular ride.
THEOREM RegularInvariant == ASSUME Regular!Parameters PROVE Regular!Spec => []Regular!RegularInv
<1>1. Regular!Init => Regular!RegularInv
  BY RegularInit
<1>2. Regular!RegularInv /\ [Regular!Next]_(Regular!vars) => Regular!RegularInv'
  BY RegularStep
<1> QED BY <1>1, <1>2, PTL DEF Regular!Spec

\* Every reachable state is well typed; seats on offer are never negative.
THEOREM RegularTyped == ASSUME Regular!Parameters PROVE Regular!Spec => []Regular!TypeOK
<1>1. Regular!RegularInv => Regular!TypeOK
  BY DEF Regular!RegularInv
<1>2. Regular!Spec => []Regular!RegularInv
  BY RegularInvariant
<1> QED BY <1>1, <1>2, PTL

\* The row of a ride on offer counts its free seats exactly, for any requests.
THEOREM SeatsStayExact == ASSUME Regular!Parameters PROVE Regular!Spec => []Regular!SeatsExact
<1>1. Regular!RegularInv => Regular!SeatsExact
  BY DEF Regular!RegularInv
<1>2. Regular!Spec => []Regular!RegularInv
  BY RegularInvariant
<1> QED BY <1>1, <1>2, PTL

\* A credit is for a completed booking that was paid in points, a refund for a
\* cancelled one: never both.
THEOREM CreditsAreForRides ==
  ASSUME Regular!Parameters
  PROVE  Regular!Spec => []Regular!CreditsAreEarned
<1>1. Regular!RegularInv => Regular!CreditsAreEarned
  BY DEF Regular!RegularInv, Regular!BookingsInv
<1>2. Regular!Spec => []Regular!RegularInv
  BY RegularInvariant
<1> QED BY <1>1, <1>2, PTL

\* A set whose members are all the same has at most one.
LEMMA AtMostOne ==
  ASSUME NEW S, \A x, y \in S : x = y
  PROVE  Regular!Cardinality(S) <= 1
<1>1. CASE S = {}
  BY <1>1, Regular!FS_EmptySet
<1>2. CASE S # {}
  <2>1. PICK x \in S : TRUE
    BY <1>2
  <2>2. S = {x}
    BY <2>1
  <2>3. Regular!Cardinality({x}) = 1
    BY Regular!FS_Singleton
  <2> QED BY <2>2, <2>3
<1> QED BY <1>1, <1>2

\* One booking of a key, counted.
LEMMA InvOneBookingEach == ASSUME Regular!RegularInv PROVE Regular!OneBookingEach
<1>1. ASSUME NEW b \in Regular!Bookings PROVE Regular!Cardinality(Regular!UnderKey(b)) <= 1
  <2>1. \A c, d \in Regular!UnderKey(b) : c = d
    BY DEF Regular!RegularInv, Regular!BookingsInv, Regular!KeysOnce, Regular!SameKey,
       Regular!Made, Regular!UnderKey
  <2> QED BY <2>1, AtMostOne
<1> QED BY <1>1 DEF Regular!OneBookingEach, Regular!RegularInv, Regular!BookingsInv,
Regular!OnePerPassenger

\* A key makes one booking, however often and late its request is sent again,
\* and a passenger has one booking of the ride at a time.
THEOREM OneBookingForEach ==
  ASSUME Regular!Parameters
  PROVE  Regular!Spec => []Regular!OneBookingEach
<1>1. Regular!RegularInv => Regular!OneBookingEach
  BY InvOneBookingEach
<1>2. Regular!Spec => []Regular!RegularInv
  BY RegularInvariant
<1> QED BY <1>1, <1>2, PTL

-----------------------------------------------------------------------------
(* Assured rides, for any number of bookings, any price and any deposits:  *)
(* first what the operators yield, then the invariant, then the steps.     *)

\* A percentage up to 100 of some points is some of them.
LEMMA PercentNat ==
  ASSUME NEW a \in Nat, NEW p \in {30, 50, 60}
  PROVE  Assured!Percent(a, p) \in Nat /\ Assured!Percent(a, p) <= a
<1>1. CASE p = 30
  BY <1>1 DEF Assured!Percent
<1>2. CASE p = 50
  BY <1>2 DEF Assured!Percent
<1>3. CASE p = 60
  BY <1>3 DEF Assured!Percent
<1> QED BY <1>1, <1>2, <1>3

\* Dividing among n riders leaves less than n points.
LEMMA Division ==
  ASSUME NEW t \in Nat, NEW n \in Nat \ {0}
  PROVE  /\ t \div n \in Nat /\ t % n \in Nat
         /\ t = n * (t \div n) + (t % n) /\ t % n < n
OBVIOUS

\* There are finitely many bookings, so of any of them.
LEMMA BookingsFinite ==
  ASSUME Assured!Parameters
  PROVE  /\ Assured!Bookings \subseteq Nat \ {0} /\ Assured!IsFiniteSet(Assured!Bookings)
         /\ \A S \in SUBSET Assured!Bookings :
              /\ Assured!IsFiniteSet(S)
              /\ Assured!Cardinality(S) \in Nat
              /\ (S # {} => Assured!Cardinality(S) # 0)
<1>1. Assured!Bookings \subseteq Nat \ {0} /\ Assured!IsFiniteSet(Assured!Bookings)
  BY Assured!FS_Interval, 1 \in Int DEF Assured!Parameters, Assured!Bookings
<1> QED BY <1>1, Assured!FS_Subset, Assured!FS_CardinalityType, Assured!FS_EmptySet

\* A row each for some bookings is finitely many rows.
LEMMA RowsFinite ==
  ASSUME NEW S, Assured!IsFiniteSet(S), NEW rowOf
  PROVE  Assured!IsFiniteSet({rowOf[b] : b \in S})
<1> DEFINE T == {rowOf[b] : b \in S}
           f == [b \in S |-> rowOf[b]]
<1>1. f \in Assured!Surjection(S, T)
  BY DEF Assured!Surjection
<1> QED BY <1>1, Assured!FS_Surjection

\* The part of a total that one of the riders gets is a number of whole points.
LEMMA ShareTyped ==
  ASSUME Assured!Parameters, NEW R \in SUBSET Assured!Bookings, NEW t \in Nat, NEW b \in R
  PROVE  Assured!ShareOf(b, t, R) \in Nat
<1>1. Assured!IsFiniteSet(R) /\ Assured!Cardinality(R) \in Nat \ {0}
  BY BookingsFinite
<1>2. t \div Assured!Cardinality(R) \in Nat
  BY <1>1, Division
<1> QED BY <1>2 DEF Assured!ShareOf

\* distributeEvenlyWithRemainder gives away the total to the last point: counted
\* up to any booking, everyone has an equal part and the first ones a point more.
LEMMA AssuredSharesAddUp ==
  ASSUME Assured!Parameters, NEW R \in SUBSET Assured!Bookings, R # {}, NEW t \in Nat, NEW what
  PROVE  Assured!AmountOf({Assured!Row(what, b, Assured!ShareOf(b, t, R)) : b \in R}) = t
<1> DEFINE n == Assured!Cardinality(R)
           q == t \div n
           left == t % n
           Upto(i) == {b \in R : b <= i}
           Paid(i) == {Assured!Row(what, b, Assured!ShareOf(b, t, R)) : b \in Upto(i)}
           Fits(i) == Assured!AmountOf(Paid(i)) = q * Assured!Cardinality(Upto(i)) +
             Assured!Smaller(Assured!Cardinality(Upto(i)), left)
           Bad == {i \in 0..AssuredN : ~Fits(i)}
<1>1. Assured!IsFiniteSet(R) /\ n \in Nat \ {0}
  BY BookingsFinite
<1>2. q \in Nat /\ left \in Nat /\ left < n /\ t = n * q + left
  BY <1>1, Division
<1>3. \A i \in 0..AssuredN : Assured!IsFiniteSet(Upto(i)) /\
        Assured!Cardinality(Upto(i)) \in Nat /\ Assured!IsFiniteSet(Paid(i))
  <2> SUFFICES ASSUME NEW i \in 0..AssuredN
               PROVE  Assured!IsFiniteSet(Upto(i)) /\ Assured!Cardinality(Upto(i)) \in Nat /\
                        Assured!IsFiniteSet(Paid(i))
    OBVIOUS
  <2>1. Upto(i) \subseteq R
    OBVIOUS
  <2>2. Assured!IsFiniteSet(Upto(i)) /\ Assured!Cardinality(Upto(i)) \in Nat
    BY <1>1, <2>1, Assured!FS_Subset, Assured!FS_CardinalityType
  <2> HIDE DEF Upto
  <2>3. Assured!IsFiniteSet(Paid(i))
    <3> DEFINE rowOf == [b \in Upto(i) |-> Assured!Row(what, b, Assured!ShareOf(b, t, R))]
    <3>1. Paid(i) = {rowOf[b] : b \in Upto(i)}
      OBVIOUS
    <3> HIDE DEF Paid, rowOf
    <3> QED BY <2>2, <3>1, RowsFinite
  <2> QED BY <2>2, <2>3
<1>4. \A i \in 0..AssuredN : \A row \in Paid(i) : row.amount \in Int
  BY ShareTyped DEF Assured!Row
<1>5. Bad = {}
  <2>1. SUFFICES ASSUME Bad # {} PROVE FALSE
    OBVIOUS
  <2>2. PICK i \in Bad : \A y \in Bad : i <= y
    <3>1. Bad \subseteq Nat
      BY DEF Assured!Parameters
    <3> HIDE DEF Bad
    <3> QED BY <2>1, <3>1, Assured!LeastNatural
  <2>3. i # 0
    <3>1. Upto(0) = {}
      BY BookingsFinite
    <3>2. Paid(0) = {} /\ Assured!Cardinality(Upto(0)) = 0
      BY <3>1, Assured!FS_EmptySet
    <3>3. q * 0 + Assured!Smaller(0, left) = 0
      BY <1>2 DEF Assured!Smaller
    <3>4. Fits(0)
      BY <3>2, <3>3, Assured!TotalNone
    <3> QED BY <2>2, <3>4
  <2>4. /\ i - 1 \in 0..AssuredN /\ i \in Assured!Bookings /\ Fits(i - 1)
        /\ \A b \in R : b \in Nat /\ (b <= i <=> b <= i - 1 \/ b = i)
        /\ ~(i <= i - 1)
    <3>1. i - 1 \in 0..AssuredN /\ i \in Assured!Bookings /\ i \in Nat /\ ~(i <= i - 1)
      BY <2>2, <2>3 DEF Assured!Parameters, Assured!Bookings
    <3>2. i - 1 \notin Bad
      BY <2>2, <3>1
    <3>3. Fits(i - 1)
      BY <3>1, <3>2
    <3>4. \A b \in Nat : b <= i <=> b <= i - 1 \/ b = i
      BY <3>1
    <3> QED BY <3>1, <3>3, <3>4, BookingsFinite
  <2>5. CASE i \notin R
    <3>1. Upto(i) = Upto(i - 1)
      BY <2>4, <2>5
    <3> HIDE DEF Upto
    <3> QED BY <2>2, <2>4, <3>1
  <2>6. CASE i \in R
    <3> DEFINE m == Assured!Cardinality(Upto(i - 1))
               row == Assured!Row(what, i, Assured!ShareOf(i, t, R))
    <3>1. Upto(i) = Upto(i - 1) \cup {i} /\ i \notin Upto(i - 1)
      BY <2>4, <2>6
    <3>2. Assured!Cardinality(Upto(i)) = m + 1 /\ m \in Nat
      BY <1>3, <2>4, <3>1, Assured!FS_AddElement
    <3>3. Paid(i) = Paid(i - 1) \cup {row} /\ row \notin Paid(i - 1)
      BY <3>1 DEF Assured!Row
    <3>4. row.amount = q + (IF m + 1 <= left THEN 1 ELSE 0)
      BY <3>2 DEF Assured!Row, Assured!ShareOf
    <3>5. Assured!AmountOf(Paid(i)) = Assured!AmountOf(Paid(i - 1)) + row.amount
      <4>1. row.amount \in Int
        BY <2>6, ShareTyped DEF Assured!Row
      <4>2. Assured!IsFiniteSet(Paid(i - 1)) /\ \A r \in Paid(i - 1) : r.amount \in Int
        BY <1>3, <1>4, <2>4
      <4> HIDE DEF Paid, row
      <4> QED BY <3>3, <4>1, <4>2, Assured!TotalMore
    <3>6. Assured!Smaller(m + 1, left) = Assured!Smaller(m, left) + (IF m + 1 <= left THEN 1 ELSE 0)
      BY <1>2, <3>2 DEF Assured!Smaller
    <3>7. q * (m + 1) = q * m + q /\ q * m \in Nat /\ Assured!Smaller(m, left) \in Nat
      BY <1>2, <3>2, Assured!OnePartMore DEF Assured!Smaller
    <3>8. Assured!AmountOf(Paid(i - 1)) = q * m + Assured!Smaller(m, left)
      BY <2>4
    <3>9. Assured!AmountOf(Paid(i)) # q * (m + 1) + Assured!Smaller(m + 1, left)
      BY <2>2, <3>2
    <3> DEFINE all == Assured!AmountOf(Paid(i))
               some == Assured!AmountOf(Paid(i - 1))
               parts == q * m
               more == q * (m + 1)
               extra == Assured!Smaller(m, left)
               extras == Assured!Smaller(m + 1, left)
               point == IF m + 1 <= left THEN 1 ELSE 0
    <3>10. /\ all = some + (q + point) /\ extras = extra + point /\ more = parts + q
           /\ some = parts + extra /\ all # more + extras
           /\ q \in Nat /\ parts \in Nat /\ extra \in Nat /\ point \in Nat
      BY <1>2, <3>4, <3>5, <3>6, <3>7, <3>8, <3>9
    <3> HIDE DEF all, some, parts, more, extra, extras, point, q
    <3> QED BY <3>10
  <2> QED BY <2>5, <2>6
<1>6. AssuredN \in 0..AssuredN /\ Upto(AssuredN) = R
  <2>1. \A b \in R : b <= AssuredN
    BY DEF Assured!Parameters, Assured!Bookings
  <2> QED BY <2>1 DEF Assured!Parameters
<1>7. Fits(AssuredN)
  BY <1>5, <1>6
<1>8. Assured!Smaller(n, left) = left /\ q * n = n * q
  <2>1. Assured!Smaller(n, left) = left
    BY <1>1, <1>2 DEF Assured!Smaller
  <2> HIDE DEF q, n, left
  <2>2. q * n = n * q
    BY <1>1, <1>2
  <2> QED BY <2>1, <2>2
<1>9. Paid(AssuredN) = {Assured!Row(what, b, Assured!ShareOf(b, t, R)) : b \in R}
  BY <1>6
<1> HIDE DEF Paid
<1> QED BY <1>2, <1>6, <1>7, <1>8, <1>9
-----------------------------------------------------------------------------
(* The inductive invariant: how far every row of the assuredLedger tells what     *)
(* happened to its booking, and the other way round.                       *)

-----------------------------------------------------------------------------
(* Steps.  What a step does to the assured and what rows it writes        *)
(* decides whether the invariant is kept.                                  *)

\* A step that moves bookings and rows in these ways keeps the invariant.
LEMMA MovesKeep ==
  ASSUME Assured!Parameters, Assured!SettlementInv, NEW new,
         assuredLedger' = assuredLedger \cup new,
         Assured!Shaped', Assured!HoldsEndWithTheRide', Assured!EndsStay,
           Assured!BookingsMove(new), Assured!RowsMove(new), Assured!DriverForfeits'
  PROVE  Assured!SettlementInv'
<1>1. \A row \in assuredLedger : Assured!RowFits(row)'
  <2> SUFFICES ASSUME NEW row \in assuredLedger PROVE Assured!RowFits(row)'
    OBVIOUS
  <2>1. Assured!RowFits(row)
    BY DEF Assured!SettlementInv, Assured!RowsFit
  <2>2. row.kind \in Assured!RiderKinds => row.booking \in Assured!Bookings
    BY <2>1 DEF Assured!RowFits
  <2>3. /\ Assured!SpentKinds \subseteq Assured!RiderKinds
        /\ Assured!DepositKinds \subseteq Assured!RiderKinds
        /\ {"refund", "earned"} \cup Assured!SplitKinds \subseteq Assured!RiderKinds
    BY DEF Assured!RiderKinds, Assured!SpentKinds
  <2> QED BY <2>1, <2>2, <2>3 DEF Assured!RowFits, Assured!EndsStay, Assured!FareRow
<1>2. Assured!RowsFit'
  BY <1>1, Assured!FS_Union DEF Assured!SettlementInv, Assured!RowsFit, Assured!RowsMove
<1>3. Assured!TypeOK'
  BY <1>2 DEF Assured!TypeOK, Assured!RowsFit, Assured!RowFits
<1>4. Assured!FatesExclude'
  <2> SUFFICES ASSUME NEW r \in assuredLedger \cup new, NEW s \in assuredLedger \cup new,
                        r.booking = s.booking
               PROVE  /\ r.kind = "refund" => s.kind \notin Assured!SplitKinds
                      /\ r.kind = "cancel-deposit" => s.kind # "no-show-deposit"
    BY DEF Assured!FatesExclude
  <2>1. \A x \in assuredLedger :
          /\ x.kind \in {"refund"} \cup Assured!SplitKinds =>
               assured[x.booking].status = "CANCELLED"
          /\ x.kind \in Assured!DepositKinds => riderHold[x.booking] = "CONSUMED"
    BY DEF Assured!SettlementInv, Assured!RowsFit, Assured!RowFits
  <2>2. \A x \in new :
          /\ x.kind \in {"refund"} \cup Assured!SplitKinds =>
               assured[x.booking].status = "CONFIRMED"
          /\ x.kind \in Assured!DepositKinds => riderHold[x.booking] # "CONSUMED"
    BY DEF Assured!RowsMove
  <2>3. CASE r \in assuredLedger /\ s \in assuredLedger
    BY <2>3 DEF Assured!SettlementInv, Assured!FatesExclude
  <2>4. CASE r \in new /\ s \in new
    BY <2>4 DEF Assured!RowsMove
  <2>5. CASE r \in assuredLedger /\ s \in new
    BY <2>1, <2>2, <2>5 DEF Assured!DepositKinds
  <2>6. CASE r \in new /\ s \in assuredLedger
    BY <2>1, <2>2, <2>6 DEF Assured!DepositKinds
  <2> QED BY <2>3, <2>4, <2>5, <2>6
<1>5. Assured!BookingsFit'
  <2> SUFFICES ASSUME NEW b \in Assured!Bookings
               PROVE  /\ assured'[b].status = "NONE" => riderHold'[b] = "NONE"
                      /\ assured'[b].status # "NONE" /\ AssuredKind[b] # "LATER" =>
                           Assured!FareRow(b) \in assuredLedger'
                      /\ riderHold'[b] = "CONSUMED" =>
                           \E what \in Assured!DepositKinds :
                             Assured!Row(what, b, RiderDeposit) \in assuredLedger'
    BY DEF Assured!BookingsFit, Assured!FareRow, Assured!Row
  <2> QED BY DEF Assured!SettlementInv, Assured!BookingsFit, Assured!BookingsMove
<1> QED BY <1>2, <1>3, <1>4, <1>5 DEF Assured!SettlementInv

\* Without a row about a forfeited deposit, the driver's stays paid out, or there.
LEMMA NoForfeitKeeps ==
  ASSUME Assured!SettlementInv, NEW new, assuredLedger' = assuredLedger \cup new,
         \A row \in new : row.kind \notin Assured!ForfeitKinds,
         driverHold' = "CONSUMED" => driverHold = "CONSUMED"
  PROVE  Assured!DriverForfeits'
<1>1. Assured!Rows(Assured!ForfeitKinds)' = Assured!Rows(Assured!ForfeitKinds)
  BY DEF Assured!Rows
<1> QED BY <1>1 DEF Assured!SettlementInv, Assured!DriverForfeits

\* The parts of the invariant that are not about the rows.
LEMMA InvShaped == ASSUME Assured!SettlementInv PROVE Assured!Shaped /\ Assured!HoldsEndWithTheRide
BY DEF Assured!SettlementInv, Assured!TypeOK

\* A ride that has just been published satisfies the invariant.
LEMMA InitSettlementInv == ASSUME Assured!Parameters, Assured!Init PROVE Assured!SettlementInv
<1>1. assuredLedger = {} /\ Assured!IsFiniteSet(assuredLedger) /\ driverHold = "ACTIVE"
  BY Assured!FS_EmptySet DEF Assured!Init
<1>2. Assured!TypeOK
  <2>1. assuredRide \in Assured!RideRows
    BY DEF Assured!Init, Assured!Parameters, Assured!RideRows
  <2>2. Assured!NoBooking \in Assured!BookingRows
    BY DEF Assured!NoBooking, Assured!BookingRows
  <2> QED BY <1>1, <2>1, <2>2 DEF Assured!Init, Assured!TypeOK, Assured!Shaped
<1>3. Assured!HoldsEndWithTheRide
  BY DEF Assured!Init, Assured!HoldsEndWithTheRide, Assured!Open, Assured!Active, Assured!NoBooking
<1>4. Assured!RowsFit /\ Assured!FatesExclude /\ Assured!DriverForfeits
  BY <1>1 DEF Assured!RowsFit, Assured!FatesExclude, Assured!DriverForfeits
<1>5. Assured!BookingsFit
  BY DEF Assured!Init, Assured!BookingsFit, Assured!NoBooking
<1> QED BY <1>2, <1>3, <1>4, <1>5 DEF Assured!SettlementInv

\* What Cancelled leaves.
LEMMA CancelledBookings ==
  ASSUME Assured!Shaped, NEW S, NEW refunded, assured' = Assured!Cancelled(S, refunded)
  PROVE  /\ assured' \in [Assured!Bookings -> Assured!BookingRows]
         /\ \A b \in Assured!Bookings :
              /\ b \in S => assured'[b].status = "CANCELLED"
              /\ b \notin S => assured'[b] = assured[b]
<1>1. \A b \in Assured!Bookings : assured[b] \in Assured!BookingRows
  BY DEF Assured!Shaped
<1>2. ASSUME NEW b \in Assured!Bookings
      PROVE  /\ assured'[b] \in Assured!BookingRows
             /\ b \in S => assured'[b].status = "CANCELLED"
             /\ b \notin S => assured'[b] = assured[b]
  BY <1>1 DEF Assured!BookingRows, Assured!Cancelled
<1>3. assured' = [b \in Assured!Bookings |-> assured'[b]]
  BY DEF Assured!Cancelled
<1> QED BY <1>2, <1>3

\* Seats that come back stay within those of the ride.
LEMMA SeatsTyped ==
  ASSUME Assured!Parameters, Assured!Shaped, NEW n \in Nat
  PROVE  Assured!Smaller(AssuredSeats, assuredRide.available + n) \in 0..AssuredSeats
BY DEF Assured!Parameters, Assured!Shaped, Assured!RideRows, Assured!BookingRows, Assured!Smaller

\* One seat that comes back.
LEMMA SeatBackTyped ==
  ASSUME Assured!Parameters, Assured!Shaped
  PROVE  /\ Assured!SeatBack \in Assured!RideRows
         /\ Assured!SeatBack.status = assuredRide.status
         /\ Assured!SeatBack.filled = assuredRide.filled
<1>1. Assured!Smaller(AssuredSeats, assuredRide.available + 1) \in 0..AssuredSeats
  BY SeatsTyped
<1> QED BY <1>1 DEF Assured!SeatBack, Assured!Shaped, Assured!RideRows, Assured!BookingRows

\* A partial fill pays for at most two seats of a ride, one row for a payment.
LEMMA FillTyped ==
  ASSUME Assured!Parameters, Assured!Shaped, NEW b \in 0..AssuredN, NEW empty \in Nat
  PROVE  /\ assuredRide.filled + Assured!SeatsToFill(empty) \in 0..2
         /\ Assured!IsFiniteSet(Assured!FillRows(b, empty))
         /\ \A row \in Assured!FillRows(b, empty) : row.kind = "fill" /\ Assured!RowFits(row)'
<1>1. /\ Assured!SeatsToFill(empty) \in 0..2
      /\ assuredRide.filled + Assured!SeatsToFill(empty) \in 0..2
  BY DEF Assured!SeatsToFill, Assured!Smaller, Assured!Shaped, Assured!RideRows, Assured!BookingRows
<1> DEFINE n == Assured!SeatsToFill(empty)
<1>2. n * AssuredPrice \in Nat
  BY <1>1 DEF Assured!Parameters
<1>3. Assured!FillAmount(n) \in Nat
  BY <1>2, PercentNat DEF Assured!FillAmount, Assured!Smaller
<1>4. Assured!FillRows(b, empty) \in {{}, {Assured!Row("fill", b, Assured!FillAmount(n))}}
  BY DEF Assured!FillRows
<1>5. Assured!IsFiniteSet(Assured!FillRows(b, empty))
  <2> DEFINE row == Assured!Row("fill", b, Assured!FillAmount(n))
  <2>1. Assured!IsFiniteSet({}) /\ Assured!IsFiniteSet({row})
    BY Assured!FS_EmptySet, Assured!FS_Singleton
  <2> HIDE DEF row
  <2> QED BY <1>4, <2>1 DEF row
<1> HIDE DEF n
<1>6. \A row \in Assured!FillRows(b, empty) : row.kind = "fill" /\ Assured!RowFits(row)'
  BY <1>3, <1>4 DEF Assured!Row, Assured!RowFits, Assured!RowKinds, Assured!RiderKinds,
     Assured!SpentKinds, Assured!SplitKinds, Assured!DepositKinds, Assured!ForfeitKinds
<1> QED BY <1>1, <1>5, <1>6

\* What pays the same price for each of some bookings.
LEMMA PriceRowsFinite ==
  ASSUME Assured!Parameters, NEW S \in SUBSET Assured!Bookings, NEW what
  PROVE  Assured!IsFiniteSet({Assured!Row(what, b, AssuredPrice) : b \in S})
<1> DEFINE rowOf == [b \in S |-> Assured!Row(what, b, AssuredPrice)]
<1>1. {Assured!Row(what, b, AssuredPrice) : b \in S} = {rowOf[b] : b \in S}
  OBVIOUS
<1> HIDE DEF rowOf
<1>2. Assured!IsFiniteSet(S)
  BY BookingsFinite
<1>3. Assured!IsFiniteSet({rowOf[b] : b \in S})
  BY <1>2, RowsFinite
<1> QED BY <1>1, <1>3

-----------------------------------------------------------------------------
(* Every action keeps the invariant.                                       *)

\* A step that writes no row and ends nothing.
LEMMA AssuredQuietKeeps ==
  ASSUME Assured!Parameters, Assured!SettlementInv,
         UNCHANGED <<driverHold, riderHold, assuredLedger>>, Assured!Shaped',
         Assured!Open' = Assured!Open, \A b \in Assured!Bookings :
           assured'[b].status = assured[b].status
  PROVE  Assured!SettlementInv'
<1>1. /\ assuredLedger' = assuredLedger \cup {}
      /\ Assured!RowsMove({})
      /\ Assured!BookingsMove({})
      /\ Assured!EndsStay
  BY Assured!FS_EmptySet DEF Assured!RowsMove, Assured!BookingsMove, Assured!EndsStay
<1>2. Assured!HoldsEndWithTheRide'
  BY DEF Assured!SettlementInv, Assured!HoldsEndWithTheRide, Assured!Active, Assured!Assured
<1>3. Assured!DriverForfeits'
  BY <1>1, NoForfeitKeeps
<1> QED BY <1>1, <1>2, <1>3, MovesKeep

\* A booking takes a seat, leaves a deposit and pays the fare, or will.
LEMMA AssuredBookKeeps ==
  ASSUME Assured!Parameters, Assured!SettlementInv, NEW b \in Assured!Bookings, Assured!Book(b)
  PROVE  Assured!SettlementInv'
<1> DEFINE new == IF AssuredKind[b] = "LATER" THEN {} ELSE {Assured!FareRow(b)}
           status == assured'[b].status
<1>1. /\ assuredRide.status = "ACTIVE" /\ assuredRide.available > 0 /\ assured[b].status = "NONE"
      /\ riderHold[b] = "NONE" /\ driverHold' = driverHold /\ assuredDeparted' = assuredDeparted
      /\ Assured!Shaped /\ Assured!HoldsEndWithTheRide
  BY InvShaped DEF Assured!Book, Assured!NoBooking, Assured!SettlementInv, Assured!BookingsFit
<1>2. assuredLedger' = assuredLedger \cup new
  BY DEF Assured!Book, Assured!FareRow
<1>3. /\ status = "CONFIRMED" /\ \A c \in Assured!Bookings : c # b => assured'[c] = assured[c]
      /\ riderHold'[b] = (IF Assured!Assured(b) THEN "ACTIVE" ELSE "NONE")
      /\ \A c \in Assured!Bookings : c # b => riderHold'[c] = riderHold[c]
      /\ assuredRide'.status = assuredRide.status
  BY <1>1 DEF Assured!Book, Assured!Shaped
<1>4. Assured!Shaped'
  BY <1>1 DEF Assured!Book, Assured!Shaped, Assured!RideRows, Assured!BookingRows,
     Assured!Parameters
<1>5. Assured!HoldsEndWithTheRide'
  BY <1>1, <1>3 DEF Assured!HoldsEndWithTheRide, Assured!Open, Assured!Active, Assured!Assured
<1>6. Assured!EndsStay
  BY <1>1, <1>3 DEF Assured!EndsStay
<1>7. Assured!BookingsMove(new)
  BY <1>1, <1>3 DEF Assured!BookingsMove
<1>8. Assured!RowsMove(new)
  <2>1. Assured!IsFiniteSet(new)
    BY Assured!FS_EmptySet, Assured!FS_Singleton
  <2>2. \A row \in new : Assured!RowFits(row)' /\ row.kind = "fare"
    BY DEF Assured!RowFits, Assured!FareRow, Assured!Row, Assured!RowKinds, Assured!RiderKinds,
       Assured!SpentKinds, Assured!SplitKinds, Assured!DepositKinds,
           Assured!ForfeitKinds, Assured!Parameters, Assured!Bookings
  <2> QED BY <2>1, <2>2 DEF Assured!RowsMove, Assured!SplitKinds, Assured!DepositKinds
<1>9. Assured!DriverForfeits'
  <2>1. \A row \in new : row.kind \notin Assured!ForfeitKinds
    BY DEF Assured!FareRow, Assured!Row, Assured!ForfeitKinds
  <2> HIDE DEF new
  <2> QED BY <1>1, <1>2, <2>1, NoForfeitKeeps
<1> QED BY <1>2, <1>4, <1>5, <1>6, <1>7, <1>8, <1>9, MovesKeep

\* One rider leaves a ride that goes on.
LEMMA LeavingKeeps ==
  ASSUME Assured!Parameters, Assured!SettlementInv, NEW b \in Assured!Active, Assured!Open,
         NEW refunded, assured' = Assured!Cancelled({b}, refunded),
         NEW new, assuredLedger' = assuredLedger \cup new, Assured!RowsMove(new),
         \A row \in new : row.kind \notin Assured!ForfeitKinds,
         UNCHANGED <<assuredDeparted, driverHold>>, assuredRide'.status = assuredRide.status,
         assuredRide' \in Assured!RideRows,
         riderHold' = [riderHold EXCEPT ![b] = IF Assured!Assured(b) THEN "CONSUMED" ELSE @],
         Assured!Assured(b) => \E what \in Assured!DepositKinds :
           Assured!Row(what, b, RiderDeposit) \in new
  PROVE  Assured!SettlementInv'
<1>1. /\ Assured!Shaped
      /\ Assured!HoldsEndWithTheRide
      /\ b \in Assured!Bookings
      /\ assured[b].status = "CONFIRMED"
  BY InvShaped DEF Assured!Active
<1>2. /\ assured' \in [Assured!Bookings -> Assured!BookingRows]
      /\ assured'[b].status = "CANCELLED"
      /\ \A c \in Assured!Bookings : c # b => assured'[c] = assured[c]
  <2> DEFINE S == {b}
  <2>1. b \in S /\ \A c \in Assured!Bookings : c # b => c \notin S
    OBVIOUS
  <2> HIDE DEF S
  <2>2. assured' = Assured!Cancelled(S, refunded)
    BY DEF S
  <2> QED BY <1>1, <2>1, <2>2, CancelledBookings
<1>3. /\ riderHold' \in [Assured!Bookings -> {"NONE", "ACTIVE", "RELEASED", "CONSUMED"}]
      /\ riderHold'[b] = (IF Assured!Assured(b) THEN "CONSUMED" ELSE riderHold[b])
      /\ \A c \in Assured!Bookings : c # b => riderHold'[c] = riderHold[c]
  BY <1>1 DEF Assured!Shaped
<1>4. Assured!Shaped'
  BY <1>1, <1>2, <1>3 DEF Assured!Shaped
<1>5. Assured!HoldsEndWithTheRide'
  <2>1. driverHold' = "ACTIVE" <=> Assured!Open'
    BY <1>1 DEF Assured!HoldsEndWithTheRide, Assured!Open
  <2>2. riderHold[b] = "ACTIVE" <=> Assured!Assured(b)
    BY <1>1 DEF Assured!HoldsEndWithTheRide
  <2>3. ASSUME NEW c \in Assured!Bookings, c # b
        PROVE  riderHold'[c] = "ACTIVE" <=> assured'[c].status = "CONFIRMED" /\ Assured!Assured(c)
    <3>1. riderHold'[c] = riderHold[c] /\ assured'[c] = assured[c]
      BY <1>2, <1>3, <2>3
    <3>2. riderHold[c] = "ACTIVE" <=> c \in Assured!Active /\ Assured!Assured(c)
      BY <1>1 DEF Assured!HoldsEndWithTheRide
    <3>3. c \in Assured!Active <=> assured[c].status = "CONFIRMED"
      BY DEF Assured!Active
    <3> QED BY <3>1, <3>2, <3>3
  <2>4. riderHold'[b] # "ACTIVE" /\ assured'[b].status # "CONFIRMED"
    BY <1>2, <1>3, <2>2
  <2> QED BY <2>1, <2>3, <2>4 DEF Assured!HoldsEndWithTheRide, Assured!Active, Assured!Assured
<1>6. Assured!EndsStay
  BY <1>1, <1>2, <1>3 DEF Assured!EndsStay
<1>7. Assured!BookingsMove(new)
  BY <1>1, <1>2, <1>3 DEF Assured!BookingsMove
<1>8. Assured!DriverForfeits'
  BY NoForfeitKeeps
<1> QED BY <1>4, <1>5, <1>6, <1>7, <1>8, MovesKeep

\* The ride ends, and with it what is left of its bookings and holds.
LEMMA AssuredEndingKeeps ==
  ASSUME Assured!Parameters, Assured!SettlementInv, Assured!Open, NEW new,
         assuredLedger' = assuredLedger \cup new, Assured!RowsMove(new), Assured!DriverForfeits',
         UNCHANGED assuredDeparted, assuredRide'.status \in {"COMPLETED", "CANCELLED"},
         assuredRide' \in Assured!RideRows,
         driverHold' \in {"RELEASED", "CONSUMED"}, riderHold' = Assured!ReleaseRiders,
         assured' \in [Assured!Bookings -> Assured!BookingRows],
         \A b \in Assured!Bookings :
           /\ b \in Assured!Active => assured'[b].status \in {"COMPLETED", "CANCELLED"}
           /\ b \notin Assured!Active => assured'[b] = assured[b]
  PROVE  Assured!SettlementInv'
<1>1. Assured!Shaped /\ Assured!HoldsEndWithTheRide /\ driverHold = "ACTIVE"
  BY InvShaped DEF Assured!HoldsEndWithTheRide
<1>2. /\ riderHold' \in [Assured!Bookings -> {"NONE", "ACTIVE", "RELEASED", "CONSUMED"}]
      /\ \A b \in Assured!Bookings :
           /\ riderHold'[b] # "ACTIVE"
           /\ riderHold[b] = "CONSUMED" <=> riderHold'[b] = "CONSUMED"
           /\ b \notin Assured!Active => riderHold'[b] = riderHold[b]
  BY <1>1 DEF Assured!Shaped, Assured!ReleaseRiders, Assured!HoldsEndWithTheRide
<1>3. \A b \in Assured!Bookings : b \in Assured!Active <=> assured[b].status = "CONFIRMED"
  BY DEF Assured!Active
<1>4. Assured!Shaped'
  BY <1>1, <1>2 DEF Assured!Shaped
<1>5. Assured!HoldsEndWithTheRide'
  BY <1>2, <1>3 DEF Assured!HoldsEndWithTheRide, Assured!Open, Assured!Active
<1>6. Assured!EndsStay
  BY <1>1, <1>2, <1>3 DEF Assured!EndsStay
<1>7. Assured!BookingsMove(new)
  BY <1>2, <1>3 DEF Assured!BookingsMove
<1> QED BY <1>4, <1>5, <1>6, <1>7, MovesKeep

\* A fare that is in the ledger is returned to a rider who leaves.
LEMMA RefundsMove ==
  ASSUME Assured!Parameters, Assured!SettlementInv, NEW S \in SUBSET Assured!Active,
         assuredLedger \subseteq assuredLedger',
         \A b \in S : AssuredKind[b] # "LATER" /\ assured'[b].status = "CANCELLED"
  PROVE  Assured!RowsMove({Assured!Row("refund", b, AssuredPrice) : b \in S})
<1> DEFINE new == {Assured!Row("refund", b, AssuredPrice) : b \in S}
<1>1. Assured!IsFiniteSet(new) /\ S \subseteq Assured!Bookings
  BY PriceRowsFinite DEF Assured!Active
<1>2. \A b \in S : Assured!FareRow(b) \in assuredLedger' /\ b \in 0..AssuredN
  BY <1>1 DEF Assured!SettlementInv, Assured!BookingsFit, Assured!Active, Assured!Bookings,
     Assured!Parameters
<1>3. ASSUME NEW row \in new
      PROVE  Assured!RowFits(row)' /\ row.kind = "refund" /\
               assured[row.booking].status = "CONFIRMED"
  <2>1. PICK b \in S : row = Assured!Row("refund", b, AssuredPrice)
    OBVIOUS
  <2>2. Assured!FareRow(b)' = Assured!FareRow(b)
    BY DEF Assured!FareRow, Assured!Row
  <2> QED BY <1>1, <1>2, <2>1, <2>2 DEF Assured!Row, Assured!RowFits, Assured!RowKinds,
  Assured!RiderKinds, Assured!SpentKinds, Assured!SplitKinds,
             Assured!DepositKinds, Assured!ForfeitKinds, Assured!Parameters, Assured!Active
<1> QED BY <1>1, <1>3 DEF Assured!RowsMove, Assured!SplitKinds, Assured!DepositKinds

\* A rider who cancels loses the deposit, and 70 percent of a fare to the platform.
LEMMA CancelByAssuredRiderKeeps ==
  ASSUME Assured!Parameters, Assured!SettlementInv, NEW b \in Assured!Bookings,
         Assured!CancelByAssuredRider(b)
  PROVE  Assured!SettlementInv'
<1> DEFINE toDriver == Assured!Percent(AssuredPrice, 30)
           deposit == Assured!Row("cancel-deposit", b, RiderDeposit)
           driverRow == Assured!Row("cancel-fare-driver", b, toDriver)
           platformRow == Assured!Row("cancel-fare-platform", b, AssuredPrice - toDriver)
           fareRows == IF Assured!PaidNow(b) THEN {driverRow, platformRow} ELSE {}
           new == {deposit} \cup fareRows
<1>1. /\ Assured!Open
      /\ b \in Assured!Active
      /\ Assured!Assured(b)
      /\ assured' = Assured!Cancelled({b}, {})
      /\ riderHold' = [riderHold EXCEPT ![b] = "CONSUMED"]
      /\ assuredLedger' = assuredLedger \cup new
      /\ assuredRide' = Assured!SeatBack /\ UNCHANGED <<assuredDeparted, driverHold>>
  BY DEF Assured!CancelByAssuredRider
<1>2. /\ Assured!Shaped
      /\ assured[b].status = "CONFIRMED"
      /\ riderHold[b] = "ACTIVE"
      /\ b \in 0..AssuredN
  BY <1>1, InvShaped DEF Assured!HoldsEndWithTheRide, Assured!Active, Assured!Bookings,
     Assured!Parameters
<1>3. assured'[b].status = "CANCELLED" /\ riderHold'[b] = "CONSUMED"
  <2>1. b \in {b}
    OBVIOUS
  <2>2. riderHold \in [Assured!Bookings -> {"NONE", "ACTIVE", "RELEASED", "CONSUMED"}]
    BY <1>2 DEF Assured!Shaped
  <2> QED BY <1>1, <1>2, <2>1, <2>2, CancelledBookings
<1>4. Assured!PaidNow(b) => Assured!FareRow(b)' \in assuredLedger'
  <2>1. Assured!PaidNow(b) => Assured!FareRow(b) \in assuredLedger
    BY <1>2 DEF Assured!PaidNow, Assured!SettlementInv, Assured!BookingsFit
  <2> QED BY <1>1, <2>1 DEF Assured!FareRow, Assured!Row
<1>5. toDriver \in Nat /\ toDriver <= AssuredPrice /\ AssuredPrice - toDriver \in Nat
  BY PercentNat DEF Assured!Parameters
<1>6. Assured!RowFits(deposit)' /\ deposit.kind = "cancel-deposit" /\ deposit.booking = b
  BY <1>2, <1>3 DEF Assured!RowFits, Assured!Row, Assured!RowKinds, Assured!RiderKinds,
     Assured!SpentKinds, Assured!SplitKinds, Assured!DepositKinds,
     Assured!ForfeitKinds, Assured!Parameters
<1>7. Assured!PaidNow(b) => /\ Assured!RowFits(driverRow)' /\ driverRow.kind = "cancel-fare-driver"
                            /\ driverRow.booking = b
  BY <1>2, <1>3, <1>4, <1>5
  DEF Assured!RowFits, Assured!Row, Assured!RowKinds, Assured!RiderKinds, Assured!SpentKinds,
      Assured!SplitKinds, Assured!DepositKinds,
     Assured!ForfeitKinds
<1>8. Assured!PaidNow(b) => /\ Assured!RowFits(platformRow)' /\
                                 platformRow.kind = "cancel-fare-platform"
                            /\ platformRow.booking = b
  BY <1>2, <1>3, <1>4, <1>5
  DEF Assured!RowFits, Assured!Row, Assured!RowKinds, Assured!RiderKinds, Assured!SpentKinds,
      Assured!SplitKinds, Assured!DepositKinds,
     Assured!ForfeitKinds
<1>9. Assured!IsFiniteSet(new)
  <2>1. /\ Assured!IsFiniteSet({driverRow})
        /\ Assured!IsFiniteSet({platformRow})
        /\ Assured!IsFiniteSet({deposit})
        /\ Assured!IsFiniteSet({})
    BY Assured!FS_EmptySet, Assured!FS_Singleton
  <2>2. Assured!IsFiniteSet({driverRow, platformRow})
    <3>1. {driverRow, platformRow} = {driverRow} \cup {platformRow}
      OBVIOUS
    <3> QED BY <2>1, <3>1, Assured!FS_Union
  <2>3. Assured!IsFiniteSet(fareRows)
    BY <2>1, <2>2
  <2> QED BY <2>1, <2>3, Assured!FS_Union
<1>10. deposit \in new
  OBVIOUS
<1> HIDE DEF deposit, driverRow, platformRow
<1>11. \A row \in new : /\ Assured!RowFits(row)' /\ row.booking = b
                        /\ row.kind \in {"cancel-deposit", "cancel-fare-driver",
                               "cancel-fare-platform"}
  BY <1>6, <1>7, <1>8
<1> HIDE DEF new
<1>12. Assured!RowsMove(new)
  BY <1>2, <1>9, <1>11 DEF Assured!RowsMove, Assured!DepositKinds
<1>13. \A row \in new : row.kind \notin Assured!ForfeitKinds
  BY <1>11 DEF Assured!ForfeitKinds
<1>14. \E what \in Assured!DepositKinds : Assured!Row(what, b, RiderDeposit) \in new
  BY <1>10 DEF deposit, Assured!DepositKinds
<1>15. riderHold' = [riderHold EXCEPT ![b] = IF Assured!Assured(b) THEN "CONSUMED" ELSE @]
  BY <1>1
<1> QED BY <1>1, <1>2, <1>12, <1>13, <1>14, <1>15, SeatBackTyped, LeavingKeeps

\* A REGULAR rider who cancels has the fare back.
LEMMA CancelByRegularRiderKeeps ==
  ASSUME Assured!Parameters, Assured!SettlementInv, NEW b \in Assured!Bookings,
         Assured!CancelByRegularRider(b)
  PROVE  Assured!SettlementInv'
<1> DEFINE new == {Assured!Row("refund", c, AssuredPrice) : c \in {b}}
<1>1. /\ Assured!Open
      /\ b \in Assured!Active
      /\ ~Assured!Assured(b)
      /\ assured' = Assured!Cancelled({b}, {b})
      /\ assuredLedger' = assuredLedger \cup new
      /\ assuredRide' = Assured!SeatBack
      /\ UNCHANGED <<assuredDeparted, driverHold, riderHold>>
  BY DEF Assured!CancelByRegularRider
<1>2. Assured!Shaped
  BY InvShaped
<1>3. AssuredKind[b] # "LATER" /\ assured'[b].status = "CANCELLED"
  <2>1. b \in {b}
    OBVIOUS
  <2> QED BY <1>1, <1>2, <2>1, CancelledBookings DEF Assured!Assured
<1>4. Assured!RowsMove(new)
  BY <1>1, <1>3, RefundsMove
<1>5. \A row \in new : row.kind \notin Assured!ForfeitKinds
  BY DEF Assured!Row, Assured!ForfeitKinds
<1>6. riderHold' = [riderHold EXCEPT ![b] = IF Assured!Assured(b) THEN "CONSUMED" ELSE @]
  BY <1>1, <1>2 DEF Assured!Shaped
<1> HIDE DEF new
<1> QED BY <1>1, <1>2, <1>4, <1>5, <1>6, SeatBackTyped, LeavingKeeps

\* The deposit of a rider who is not there goes to the platform, which fills the seat.
LEMMA RiderNoShowKeeps ==
  ASSUME Assured!Parameters, Assured!SettlementInv, NEW b \in Assured!Bookings,
         Assured!RiderNoShow(b)
  PROVE  Assured!SettlementInv'
<1> DEFINE deposit == Assured!Row("no-show-deposit", b, RiderDeposit)
           fill == Assured!FillRows(b, 1)
           new == {deposit} \cup fill
<1>1. /\ Assured!Open
      /\ b \in Assured!Active
      /\ Assured!Assured(b)
      /\ assured' = Assured!Cancelled({b}, {})
      /\ riderHold' = [riderHold EXCEPT ![b] = "CONSUMED"]
      /\ assuredLedger' = assuredLedger \cup new
      /\ assuredRide' = [Assured!SeatBack EXCEPT !.filled = @ + Assured!SeatsToFill(1)]
      /\ UNCHANGED <<assuredDeparted, driverHold>>
  BY DEF Assured!RiderNoShow
<1>2. /\ Assured!Shaped
      /\ assured[b].status = "CONFIRMED"
      /\ riderHold[b] = "ACTIVE"
      /\ b \in 0..AssuredN
  BY <1>1, InvShaped DEF Assured!HoldsEndWithTheRide, Assured!Active, Assured!Bookings,
     Assured!Parameters
<1>3. assured'[b].status = "CANCELLED" /\ riderHold'[b] = "CONSUMED"
  <2>1. b \in {b}
    OBVIOUS
  <2>2. riderHold \in [Assured!Bookings -> {"NONE", "ACTIVE", "RELEASED", "CONSUMED"}]
    BY <1>2 DEF Assured!Shaped
  <2> QED BY <1>1, <1>2, <2>1, <2>2, CancelledBookings
<1>4. Assured!RowFits(deposit)' /\ deposit.kind = "no-show-deposit" /\ deposit.booking = b
  BY <1>2, <1>3 DEF Assured!RowFits, Assured!Row, Assured!RowKinds, Assured!RiderKinds,
     Assured!SpentKinds, Assured!SplitKinds, Assured!DepositKinds,
     Assured!ForfeitKinds, Assured!Parameters
<1>5. /\ assuredRide.filled + Assured!SeatsToFill(1) \in 0..2 /\ Assured!IsFiniteSet(fill)
      /\ \A row \in fill : row.kind = "fill" /\ Assured!RowFits(row)'
  BY <1>2, FillTyped
<1>6. Assured!IsFiniteSet(new) /\ deposit \in new
  BY <1>5, Assured!FS_Singleton, Assured!FS_Union
<1> HIDE DEF deposit, fill
<1>7. \A row \in new : /\ Assured!RowFits(row)' /\ (row = deposit \/ row.kind = "fill")
  BY <1>4, <1>5
<1> HIDE DEF new
<1>8. Assured!RowsMove(new)
  BY <1>2, <1>4, <1>6, <1>7 DEF Assured!RowsMove, Assured!DepositKinds, Assured!SplitKinds
<1>9. \A row \in new : row.kind \notin Assured!ForfeitKinds
  BY <1>4, <1>7 DEF Assured!ForfeitKinds
<1>10. \E what \in Assured!DepositKinds : Assured!Row(what, b, RiderDeposit) \in new
  BY <1>6 DEF deposit, Assured!DepositKinds
<1>11. riderHold' = [riderHold EXCEPT ![b] = IF Assured!Assured(b) THEN "CONSUMED" ELSE @]
  BY <1>1
<1>12. /\ assuredRide'.status = assuredRide.status
       /\ assuredRide' \in Assured!RideRows
  BY <1>1, <1>2, <1>5, SeatBackTyped DEF Assured!RideRows
<1> QED BY <1>1, <1>8, <1>9, <1>10, <1>11, <1>12, LeavingKeeps

\* The driver's deposit is paid out to the last point: to the riders and to the
\* platform, or to the platform alone.
LEMMA ForfeitAddsUp ==
  ASSUME Assured!Parameters, driverHold' = "CONSUMED"
  PROVE  /\ Assured!IsFiniteSet(Assured!ForfeitRows) /\ Assured!AmountOf(Assured!ForfeitRows) =
              DriverDeposit
         /\ \A row \in Assured!ForfeitRows : row.kind \in Assured!ForfeitKinds /\
              Assured!RowFits(row)'
<1> DEFINE riders == {b \in Assured!Active : Assured!Assured(b)}
           share == IF riders = {} THEN 0 ELSE Assured!Percent(DriverDeposit, 60)
           parts == {Assured!Row("compensation", b, Assured!ShareOf(b, share, riders)) :
               b \in riders}
           rest == Assured!Row("forfeit", 0, DriverDeposit - share)
<1>1. Assured!ForfeitRows = parts \cup {rest}
  BY DEF Assured!ForfeitRows
<1>2. /\ share \in Nat /\ DriverDeposit - share \in Nat /\ DriverDeposit \in Nat
  BY PercentNat DEF Assured!Parameters
<1>3. riders \in SUBSET Assured!Bookings /\ Assured!IsFiniteSet(riders)
  BY BookingsFinite DEF Assured!Active
<1>4. \A b \in riders : Assured!ShareOf(b, share, riders) \in Nat /\ b \in Assured!Bookings /\
        b \in 0..AssuredN
  <2> HIDE DEF riders, share
  <2>1. \A b \in riders : Assured!ShareOf(b, share, riders) \in Nat
    BY <1>2, <1>3, ShareTyped
  <2> QED BY <1>3, <2>1 DEF Assured!Bookings, Assured!Parameters
<1>5. Assured!AmountOf(parts) = share
  <2>1. CASE riders = {}
    <3>1. parts = {} /\ share = 0
      BY <2>1
    <3> HIDE DEF parts, share
    <3> QED BY <3>1, Assured!TotalNone
  <2>2. CASE riders # {}
    <3> HIDE DEF riders, share
    <3> QED BY <1>2, <1>3, <2>2, AssuredSharesAddUp
  <2> QED BY <2>1, <2>2
<1>6. Assured!IsFiniteSet(parts)
  <2> DEFINE rowOf == [b \in riders |-> Assured!Row("compensation", b,
                 Assured!ShareOf(b, share, riders))]
  <2>1. parts = {rowOf[b] : b \in riders}
    OBVIOUS
  <2> HIDE DEF parts, rowOf
  <2> QED BY <1>3, <2>1, RowsFinite
<1>7. ASSUME NEW row \in parts
      PROVE  row.kind = "compensation" /\ row.amount \in Nat /\ Assured!RowFits(row)'
  <2> HIDE DEF riders, share
  <2>1. PICK b \in riders : row = Assured!Row("compensation", b, Assured!ShareOf(b, share, riders))
    OBVIOUS
  <2> DEFINE part == Assured!ShareOf(b, share, riders)
  <2>2. part \in Nat /\ b \in Assured!Bookings /\ b \in 0..AssuredN
    BY <1>4
  <2> HIDE DEF part
  <2>3. row = Assured!Row("compensation", b, part)
    BY <2>1 DEF part
  <2> QED BY <2>2, <2>3 DEF Assured!RowFits, Assured!Row, Assured!RowKinds, Assured!RiderKinds,
  Assured!SpentKinds, Assured!SplitKinds, Assured!DepositKinds, Assured!ForfeitKinds
<1>8. /\ rest.kind = "forfeit" /\ rest.amount = DriverDeposit - share
      /\ \A row \in {rest} : Assured!RowFits(row)'
  <2>1. PICK amount \in Nat : amount = DriverDeposit - share
    BY <1>2
  <2>2. rest = Assured!Row("forfeit", 0, amount)
    BY <2>1
  <2> SUFFICES ASSUME NEW row, row = rest PROVE Assured!RowFits(row)'
    BY <2>1, <2>2 DEF Assured!Row
  <2> HIDE DEF rest
  <2> QED BY <2>2 DEF Assured!RowFits, Assured!Row, Assured!RowKinds, Assured!RiderKinds,
  Assured!SpentKinds, Assured!SplitKinds, Assured!DepositKinds,
             Assured!ForfeitKinds, Assured!Parameters
<1> HIDE DEF parts, rest, share
<1>9. rest \notin parts /\ \A row \in parts : row.amount \in Int
  BY <1>7, <1>8
<1>10. Assured!AmountOf(parts \cup {rest}) = Assured!AmountOf(parts) + rest.amount
  BY <1>2, <1>6, <1>8, <1>9, Assured!TotalMore
<1>11. Assured!AmountOf(Assured!ForfeitRows) = DriverDeposit
  BY <1>1, <1>2, <1>5, <1>8, <1>10
<1>12. Assured!IsFiniteSet(Assured!ForfeitRows)
  BY <1>1, <1>6, Assured!FS_AddElement
<1>13. \A row \in Assured!ForfeitRows : row.kind \in Assured!ForfeitKinds /\ Assured!RowFits(row)'
  <2>1. \A row \in parts \cup {rest} : row.kind \in Assured!ForfeitKinds /\ Assured!RowFits(row)'
    BY <1>7, <1>8 DEF Assured!ForfeitKinds
  <2> QED BY <1>1, <2>1
<1> QED BY <1>11, <1>12, <1>13

\* The driver fails the riders, whichever way.
LEMMA ForfeitKeeps ==
  ASSUME Assured!Parameters, Assured!SettlementInv, Assured!Open, NEW S \in SUBSET Assured!Active,
         \A b \in S : AssuredKind[b] # "LATER",
         Assured!Forfeit(S)
  PROVE  Assured!SettlementInv'
<1> DEFINE returned == {Assured!Row("refund", b, AssuredPrice) : b \in S}
           new == Assured!ForfeitRows \cup returned
<1>1. /\ driverHold' = "CONSUMED"
      /\ riderHold' = Assured!ReleaseRiders
      /\ assuredLedger' = assuredLedger \cup new
      /\ assured' = Assured!Cancelled(Assured!Active, {}) /\ UNCHANGED assuredDeparted
      /\ assuredRide' = [assuredRide EXCEPT !.status = "CANCELLED",
                                            !.available =
                                              Assured!Smaller(AssuredSeats,
                                                  @ + Assured!Cardinality(Assured!Active))]
  BY DEF Assured!Forfeit
<1>2. Assured!Shaped /\ driverHold = "ACTIVE" /\ Assured!Active \in SUBSET Assured!Bookings
  BY InvShaped DEF Assured!HoldsEndWithTheRide, Assured!Active
<1>3. /\ assured' \in [Assured!Bookings -> Assured!BookingRows]
      /\ \A b \in Assured!Bookings :
           /\ b \in Assured!Active => assured'[b].status = "CANCELLED"
           /\ b \notin Assured!Active => assured'[b] = assured[b]
  BY <1>1, <1>2, CancelledBookings
<1>4. /\ Assured!IsFiniteSet(Assured!ForfeitRows)
      /\ Assured!AmountOf(Assured!ForfeitRows) = DriverDeposit
      /\ \A row \in Assured!ForfeitRows : row.kind \in Assured!ForfeitKinds /\ Assured!RowFits(row)'
  BY <1>1, ForfeitAddsUp
<1>5. Assured!RowsMove(returned) /\ \A row \in returned : row.kind = "refund"
  <2>1. \A b \in S : AssuredKind[b] # "LATER" /\ assured'[b].status = "CANCELLED"
    BY <1>2, <1>3
  <2>2. Assured!RowsMove(returned)
    BY <1>1, <2>1, RefundsMove
  <2> QED BY <2>2 DEF Assured!Row
<1> HIDE DEF returned
<1>6. Assured!RowsMove(new)
  <2>1. Assured!IsFiniteSet(new) /\ \A row \in new : Assured!RowFits(row)'
    BY <1>4, <1>5, Assured!FS_Union DEF Assured!RowsMove
  <2>2. \A row \in new : row.kind \in Assured!ForfeitKinds \/
          (row \in returned /\ row.kind = "refund")
    BY <1>4, <1>5
  <2> HIDE DEF new
  <2> QED BY <1>5, <2>1, <2>2 DEF Assured!RowsMove, Assured!ForfeitKinds, Assured!DepositKinds,
  Assured!SplitKinds
<1>7. Assured!DriverForfeits'
  <2>1. \A row \in assuredLedger : row.kind \notin Assured!ForfeitKinds
    BY <1>2 DEF Assured!SettlementInv, Assured!RowsFit, Assured!RowFits
  <2>2. {row \in assuredLedger' : row.kind \in Assured!ForfeitKinds} = Assured!ForfeitRows
    BY <1>1, <1>4, <1>5, <2>1 DEF Assured!ForfeitKinds
  <2>3. Assured!Rows(Assured!ForfeitKinds)' = Assured!ForfeitRows
    BY <2>2 DEF Assured!Rows
  <2> QED BY <1>4, <2>3 DEF Assured!DriverForfeits
<1>8. assuredRide' \in Assured!RideRows
  <2>1. Assured!Smaller(AssuredSeats, assuredRide.available +
            Assured!Cardinality(Assured!Active)) \in 0..AssuredSeats
    BY <1>2, BookingsFinite, SeatsTyped
  <2> QED BY <1>1, <1>2, <2>1 DEF Assured!Shaped, Assured!RideRows, Assured!BookingRows
<1>9. assuredRide'.status = "CANCELLED"
  BY <1>1, <1>2 DEF Assured!Shaped
<1> HIDE DEF new
<1> QED BY <1>1, <1>3, <1>6, <1>7, <1>8, <1>9, AssuredEndingKeeps

\* Support ends the ride: deposits and, before it is on its way, fares go back.
LEMMA AssuredCancelByAdminKeeps ==
  ASSUME Assured!Parameters, Assured!SettlementInv, Assured!CancelByAdmin
  PROVE  Assured!SettlementInv'
<1> DEFINE S == IF assuredRide.status = "ACTIVE" THEN {b \in Assured!Active :
               Assured!PaidNow(b)} ELSE {}
           new == {Assured!Row("refund", b, AssuredPrice) : b \in S}
<1>1. /\ Assured!Open
      /\ driverHold' = "RELEASED"
      /\ riderHold' = Assured!ReleaseRiders
      /\ assuredLedger' = assuredLedger \cup new
      /\ assured' = Assured!Cancelled(Assured!Active, S) /\ UNCHANGED assuredDeparted
      /\ assuredRide' = [assuredRide EXCEPT !.status = "CANCELLED",
                                            !.available =
                                              Assured!Smaller(AssuredSeats,
                                                  @ + Assured!Cardinality(Assured!Active))]
  BY DEF Assured!CancelByAdmin, Assured!releaseAssuredHolds
<1>2. /\ Assured!Shaped
      /\ Assured!Active \in SUBSET Assured!Bookings
      /\ S \in SUBSET Assured!Active
      /\ \A b \in S : AssuredKind[b] # "LATER"
  BY InvShaped DEF Assured!Active, Assured!PaidNow
<1> HIDE DEF S
<1>3. /\ assured' \in [Assured!Bookings -> Assured!BookingRows]
      /\ \A b \in Assured!Bookings :
           /\ b \in Assured!Active => assured'[b].status = "CANCELLED"
           /\ b \notin Assured!Active => assured'[b] = assured[b]
  BY <1>1, <1>2, CancelledBookings
<1>4. Assured!RowsMove(new)
  <2>1. \A b \in S : AssuredKind[b] # "LATER" /\ assured'[b].status = "CANCELLED"
    BY <1>2, <1>3
  <2> QED BY <1>1, <1>2, <2>1, RefundsMove
<1>5. \A row \in new : row.kind \notin Assured!ForfeitKinds
  BY DEF Assured!Row, Assured!ForfeitKinds
<1> HIDE DEF new
<1>6. Assured!DriverForfeits'
  BY <1>1, <1>5, NoForfeitKeeps
<1>7. assuredRide' \in Assured!RideRows
  <2>1. Assured!Smaller(AssuredSeats, assuredRide.available +
            Assured!Cardinality(Assured!Active)) \in 0..AssuredSeats
    BY <1>2, BookingsFinite, SeatsTyped
  <2> QED BY <1>1, <1>2, <2>1 DEF Assured!Shaped, Assured!RideRows, Assured!BookingRows
<1>8. assuredRide'.status = "CANCELLED"
  BY <1>1, <1>2 DEF Assured!Shaped
<1> QED BY <1>1, <1>3, <1>4, <1>6, <1>7, <1>8, AssuredEndingKeeps

\* Everyone on board: fares to the driver, deposits back, empty seats filled.
LEMMA AssuredCompleteKeeps ==
  ASSUME Assured!Parameters, Assured!SettlementInv, Assured!Complete
  PROVE  Assured!SettlementInv'
<1> DEFINE earned == {Assured!Row("earned", b, AssuredPrice) : b \in Assured!Earned}
           fill == Assured!FillRows(0, assuredRide.available)
           new == earned \cup fill
<1>1. /\ assuredRide.status = "IN_PROGRESS"
      /\ driverHold' = "RELEASED"
      /\ riderHold' = Assured!ReleaseRiders
      /\ assuredLedger' = assuredLedger \cup new /\ UNCHANGED assuredDeparted
      /\ assured' = [b \in Assured!Bookings |-> IF b \in Assured!Active
           THEN [assured[b] EXCEPT !.status = "COMPLETED"] ELSE assured[b]]
      /\ assuredRide' = [assuredRide EXCEPT !.status = "COMPLETED",
             !.filled = @ + Assured!SeatsToFill(assuredRide.available)]
  BY DEF Assured!Complete
<1>2. /\ Assured!Shaped
      /\ Assured!Open
      /\ Assured!Earned \in SUBSET Assured!Active
      /\ Assured!Active \in SUBSET Assured!Bookings
  BY <1>1, InvShaped DEF Assured!Active, Assured!Open, Assured!Earned
<1>3. /\ assured' \in [Assured!Bookings -> Assured!BookingRows]
      /\ \A b \in Assured!Bookings :
           /\ b \in Assured!Active => assured'[b].status = "COMPLETED"
           /\ b \notin Assured!Active => assured'[b] = assured[b]
  BY <1>1, <1>2 DEF Assured!Shaped, Assured!RideRows, Assured!BookingRows
<1>4. /\ assuredRide.filled + Assured!SeatsToFill(assuredRide.available) \in 0..2
      /\ Assured!IsFiniteSet(fill)
      /\ \A row \in fill : row.kind = "fill" /\ Assured!RowFits(row)'
  <2>1. 0 \in 0..AssuredN /\ assuredRide.available \in Nat
    BY <1>2 DEF Assured!Shaped, Assured!RideRows, Assured!BookingRows, Assured!Parameters
  <2> QED BY <1>2, <2>1, FillTyped
<1>5. Assured!IsFiniteSet(earned)
  BY <1>2, PriceRowsFinite
<1>6. ASSUME NEW row \in earned PROVE row.kind = "earned" /\ Assured!RowFits(row)'
  <2>1. PICK b \in Assured!Earned : row = Assured!Row("earned", b, AssuredPrice)
    OBVIOUS
  <2>2. b \in Assured!Bookings /\ b \in 0..AssuredN /\ assured'[b].status = "COMPLETED"
    <3>1. b \in Assured!Active /\ b \in Assured!Bookings
      BY <1>2, <2>1
    <3>2. b \in 0..AssuredN
      BY <3>1 DEF Assured!Bookings, Assured!Parameters
    <3> QED BY <1>3, <3>1, <3>2
  <2>3. Assured!FareRow(b)' \in assuredLedger'
    <3>1. Assured!FareRow(b) \in assuredLedger
      BY <2>2 DEF Assured!SettlementInv, Assured!BookingsFit, Assured!Earned, Assured!PaidNow,
         Assured!Active
    <3> QED BY <1>1, <3>1 DEF Assured!FareRow, Assured!Row
  <2> QED BY <2>1, <2>2, <2>3 DEF Assured!RowFits, Assured!Row, Assured!RowKinds,
  Assured!RiderKinds, Assured!SpentKinds, Assured!SplitKinds,
             Assured!DepositKinds, Assured!ForfeitKinds, Assured!Parameters
<1> HIDE DEF earned, fill
<1>7. Assured!IsFiniteSet(new) /\ \A row \in new : Assured!RowFits(row)' /\
        row.kind \in {"earned", "fill"}
  BY <1>4, <1>5, <1>6, Assured!FS_Union
<1> HIDE DEF new
<1>8. Assured!RowsMove(new)
  BY <1>7 DEF Assured!RowsMove, Assured!SplitKinds, Assured!DepositKinds
<1>9. Assured!DriverForfeits'
  <2>1. \A row \in new : row.kind \notin Assured!ForfeitKinds
    BY <1>7 DEF Assured!ForfeitKinds
  <2> QED BY <1>1, <2>1, NoForfeitKeeps
<1>10. /\ assuredRide'.status = "COMPLETED"
       /\ assuredRide' \in Assured!RideRows
  BY <1>1, <1>2, <1>4 DEF Assured!Shaped, Assured!RideRows, Assured!BookingRows
<1> QED BY <1>1, <1>2, <1>3, <1>8, <1>9, <1>10, AssuredEndingKeeps

\* A LATER fare comes in and goes to the driver in one transaction, or in cash.
LEMMA PayLaterKeeps ==
  ASSUME Assured!Parameters, Assured!SettlementInv, NEW b \in Assured!Bookings, Assured!PayLater(b)
  PROVE  Assured!SettlementInv'
<1> DEFINE earned == Assured!Row("earned", b, AssuredPrice)
<1>1. /\ assured[b].status = "COMPLETED"
      /\ UNCHANGED <<assuredRide, assuredDeparted, driverHold, riderHold>>
      /\ assured' = [assured EXCEPT ![b].payment = "PAID"]
      /\ assuredLedger' = assuredLedger \cup {Assured!FareRow(b), earned} \/
           assuredLedger' = assuredLedger
  BY DEF Assured!PayLater, Assured!FareRow
<1>2. Assured!Shaped /\ Assured!HoldsEndWithTheRide
  BY InvShaped
<1>3. /\ assured' \in [Assured!Bookings -> Assured!BookingRows]
      /\ \A c \in Assured!Bookings : assured'[c].status = assured[c].status
  BY <1>1, <1>2 DEF Assured!Shaped, Assured!RideRows, Assured!BookingRows
<1>4. Assured!Shaped' /\ Assured!Open' = Assured!Open
  BY <1>1, <1>2, <1>3 DEF Assured!Shaped, Assured!Open
<1>5. CASE assuredLedger' = assuredLedger
  BY <1>1, <1>3, <1>4, <1>5, AssuredQuietKeeps
<1>6. CASE assuredLedger' = assuredLedger \cup {Assured!FareRow(b), earned}
  <2>1. /\ Assured!HoldsEndWithTheRide'
        /\ Assured!EndsStay
        /\ Assured!BookingsMove({Assured!FareRow(b), earned})
    BY <1>1, <1>2, <1>3, <1>4
    DEF Assured!HoldsEndWithTheRide, Assured!Active, Assured!EndsStay, Assured!BookingsMove,
        Assured!Assured
  <2>2. /\ b \in 0..AssuredN
        /\ AssuredPrice \in Nat
        /\ Assured!FareRow(b)' = Assured!FareRow(b)
        /\ Assured!FareRow(b) \in assuredLedger'
    BY <1>6 DEF Assured!Bookings, Assured!Parameters, Assured!FareRow, Assured!Row
  <2>3. \A row \in {Assured!FareRow(b), earned} : Assured!RowFits(row)' /\
          row.kind \in {"fare", "earned"}
    <3>1. assured'[b].status = "COMPLETED"
      BY <1>1, <1>3
    <3> QED BY <2>2, <3>1 DEF Assured!RowFits, Assured!FareRow, Assured!Row, Assured!RowKinds,
    Assured!RiderKinds, Assured!SpentKinds, Assured!SplitKinds,
               Assured!DepositKinds, Assured!ForfeitKinds
  <2>4. Assured!IsFiniteSet({Assured!FareRow(b), earned})
    <3>1. {Assured!FareRow(b), earned} = {Assured!FareRow(b)} \cup {earned}
      OBVIOUS
    <3>2. Assured!IsFiniteSet({Assured!FareRow(b)}) /\ Assured!IsFiniteSet({earned})
      BY Assured!FS_Singleton
    <3> QED BY <3>1, <3>2, Assured!FS_Union
  <2>5. Assured!RowsMove({Assured!FareRow(b), earned})
    BY <2>3, <2>4 DEF Assured!RowsMove, Assured!SplitKinds, Assured!DepositKinds
  <2>6. Assured!DriverForfeits'
    <3>1. \A row \in {Assured!FareRow(b), earned} : row.kind \notin Assured!ForfeitKinds
      BY <2>3 DEF Assured!ForfeitKinds
    <3> QED BY <1>1, <1>6, <3>1, NoForfeitKeeps
  <2> QED BY <1>4, <1>6, <2>1, <2>5, <2>6, MovesKeep
<1> QED BY <1>1, <1>5, <1>6

\* What leaves holds and ledger alone, bookings that are made or paid, riders
\* who leave and the ways the ride ends: all of Next.
LEMMA NextSettlementInv == Assured!Parameters /\ Assured!SettlementInv /\
  [Assured!Next]_(Assured!vars) => Assured!SettlementInv'
<1> SUFFICES ASSUME Assured!Parameters, Assured!SettlementInv, [Assured!Next]_(Assured!vars)
             PROVE  Assured!SettlementInv'
  OBVIOUS
<1>1. Assured!Shaped
  BY InvShaped
<1>2. CASE UNCHANGED Assured!vars \/ Assured!Over
  <2>1. UNCHANGED <<assuredRide, assuredDeparted, assured, driverHold, riderHold, assuredLedger>>
    BY <1>2 DEF Assured!vars, Assured!Over
  <2>2. Assured!Shaped' /\ Assured!Open' = Assured!Open
    BY <1>1, <2>1 DEF Assured!Shaped, Assured!Open
  <2> QED BY <2>1, <2>2, AssuredQuietKeeps
<1>3. CASE \/ Assured!Depart
           \/ Assured!Start
           \/ \E policy \in {"ALLOW", "KEEP"} : Assured!DecideRegularSeats(policy)
  <2>1. /\ UNCHANGED <<driverHold, riderHold, assuredLedger>> /\ assured' = assured
        /\ Assured!Shaped' /\ Assured!Open' = Assured!Open
    <3>1. CASE Assured!Depart
      BY <1>1, <3>1 DEF Assured!Depart, Assured!Shaped, Assured!Open
    <3>2. CASE Assured!Start
      BY <1>1, <3>2 DEF Assured!Start, Assured!Shaped, Assured!RideRows, Assured!BookingRows,
         Assured!Open
    <3>3. CASE \E policy \in {"ALLOW", "KEEP"} : Assured!DecideRegularSeats(policy)
      BY <1>1, <3>3 DEF Assured!DecideRegularSeats, Assured!Shaped, Assured!RideRows,
         Assured!BookingRows, Assured!Open
    <3> QED BY <1>3, <3>1, <3>2, <3>3
  <2> QED BY <2>1, AssuredQuietKeeps
<1>4. ASSUME NEW b \in Assured!Bookings, Assured!VerifyPickup(b) PROVE Assured!SettlementInv'
  <2>1. /\ UNCHANGED <<driverHold, riderHold, assuredLedger>> /\ Assured!Open' = Assured!Open
        /\ Assured!Shaped' /\ \A c \in Assured!Bookings : assured'[c].status = assured[c].status
    BY <1>1, <1>4, ZenonT(30)
    DEF Assured!VerifyPickup, Assured!Shaped, Assured!RideRows, Assured!BookingRows, Assured!Open
  <2> QED BY <2>1, AssuredQuietKeeps
<1>5. CASE Assured!CancelByDriver
  <2> DEFINE S == {b \in Assured!Active : AssuredKind[b] = "NOW"}
  <2>1. /\ Assured!Open
        /\ Assured!Forfeit(S)
        /\ S \in SUBSET Assured!Active
        /\ \A b \in S : AssuredKind[b] # "LATER"
    BY <1>5 DEF Assured!CancelByDriver, Assured!Open
  <2> HIDE DEF S
  <2> QED BY <2>1, ForfeitKeeps
<1>6. CASE Assured!DriverNoShow
  <2>1. /\ Assured!Open
        /\ Assured!Forfeit({})
        /\ {} \in SUBSET Assured!Active
        /\ \A b \in {} : AssuredKind[b] # "LATER"
    BY <1>6 DEF Assured!DriverNoShow
  <2> QED BY <2>1, ForfeitKeeps
<1>7. CASE Assured!CancelByAdmin
  BY <1>7, AssuredCancelByAdminKeeps
<1>8. CASE Assured!Complete
  BY <1>8, AssuredCompleteKeeps
<1>9. ASSUME NEW b \in Assured!Bookings,
             \/ Assured!Book(b) \/ Assured!CancelByAssuredRider(b) \/
                  Assured!CancelByRegularRider(b) \/ Assured!RiderNoShow(b)
             \/ Assured!PayLater(b)
      PROVE  Assured!SettlementInv'
  BY <1>9, AssuredBookKeeps, CancelByAssuredRiderKeeps, CancelByRegularRiderKeeps,
     RiderNoShowKeeps, PayLaterKeeps
<1> QED BY <1>2, <1>3, <1>4, <1>5, <1>6, <1>7, <1>8, <1>9, Zenon DEF Assured!Next

-----------------------------------------------------------------------------
(* What the invariant says about amounts.                                  *)

\* Rows of the ledger, whatever they are chosen by, are finitely many and whole.
LEMMA SomeRows ==
  ASSUME Assured!RowsFit, NEW S \in SUBSET assuredLedger
  PROVE  Assured!IsFiniteSet(S) /\ (\A row \in S : row.amount \in Int) /\
           Assured!AmountOf(S) \in Int
<1>1. Assured!IsFiniteSet(S) /\ \A row \in S : row.amount \in Int
  BY Assured!FS_Subset DEF Assured!RowsFit, Assured!RowFits
<1> QED BY <1>1, Assured!TotalInt

\* A row is known by its kind, its booking and its amount.
LEMMA RowIs ==
  ASSUME Assured!RowsFit, NEW row \in assuredLedger
  PROVE  row = Assured!Row(row.kind, row.booking, row.amount)
BY DEF Assured!RowsFit, Assured!RowFits, Assured!Row

\* A deposit that was taken has its one row, and one that was not has none.
LEMMA InvPaysOut ==
  ASSUME Assured!Parameters, Assured!SettlementInv
  PROVE  Assured!ForfeitsArePaidOut
<1>1. Assured!AmountOf(Assured!Rows(Assured!ForfeitKinds)) = IF driverHold =
        "CONSUMED" THEN DriverDeposit ELSE 0
  <2>1. CASE driverHold = "CONSUMED"
    BY <2>1 DEF Assured!SettlementInv, Assured!DriverForfeits
  <2>2. CASE driverHold # "CONSUMED"
    <3>1. Assured!Rows(Assured!ForfeitKinds) = {}
      BY <2>2 DEF Assured!SettlementInv, Assured!RowsFit, Assured!RowFits, Assured!Rows
    <3> QED BY <2>2, <3>1, Assured!TotalNone
  <2> QED BY <2>1, <2>2
<1>2. ASSUME NEW b \in Assured!Bookings
      PROVE  Assured!AmountOf(Assured!RowsOf(b) \cap Assured!Rows(Assured!DepositKinds)) =
               IF riderHold[b] = "CONSUMED" THEN RiderDeposit ELSE 0
  <2> DEFINE paid == Assured!RowsOf(b) \cap Assured!Rows(Assured!DepositKinds)
  <2>1. CASE riderHold[b] = "CONSUMED"
    <3>1. PICK what \in Assured!DepositKinds : Assured!Row(what, b, RiderDeposit) \in assuredLedger
      BY <2>1 DEF Assured!SettlementInv, Assured!BookingsFit
    <3> DEFINE deposit == Assured!Row(what, b, RiderDeposit)
    <3>2. /\ deposit \in paid
          /\ deposit.kind = what
          /\ deposit.booking = b
          /\ deposit.amount = RiderDeposit
      BY <3>1 DEF Assured!Row, Assured!RowsOf, Assured!Rows
    <3>3. ASSUME NEW row \in paid PROVE row = deposit
      <4>1. /\ row \in assuredLedger
            /\ row.booking = b
            /\ row.kind \in Assured!DepositKinds
            /\ deposit \in assuredLedger
        BY <3>1 DEF Assured!RowsOf, Assured!Rows
      <4>2. row.kind = what
        BY <3>2, <4>1 DEF Assured!SettlementInv, Assured!FatesExclude, Assured!DepositKinds
      <4>3. row.amount = RiderDeposit
        BY <4>1 DEF Assured!SettlementInv, Assured!RowsFit, Assured!RowFits
      <4> QED BY <4>1, <4>2, <4>3, RowIs DEF Assured!SettlementInv
    <3>4. paid = {deposit}
      BY <3>2, <3>3
    <3> HIDE DEF paid, deposit
    <3>5. Assured!AmountOf({deposit}) = deposit.amount
      BY <3>2, Assured!TotalOne DEF Assured!Parameters
    <3> QED BY <2>1, <3>2, <3>4, <3>5 DEF paid
  <2>2. CASE riderHold[b] # "CONSUMED"
    <3>1. paid = {}
      BY <2>2 DEF Assured!SettlementInv, Assured!RowsFit, Assured!RowFits, Assured!RowsOf,
         Assured!Rows
    <3> QED BY <2>2, <3>1, Assured!TotalNone
  <2> QED BY <2>1, <2>2
<1> QED BY <1>1, <1>2 DEF Assured!ForfeitsArePaidOut, Assured!ForfeitKinds, Assured!DepositKinds

\* The rows that spend the fare of a booking are one of the three ways, and there
\* are none without a fare.
LEMMA InvGoesOneWay == ASSUME Assured!Parameters, Assured!SettlementInv PROVE Assured!FareGoesOneWay
<1> SUFFICES ASSUME NEW b \in Assured!Bookings
             PROVE  Assured!AmountOf(Assured!RowsOf(b) \cap Assured!Rows(Assured!SpentKinds)) <=
                      Assured!AmountOf(Assured!RowsOf(b) \cap Assured!Rows({"fare"}))
  BY DEF Assured!FareGoesOneWay, Assured!SpentKinds, Assured!SplitKinds
<1> DEFINE spent == Assured!RowsOf(b) \cap Assured!Rows(Assured!SpentKinds)
           fare == Assured!RowsOf(b) \cap Assured!Rows({"fare"})
           part == Assured!Percent(AssuredPrice, 30)
           earned == Assured!Row("earned", b, AssuredPrice)
           refund == Assured!Row("refund", b, AssuredPrice)
           toDriver == Assured!Row("cancel-fare-driver", b, part)
           toPlatform == Assured!Row("cancel-fare-platform", b, AssuredPrice - part)
<1>1. part \in Nat /\ AssuredPrice - part \in Nat /\ AssuredPrice \in Nat
  BY PercentNat DEF Assured!Parameters
<1>2. \A row \in assuredLedger : Assured!RowFits(row) /\
        row = Assured!Row(row.kind, row.booking, row.amount)
  BY RowIs DEF Assured!SettlementInv, Assured!RowsFit
<1>3. \A row \in fare : row = Assured!FareRow(b)
  BY <1>2 DEF Assured!RowsOf, Assured!Rows, Assured!RowFits, Assured!FareRow
<1>4. spent # {} => Assured!FareRow(b) \in fare
  <2>1. spent # {} => Assured!FareRow(b) \in assuredLedger
    BY <1>2 DEF Assured!RowsOf, Assured!Rows, Assured!RowFits
  <2> QED BY <2>1 DEF Assured!RowsOf, Assured!Rows, Assured!FareRow, Assured!Row
<1>5. Assured!AmountOf({Assured!FareRow(b)}) = AssuredPrice
  <2> DEFINE row == Assured!FareRow(b)
  <2>1. row.amount = AssuredPrice
    BY DEF Assured!FareRow, Assured!Row
  <2> HIDE DEF row
  <2>2. Assured!AmountOf({row}) = AssuredPrice
    <3>1. row.amount \in Int
      BY <2>1 DEF Assured!Parameters
    <3> QED BY <2>1, <3>1, Assured!TotalOne
  <2> QED BY <2>2 DEF row
<1>6. /\ Assured!AmountOf(fare) \in {0, AssuredPrice}
      /\ (spent # {} => Assured!AmountOf(fare) = AssuredPrice)
  <2>1. fare = {} \/ fare = {Assured!FareRow(b)}
    BY <1>3
  <2> HIDE DEF fare
  <2> QED BY <1>4, <1>5, <2>1, Assured!TotalNone
<1>7. \/ spent = {} \/ spent = {earned} \/ spent = {refund}
      \/ spent = {toDriver} \/ spent = {toPlatform} \/ spent = {toDriver, toPlatform}
  <2>1. ASSUME NEW row \in spent
        PROVE  /\ row \in {earned, refund, toDriver, toPlatform}
               /\ row.kind = "earned" <=> row = earned
               /\ row.kind = "refund" <=> row = refund
    <3>1. row \in assuredLedger /\ row.booking = b /\ row.kind \in Assured!SpentKinds
      BY DEF Assured!RowsOf, Assured!Rows
    <3> QED BY <1>2, <3>1 DEF Assured!RowFits, Assured!SpentKinds, Assured!SplitKinds, Assured!Row
  <2>2. ASSUME NEW r \in spent, NEW s \in spent, r.kind = "earned" PROVE s.kind = "earned"
    BY <1>2, <2>2 DEF Assured!RowsOf, Assured!Rows, Assured!RowFits, Assured!SpentKinds,
       Assured!SplitKinds
  <2>3. ASSUME NEW r \in spent, NEW s \in spent, r.kind = "refund" PROVE s.kind = "refund"
    <3>1. s.kind # "earned"
      BY <2>2, <2>3
    <3>2. s.kind \notin Assured!SplitKinds
      BY <2>3 DEF Assured!SettlementInv, Assured!FatesExclude, Assured!RowsOf, Assured!Rows
    <3> QED BY <3>1, <3>2 DEF Assured!SpentKinds, Assured!Rows
  <2> HIDE DEF spent, earned, refund, toDriver, toPlatform
  <2>4. CASE \E r \in spent : r.kind = "earned"
    BY <2>1, <2>2, <2>4
  <2>5. CASE \E r \in spent : r.kind = "refund"
    BY <2>1, <2>3, <2>5
  <2>6. CASE \A r \in spent : r.kind \notin {"earned", "refund"}
    <3>1. \A r \in spent : r \in {toDriver, toPlatform}
      BY <2>1, <2>6
    <3> QED BY <3>1
  <2> QED BY <2>4, <2>5, <2>6
<1>8. /\ Assured!AmountOf({earned}) = AssuredPrice /\ Assured!AmountOf({refund}) = AssuredPrice
      /\ Assured!AmountOf({toDriver}) = part /\ Assured!AmountOf({toPlatform}) = AssuredPrice - part
      /\ Assured!AmountOf({toDriver, toPlatform}) = AssuredPrice
  <2>1. /\ earned.amount = AssuredPrice /\ refund.amount = AssuredPrice
        /\ toDriver.amount = part
        /\ toPlatform.amount = AssuredPrice - part
        /\ toPlatform \notin {toDriver}
    BY DEF Assured!Row
  <2> HIDE DEF earned, refund, toDriver, toPlatform, part
  <2>2. Assured!AmountOf({earned}) = AssuredPrice /\ Assured!AmountOf({refund}) = AssuredPrice
    BY <1>1, <2>1, Assured!TotalOne
  <2>3. Assured!AmountOf({toDriver}) = part /\ Assured!AmountOf({toPlatform}) = AssuredPrice - part
    BY <1>1, <2>1, Assured!TotalOne
  <2>4. Assured!AmountOf({toDriver} \cup {toPlatform}) =
          Assured!AmountOf({toDriver}) + (AssuredPrice - part)
    <3>1. Assured!IsFiniteSet({toDriver})
      BY Assured!FS_Singleton
    <3>2. \A x \in {toDriver} : x.amount \in Int
      BY <1>1, <2>1
    <3> QED BY <1>1, <2>1, <3>1, <3>2, Assured!TotalMore
  <2>5. {toDriver, toPlatform} = {toDriver} \cup {toPlatform}
    OBVIOUS
  <2> QED BY <1>1, <2>2, <2>3, <2>4, <2>5
<1> HIDE DEF spent, fare, earned, refund, toDriver, toPlatform, part
<1>9. /\ Assured!AmountOf(spent) \in Nat
      /\ Assured!AmountOf(spent) <= AssuredPrice
      /\ (spent = {} => Assured!AmountOf(spent) = 0)
  <2>1. CASE spent = {}
    BY <1>1, <2>1, Assured!TotalNone
  <2>2. CASE spent = {earned} \/ spent = {refund} \/ spent = {toDriver, toPlatform}
    <3>1. Assured!AmountOf(spent) = AssuredPrice /\ spent # {}
      BY <1>8, <2>2
    <3> QED BY <1>1, <3>1
  <2>3. CASE spent = {toDriver} \/ spent = {toPlatform}
    <3>1. Assured!AmountOf(spent) \in {part, AssuredPrice - part} /\ spent # {}
      BY <1>8, <2>3
    <3> QED BY <1>1, <3>1
  <2> QED BY <1>7, <2>1, <2>2, <2>3
<1>10. Assured!AmountOf(spent) <= Assured!AmountOf(fare)
  BY <1>1, <1>6, <1>9
<1> QED BY <1>10 DEF spent, fare

\* Points add up over two groups of bookings.
LEMMA PriceOfTwo ==
  ASSUME NEW p \in Nat, NEW m \in Nat, NEW n \in Nat
  PROVE  p * (m + n) = p * m + p * n /\ p * m \in Nat /\ p * n \in Nat
OBVIOUS

\* The rows of earned fares are as many as the completed bookings that have one.
LEMMA InvEarningsAgree ==
  ASSUME Assured!Parameters, Assured!SettlementInv
  PROVE  Assured!EarningsAgree
<1> SUFFICES ASSUME ~Assured!Open
             PROVE  Assured!findHistoryDetail = Assured!getLifetimeEarnings +
                      AssuredPrice * Assured!Cardinality(
                        {b \in Assured!Bookings :
                           /\ assured[b].status = "COMPLETED"
                           /\ Assured!RowsOf(b) \cap Assured!Rows({"earned"}) = {}})
  BY DEF Assured!EarningsAgree
<1> DEFINE Bonuses == Assured!Rows({"fill", "cancel-deposit", "cancel-fare-driver"})
           Fares == Assured!Rows({"earned"})
           Taken == {b \in Assured!Bookings : assured[b].status = "COMPLETED"}
           Paid == {b \in Taken : Assured!RowsOf(b) \cap Fares # {}}
           Owed == {b \in Taken : Assured!RowsOf(b) \cap Fares = {}}
<1>1. \A row \in assuredLedger : Assured!RowFits(row) /\
        row = Assured!Row(row.kind, row.booking, row.amount)
  BY RowIs DEF Assured!SettlementInv, Assured!RowsFit
<1>2. /\ Assured!IsFiniteSet(Bonuses)
      /\ (\A row \in Bonuses : row.amount \in Int)
      /\ Assured!AmountOf(Bonuses) \in Int
      /\ Assured!IsFiniteSet(Fares) /\ (\A row \in Fares : row.amount \in Int)
  BY SomeRows DEF Assured!SettlementInv, Assured!Rows
<1>3. Assured!AmountOf(Bonuses \cup Fares) = Assured!AmountOf(Bonuses) + Assured!AmountOf(Fares)
  <2>1. Bonuses \cap Fares = {}
    BY DEF Assured!Rows
  <2> HIDE DEF Bonuses, Fares
  <2> QED BY <1>2, <2>1, Assured!TotalUnion
<1>4. Bonuses \cup Fares = Assured!Rows({"earned", "cancel-deposit", "cancel-fare-driver", "fill"})
  BY DEF Assured!Rows
<1>5. ASSUME NEW row \in Fares
      PROVE  row.booking \in Paid /\ row = Assured!Row("earned", row.booking, AssuredPrice)
  <2>1. row \in assuredLedger /\ row.kind = "earned"
    BY DEF Assured!Rows
  <2>2. row.booking \in Taken /\ row.amount = AssuredPrice
    BY <1>1, <2>1 DEF Assured!RowFits, Assured!RiderKinds, Assured!SpentKinds
  <2> QED BY <1>1, <2>1, <2>2 DEF Assured!RowsOf
<1>6. ASSUME NEW b \in Paid
      PROVE  Assured!Row("earned", b, AssuredPrice) \in Fares
  <2>1. PICK row \in Fares : row.booking = b
    BY DEF Assured!RowsOf
  <2> QED BY <1>5, <2>1
<1>7. /\ Assured!IsFiniteSet(Paid) /\ Assured!IsFiniteSet(Owed) /\ Assured!IsFiniteSet(Taken)
      /\ Assured!Cardinality(Paid) \in Nat /\ Assured!Cardinality(Owed) \in Nat
  <2>1. /\ Paid \in SUBSET Assured!Bookings
        /\ Owed \in SUBSET Assured!Bookings
        /\ Taken \in SUBSET Assured!Bookings
    OBVIOUS
  <2> HIDE DEF Paid, Owed, Taken
  <2> QED BY <2>1, BookingsFinite
<1>8. Assured!Cardinality(Fares) = Assured!Cardinality(Paid)
  <2> DEFINE f == [b \in Paid |-> Assured!Row("earned", b, AssuredPrice)]
  <2> HIDE DEF Paid, Fares
  <2>1. f \in Assured!Surjection(Paid, Fares) /\ f \in Assured!Injection(Paid, Fares)
    <3>1. f \in [Paid -> Fares]
      BY <1>6
    <3>2. \A row \in Fares : row.booking \in Paid /\ f[row.booking] = row
      BY <1>5
    <3>3. \A b, c \in Paid : f[b] = f[c] => b = c
      BY DEF Assured!Row
    <3> HIDE DEF f
    <3> QED BY <3>1, <3>2, <3>3 DEF Assured!Surjection, Assured!Injection, Assured!IsInjective
  <2> HIDE DEF f
  <2> QED BY <1>7, <2>1, Assured!FS_Surjection
<1>9. Assured!AmountOf(Fares) = AssuredPrice * Assured!Cardinality(Paid)
  <2>1. \A row \in Fares : row.amount = AssuredPrice
    BY <1>5 DEF Assured!Row
  <2> HIDE DEF Fares, Paid
  <2> QED BY <1>2, <1>8, <2>1, Assured!TotalEqual DEF Assured!Parameters
<1>10. Assured!Cardinality(Taken) = Assured!Cardinality(Paid) + Assured!Cardinality(Owed)
  <2>1. Paid \cup Owed = Taken /\ Paid \cap Owed = {}
    OBVIOUS
  <2> HIDE DEF Paid, Owed, Taken
  <2>2. Assured!Cardinality(Paid \cup Owed) = Assured!Cardinality(Paid) +
          Assured!Cardinality(Owed) - Assured!Cardinality(Paid \cap Owed)
    BY <1>7, Assured!FS_Union
  <2>3. Assured!Cardinality(Paid \cap Owed) = 0
    BY <2>1, Assured!FS_EmptySet
  <2>4. Assured!Cardinality(Taken) = Assured!Cardinality(Paid \cup Owed)
    BY <2>1
  <2> DEFINE all == Assured!Cardinality(Taken)
             m == Assured!Cardinality(Paid)
             n == Assured!Cardinality(Owed)
  <2>5. all = m + n - 0 /\ m \in Nat /\ n \in Nat
    BY <1>7, <2>2, <2>3, <2>4
  <2>6. all = m + n
    <3> HIDE DEF all, m, n
    <3> QED BY <2>5
  <2> QED BY <2>6
<1>11. /\ Assured!findHistoryDetail = AssuredPrice * Assured!Cardinality(Taken) +
            Assured!AmountOf(Bonuses)
       /\ Assured!getLifetimeEarnings = Assured!AmountOf(Bonuses \cup Fares)
  BY <1>4 DEF Assured!findHistoryDetail, Assured!calculateHistoryEarnings,
     Assured!loadRideDriverBonusEarnings, Assured!getLifetimeEarnings
<1>12. Owed = {b \in Assured!Bookings : /\ assured[b].status = "COMPLETED"
                                        /\ Assured!RowsOf(b) \cap Assured!Rows({"earned"}) = {}}
  OBVIOUS
<1> HIDE DEF Bonuses, Fares, Taken, Paid, Owed
<1> DEFINE m == Assured!Cardinality(Paid)
           n == Assured!Cardinality(Owed)
<1>13. m \in Nat /\ n \in Nat /\ AssuredPrice \in Nat
  BY <1>7 DEF Assured!Parameters
<1> HIDE DEF m, n
<1>14. /\ AssuredPrice * (m + n) = AssuredPrice * m + AssuredPrice * n
       /\ AssuredPrice * m \in Nat
       /\ AssuredPrice * n \in Nat
  BY <1>13, PriceOfTwo
<1> DEFINE x == AssuredPrice * m
           y == AssuredPrice * n
           z == AssuredPrice * (m + n)
<1>15. /\ Assured!findHistoryDetail = z + Assured!AmountOf(Bonuses)
       /\ Assured!getLifetimeEarnings = Assured!AmountOf(Bonuses) + x
  BY <1>3, <1>9, <1>10, <1>11 DEF m, n
<1>16. z = x + y /\ x \in Nat /\ y \in Nat
  BY <1>14
<1> HIDE DEF x, y, z
<1>17. Assured!findHistoryDetail = Assured!getLifetimeEarnings + y
  BY <1>2, <1>15, <1>16
<1> QED BY <1>12, <1>17 DEF y, n

-----------------------------------------------------------------------------
(* The theorems.                                                           *)

\* The rows keep their shape, and the seats of a ride stay within its number.
THEOREM SettlementTyped == ASSUME Assured!Parameters PROVE Assured!Spec => []Assured!TypeOK
<1>1. Assured!Init => Assured!SettlementInv
  BY InitSettlementInv
<1>2. Assured!SettlementInv /\ [Assured!Next]_(Assured!vars) => Assured!SettlementInv'
  BY NextSettlementInv
<1>3. Assured!SettlementInv => Assured!TypeOK
  BY DEF Assured!SettlementInv
<1> QED BY <1>1, <1>2, <1>3, PTL DEF Assured!Spec

\* assured-lifecycle.service.ts and the completion in rides.service.ts: every way
\* to end a ride or a booking ends the deposits it secures, and none before.
THEOREM DepositsEndWithTheRide ==
  ASSUME Assured!Parameters
  PROVE  Assured!Spec => []Assured!HoldsEndWithTheRide
<1>1. Assured!Init => Assured!SettlementInv
  BY InitSettlementInv
<1>2. Assured!SettlementInv /\ [Assured!Next]_(Assured!vars) => Assured!SettlementInv'
  BY NextSettlementInv
<1>3. Assured!SettlementInv => Assured!HoldsEndWithTheRide
  BY DEF Assured!SettlementInv
<1> QED BY <1>1, <1>2, <1>3, PTL DEF Assured!Spec

\* The distribution of a forfeited deposit, whatever the number of riders and the
\* remainder: no point is lost in rounding and none is paid out twice.
THEOREM ForfeitsAddUp ==
  ASSUME Assured!Parameters
  PROVE  Assured!Spec => []Assured!ForfeitsArePaidOut
<1>1. Assured!Init => Assured!SettlementInv
  BY InitSettlementInv
<1>2. Assured!SettlementInv /\ [Assured!Next]_(Assured!vars) => Assured!SettlementInv'
  BY NextSettlementInv
<1>3. Assured!SettlementInv => Assured!ForfeitsArePaidOut
  BY InvPaysOut
<1> QED BY <1>1, <1>2, <1>3, PTL DEF Assured!Spec

\* fare-settlement.service.ts and the cancellations: a fare is earned, split or
\* returned, and never more of it than came in.
THEOREM FaresGoOneWay == ASSUME Assured!Parameters PROVE Assured!Spec => []Assured!FareGoesOneWay
<1>1. Assured!Init => Assured!SettlementInv
  BY InitSettlementInv
<1>2. Assured!SettlementInv /\ [Assured!Next]_(Assured!vars) => Assured!SettlementInv'
  BY NextSettlementInv
<1>3. Assured!SettlementInv => Assured!FareGoesOneWay
  BY InvGoesOneWay
<1> QED BY <1>1, <1>2, <1>3, PTL DEF Assured!Spec

\* The driver's history, reckoned from bookings, and the lifetime earnings,
\* reckoned from the ledger, differ by the fares that never passed through it.
THEOREM ReckoningsAgree == ASSUME Assured!Parameters PROVE Assured!Spec => []Assured!EarningsAgree
<1>1. Assured!Init => Assured!SettlementInv
  BY InitSettlementInv
<1>2. Assured!SettlementInv /\ [Assured!Next]_(Assured!vars) => Assured!SettlementInv'
  BY NextSettlementInv
<1>3. Assured!SettlementInv => Assured!EarningsAgree
  BY InvEarningsAgree
<1> QED BY <1>1, <1>2, <1>3, PTL DEF Assured!Spec

\* No step takes a ledger row back, or changes a ride that is over or its deposits.
LEMMA StepIsFinal ==
  Assured!Next => /\ assuredLedger \subseteq assuredLedger'
                  /\ assuredRide.status \in {"COMPLETED", "CANCELLED"} =>
                       assuredRide' = assuredRide /\ driverHold' = driverHold /\
                         riderHold' = riderHold
<1> DEFINE Final == /\ assuredLedger \subseteq assuredLedger'
                    /\ assuredRide.status \in {"COMPLETED", "CANCELLED"} =>
                         assuredRide' = assuredRide /\ driverHold' = driverHold /\
                           riderHold' = riderHold
<1>1. ASSUME NEW b \in Assured!Bookings,
             \/ Assured!Book(b) \/ Assured!CancelByAssuredRider(b) \/
                  Assured!CancelByRegularRider(b) \/ Assured!RiderNoShow(b)
             \/ Assured!VerifyPickup(b) \/ Assured!PayLater(b)
      PROVE  Final
  BY <1>1 DEF Assured!Book, Assured!CancelByAssuredRider, Assured!CancelByRegularRider,
     Assured!RiderNoShow, Assured!VerifyPickup, Assured!PayLater, Assured!Open
<1>2. ASSUME \/ \E policy \in {"ALLOW", "KEEP"} : Assured!DecideRegularSeats(policy)
             \/ Assured!CancelByDriver \/ Assured!DriverNoShow \/ Assured!CancelByAdmin
             \/ Assured!Depart \/ Assured!Start \/ Assured!Complete \/ Assured!Over
      PROVE  Final
  BY <1>2 DEF Assured!DecideRegularSeats, Assured!CancelByDriver, Assured!DriverNoShow,
     Assured!Forfeit, Assured!CancelByAdmin, Assured!Depart, Assured!Start,
              Assured!Complete, Assured!Over, Assured!vars, Assured!Open
<1> QED BY <1>1, <1>2, Zenon DEF Assured!Next

\* Whatever comes in after a ride ended, from the driver, a rider or support,
\* leaves the ride and its deposits as they are, and takes no row back.
THEOREM EndsAreFinal == Assured!Spec => Assured!EndIsFinal
<1> DEFINE Final == /\ assuredLedger \subseteq assuredLedger'
                    /\ assuredRide.status \in {"COMPLETED", "CANCELLED"} =>
                         assuredRide' = assuredRide /\ driverHold' = driverHold /\
                           riderHold' = riderHold
<1>1. [Assured!Next]_(Assured!vars) => [Final]_(Assured!vars)
  BY StepIsFinal
<1> QED BY <1>1, PTL DEF Assured!Spec, Assured!EndIsFinal

-----------------------------------------------------------------------------
(* All kinds of rides.  One kind takes steps and the others stay as they   *)
(* were, so that each keeps its own invariant.                             *)

tripsVars == <<kind, vars, regularVars, assuredVars, termsVars>>

TripsInv == CommuteInv /\ Regular!RegularInv /\ Assured!SettlementInv /\ Terms!TermsInv

\* A step of the composition is a step of its parts, each of which may stay.
LEMMA TripsStep ==
  [TripsNext]_tripsVars =>
    /\ [Next]_vars /\ [Regular!Next]_(Regular!vars)
    /\ [Assured!Next]_(Assured!vars) /\ [Terms!Next]_(Terms!termsVars)
BY DEF TripsNext, tripsVars, regularVars, assuredVars, termsVars,
  Regular!vars, Regular!claims, Assured!vars, Terms!termsVars

\* TripsInv is inductive.
LEMMA TripsInvariant == TripsSpec => []TripsInv
<1>1. TripsInit => TripsInv
  BY CommuteInit, RegularParameters, RegularInit, AssuredParameters, InitSettlementInv,
     TermsParameters, InitTermsInv
  DEF TripsInit, TripsInv
<1>2. TripsInv /\ [TripsNext]_tripsVars => TripsInv'
  BY TripsStep, CommuteStep, RegularParameters, RegularStep, AssuredParameters,
     NextSettlementInv, TermsParameters, StepKeepsTermsInv
  DEF TripsInv
<1> QED BY <1>1, <1>2, PTL DEF TripsSpec, tripsVars

\* rides.service.ts, completion: a driver of a Regular ride is credited only for
\* passengers it took along, whichever rides run beside it.
THEOREM TripCreditsAreEarned == TripsSpec => []CreditsAreEarned
<1>1. TripsInv => CreditsAreEarned
  BY DEF TripsInv, Regular!RegularInv, Regular!BookingsInv, CreditsAreEarned
<1> QED BY <1>1, TripsInvariant, PTL

\* bookings.service.ts: however often a request is sent and whatever is cancelled
\* in between, a key makes one booking, a passenger has one live booking of a
\* ride, and a Regular ride has exactly the seats left that these do not take.
THEOREM TripsBookOnce == TripsSpec => []OneBookingEach
<1>1. TripsInv => OneBookingEach
  BY InvOneBookingEach DEF TripsInv, Regular!RegularInv, Terms!TermsInv, OneBookingEach
<1> QED BY <1>1, TripsInvariant, PTL

\* assured-lifecycle.service.ts and the deposit penalty: a deposit is held as long
\* as what it secures is open, a penalty is worked off by the booking charged for
\* it, and a voucher makes one later booking free.
THEOREM TripHoldsEnd == TripsSpec => []HoldsEndWithTheRide
<1>1. TripsInv => HoldsEndWithTheRide
  BY DEF TripsInv, Assured!SettlementInv, Terms!TermsInv, HoldsEndWithTheRide
<1> QED BY <1>1, TripsInvariant, PTL

\* assured-settlement.service.ts: a forfeited deposit is paid out to the last
\* point, and the fare goes one way, rounding and the platform's points included.
THEOREM TripForfeitsArePaidOut == TripsSpec => []ForfeitsArePaidOut
<1>1. TripsInv => ForfeitsArePaidOut
  BY AssuredParameters, InvPaysOut, InvGoesOneWay DEF TripsInv, ForfeitsArePaidOut
<1> QED BY <1>1, TripsInvariant, PTL

\* What a driver is shown of an Assured ride that is over is what it earned.
THEOREM TripEarningsAgree == TripsSpec => []EarningsAgree
<1>1. TripsInv => EarningsAgree
  BY AssuredParameters, InvEarningsAgree DEF TripsInv, EarningsAgree
<1> QED BY <1>1, TripsInvariant, PTL

\* assured-lifecycle.service.ts: once an Assured ride is over no request of its
\* driver, its riders or support changes it or its deposits, or takes a ledger
\* row back.
THEOREM TripEndIsFinal == TripsSpec => EndIsFinal
<1> DEFINE Final == /\ assuredLedger \subseteq assuredLedger'
                    /\ assuredRide.status \in {"COMPLETED", "CANCELLED"} =>
                         /\ assuredRide' = assuredRide
                         /\ driverHold' = driverHold /\ riderHold' = riderHold
<1>1. [TripsNext]_tripsVars => [Final]_(Assured!vars)
  BY TripsStep, StepIsFinal
<1> QED BY <1>1, PTL DEF TripsSpec, tripsVars, EndIsFinal, Assured!EndIsFinal

=============================================================================
