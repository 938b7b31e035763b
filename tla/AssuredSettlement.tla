------------------------- MODULE AssuredSettlement -------------------------
(***************************************************************************)
(* The money of one Assured ride: src/src/assured/                         *)
(* assured-lifecycle.service.ts (cancellations, no-shows, partial fill,    *)
(* half-time policy), createAssuredDepositBooking of bookings.service.ts,  *)
(* the completion in rides.service.ts with fare-settlement.service.ts, and *)
(* the admin's cancellation.                                               *)
(*                                                                         *)
(* The driver and each Assured rider leave a deposit on hold; a rider may  *)
(* pay the fare at once (NOW) or after the ride (LATER), and a REGULAR     *)
(* rider, whom the driver may let on board after half-time, pays at once.  *)
(* How a ride ends decides who gets the deposits and the fares.  Every     *)
(* transaction locks the ride first, so each is one action.  Which ride of *)
(* a queue is on offer is AssuredQueue's.                                  *)
(***************************************************************************)
EXTENDS Sums

CONSTANTS N,             \* bookings 1..N of one seat each, in order of creation
          Kind,          \* booking |-> "NOW", "LATER" or "REGULAR"
          Price,         \* points per seat
          DriverDeposit, RiderDeposit,
          Seats,         \* seats of the ride
          Float          \* points of the platform wallet at the start

Bookings == 1..N

VARIABLES ride,       \* the rides row; filled: seats compensated by partial fill
          departed,   \* the departure time and the no-show grace are over
          bookings,   \* booking |-> its bookings row
          driverHold, \* the driver's deposit
          riderHold,  \* booking |-> the rider's deposit
          ledger      \* wallet_transactions about the ride, one per key

vars == <<ride, departed, bookings, driverHold, riderHold, ledger>>

NoBooking == [status |-> "NONE", payment |-> "UNPAID", picked |-> FALSE]

Init ==
  /\ ride = [status |-> "ACTIVE", available |-> Seats, policy |-> "OPEN", filled |-> 0]
  /\ departed = FALSE
  /\ bookings = [b \in Bookings |-> NoBooking]
  /\ driverHold = "ACTIVE"
  /\ riderHold = [b \in Bookings |-> "NONE"]
  /\ ledger = {}

-----------------------------------------------------------------------------
(* Amounts and rows of the ledger.  Booking 0 stands for the ride.         *)

\* percentOfAmountHalfUp
Percent(amount, p) == (amount * p + 50) \div 100

Row(kind, b, amount) == [kind |-> kind, booking |-> b, amount |-> amount]

Rows(kinds) == {row \in ledger : row.kind \in kinds}
RowsOf(b) == {row \in ledger : row.booking = b}

\* What the platform wallet holds.
PlatformBalance ==
  Float + AmountOf(Rows({"forfeit", "no-show-deposit", "cancel-fare-platform"}))
        - AmountOf(Rows({"fill"}))

Assured(b) == Kind[b] # "REGULAR"
Active == {b \in Bookings : bookings[b].status = "CONFIRMED"}
Open == ride.status \in {"ACTIVE", "IN_PROGRESS"}

PaidNow(b) == Kind[b] \in {"NOW", "REGULAR"} /\ bookings[b].payment = "PAID"
Smaller(m, n) == IF m <= n THEN m ELSE n

\* distributeEvenlyWithRemainder: the first riders get one point more.
ShareOf(b, total, S) ==
  LET rank == Cardinality({c \in S : c <= b}) IN
  (total \div Cardinality(S)) + (IF rank <= total % Cardinality(S) THEN 1 ELSE 0)

\* The seats a partial fill still pays for: two per ride.
SeatsToFill(empty) ==
  IF ride.policy = "ALLOW" THEN 0 ELSE Smaller(empty, 2 - ride.filled)

\* Half the price of the seats, at most 700.
FillAmount(n) == Smaller(Percent(n * Price, 50), 700)

\* A fill the platform cannot pay aborts the transaction that asks for it.
FillCovered(b, empty, rows) ==
  FillAmount(SeatsToFill(empty)) <=
    PlatformBalance + AmountOf({row \in rows : row.kind = "no-show-deposit"})

FillRows(b, empty) ==
  IF FillAmount(SeatsToFill(empty)) = 0 THEN {}
  ELSE {Row("fill", b, FillAmount(SeatsToFill(empty)))}

\* The bookings in S end; those in refunded get their fare back.
Cancelled(S, refunded) ==
  [b \in Bookings |->
     IF b \notin S THEN bookings[b]
     ELSE [bookings[b] EXCEPT !.status = "CANCELLED",
                              !.payment = IF b \in refunded THEN "REFUNDED" ELSE @]]

-----------------------------------------------------------------------------
(* Booking.                                                                *)

Book(b) ==
  /\ ride.status = "ACTIVE" /\ ~departed /\ ride.available > 0
  /\ bookings[b] = NoBooking /\ \A c \in 1..(b - 1) : bookings[c] # NoBooking
  /\ Assured(b) \/ ride.policy = "ALLOW"
  /\ bookings' = [bookings EXCEPT ![b] =
       [status |-> "CONFIRMED", picked |-> FALSE,
        payment |-> IF Kind[b] = "LATER" THEN "UNPAID" ELSE "PAID"]]
  /\ riderHold' = [riderHold EXCEPT ![b] = IF Assured(b) THEN "ACTIVE" ELSE "NONE"]
  /\ ledger' = IF Kind[b] = "LATER" THEN ledger ELSE ledger \cup {Row("fare", b, Price)}
  /\ ride' = [ride EXCEPT !.available = @ - 1]
  /\ UNCHANGED <<departed, driverHold>>

\* The half-time decision is taken once, before a REGULAR booking.
DecideRegularSeats(policy) ==
  /\ ride.status = "ACTIVE" /\ ride.policy = "OPEN"
  /\ ride' = [ride EXCEPT !.policy = policy]
  /\ UNCHANGED <<departed, bookings, driverHold, riderHold, ledger>>

-----------------------------------------------------------------------------
(* A rider leaves.                                                         *)

SeatBack == [ride EXCEPT !.available = Smaller(Seats, @ + 1)]

\* The deposit goes to the driver, a fare paid at once is split 30 to 70.
CancelByAssuredRider(b) ==
  LET toDriver == Percent(Price, 30)
      fareRows == IF PaidNow(b)
                  THEN {Row("cancel-fare-driver", b, toDriver),
                        Row("cancel-fare-platform", b, Price - toDriver)}
                  ELSE {}
  IN
  /\ Open /\ ~departed /\ b \in Active /\ Assured(b)
  /\ riderHold' = [riderHold EXCEPT ![b] = "CONSUMED"]
  /\ ledger' = ledger \cup {Row("cancel-deposit", b, RiderDeposit)} \cup fareRows
  /\ bookings' = Cancelled({b}, {})
  /\ ride' = SeatBack
  /\ UNCHANGED <<departed, driverHold>>

CancelByRegularRider(b) ==
  /\ Open /\ b \in Active /\ ~Assured(b)
  /\ ledger' = ledger \cup {Row("refund", b, Price)}
  /\ bookings' = Cancelled({b}, {b})
  /\ ride' = SeatBack
  /\ UNCHANGED <<departed, driverHold, riderHold>>

\* The deposit goes to the platform, which pays the driver for the seat.
RiderNoShow(b) ==
  LET deposit == {Row("no-show-deposit", b, RiderDeposit)} IN
  /\ Open /\ departed /\ b \in Active /\ Assured(b) /\ ~bookings[b].picked
  /\ FillCovered(b, 1, deposit)
  /\ riderHold' = [riderHold EXCEPT ![b] = "CONSUMED"]
  /\ ledger' = ledger \cup deposit \cup FillRows(b, 1)
  /\ bookings' = Cancelled({b}, {})
  /\ ride' = [SeatBack EXCEPT !.filled = @ + SeatsToFill(1)]
  /\ UNCHANGED <<departed, driverHold>>

-----------------------------------------------------------------------------
(* The driver fails the riders, or support ends the ride.                  *)

\* Mutant: the riders' part is the sum of rounded parts.
ForfeitRounded ==
  LET riders == {b \in Active : Assured(b)} IN
  {Row("compensation", b, Percent(DriverDeposit, 60) \div Cardinality(riders)) : b \in riders}
    \cup {Row("forfeit", 0, DriverDeposit - Percent(DriverDeposit, 60))}

\* The driver's deposit: 60 percent to the riders, all to the platform without
\* any.
ForfeitRows ==
  LET riders == {b \in Active : Assured(b)}
      share == IF riders = {} THEN 0 ELSE Percent(DriverDeposit, 60)
  IN {Row("compensation", b, ShareOf(b, share, riders)) : b \in riders}
       \cup {Row("forfeit", 0, DriverDeposit - share)}

\* Mutant: only the deposits of riders who paid at once are released.
ReleaseSome == [b \in Bookings |-> IF b \in Active /\ PaidNow(b) /\ riderHold[b] = "ACTIVE"
                                    THEN "RELEASED" ELSE riderHold[b]]

ReleaseRiders == [b \in Bookings |-> IF b \in Active /\ riderHold[b] = "ACTIVE"
                                    THEN "RELEASED" ELSE riderHold[b]]

\* A REGULAR rider's fare is not returned, whichever way the driver fails.
Forfeit(refunded) ==
  /\ driverHold' = "CONSUMED"
  /\ riderHold' = ReleaseRiders
  /\ ledger' = ledger \cup ForfeitRows \cup {Row("refund", b, Price) : b \in refunded}
  /\ bookings' = Cancelled(Active, {})
  /\ ride' = [ride EXCEPT !.status = "CANCELLED",
                          !.available = Smaller(Seats, @ + Cardinality(Active))]
  /\ UNCHANGED departed

CancelByDriver ==
  /\ ride.status = "ACTIVE" /\ ~departed
  /\ Forfeit({b \in Active : Kind[b] = "NOW"})

\* A rider with an Assured booking reported it; fares stay where they are.
DriverNoShow ==
  /\ Open /\ departed /\ \E b \in Active : Assured(b) /\ ~bookings[b].picked
  /\ Forfeit({})

\* Mutant: the status of the ride is not looked at again under the lock.
CancelAnyRide ==
  /\ driverHold' = "RELEASED"
  /\ ride' = [ride EXCEPT !.status = "CANCELLED"]
  /\ UNCHANGED <<departed, bookings, riderHold, ledger>>

\* The driver's hold and those of the riders who are still there; the amounts go
\* back to the wallets they came from.
releaseAssuredHolds == driverHold' = "RELEASED" /\ riderHold' = ReleaseRiders

\* Nobody forfeits a deposit; fares return unless the ride is on its way.
CancelByAdmin ==
  LET refunded == IF ride.status = "ACTIVE" THEN {b \in Active : PaidNow(b)} ELSE {} IN
  /\ Open
  /\ releaseAssuredHolds
  /\ ledger' = ledger \cup {Row("refund", b, Price) : b \in refunded}
  /\ bookings' = Cancelled(Active, refunded)
  /\ ride' = [ride EXCEPT !.status = "CANCELLED",
                          !.available = Smaller(Seats, @ + Cardinality(Active))]
  /\ UNCHANGED departed

-----------------------------------------------------------------------------
(* The trip.                                                               *)

Depart ==
  /\ ~departed /\ departed' = TRUE
  /\ UNCHANGED <<ride, bookings, driverHold, riderHold, ledger>>

Start ==
  /\ ride.status = "ACTIVE"
  /\ ride' = [ride EXCEPT !.status = "IN_PROGRESS"]
  /\ UNCHANGED <<departed, bookings, driverHold, riderHold, ledger>>

VerifyPickup(b) ==
  /\ ride.status = "IN_PROGRESS" /\ b \in Active /\ ~bookings[b].picked
  /\ bookings' = [bookings EXCEPT ![b].picked = TRUE]
  /\ UNCHANGED <<ride, departed, driverHold, riderHold, ledger>>

\* The fares the driver gets at completion.
Earned == {b \in Active : PaidNow(b)}

\* Everyone is on board: fares to the driver, deposits back, empty seats filled.
Complete ==
  /\ ride.status = "IN_PROGRESS" /\ \A b \in Active : bookings[b].picked
  /\ FillCovered(0, ride.available, {})
  /\ driverHold' = "RELEASED"
  /\ riderHold' = ReleaseRiders
  /\ ledger' = ledger \cup {Row("earned", b, Price) : b \in Earned}
                      \cup FillRows(0, ride.available)
  /\ bookings' = [b \in Bookings |-> IF b \in Active
       THEN [bookings[b] EXCEPT !.status = "COMPLETED"] ELSE bookings[b]]
  /\ ride' = [ride EXCEPT !.status = "COMPLETED",
                          !.filled = @ + SeatsToFill(ride.available)]
  /\ UNCHANGED departed

\* A LATER fare is paid, from the wallet or in cash, once the ride is completed.
PayLater(b) ==
  /\ Kind[b] = "LATER" /\ bookings[b].status = "COMPLETED"
  /\ bookings[b].payment = "UNPAID"
  /\ bookings' = [bookings EXCEPT ![b].payment = "PAID"]
  /\ \/ ledger' = ledger \cup {Row("fare", b, Price), Row("earned", b, Price)}
     \/ UNCHANGED ledger
  /\ UNCHANGED <<ride, departed, driverHold, riderHold>>

-----------------------------------------------------------------------------
(* What the driver is told to have earned.                                 *)

\* Mutant: the fare of a booking counts however it ended.
FaresOfAll == Price * Cardinality({b \in Bookings : bookings[b].status # "NONE"})

\* The fares in the history of rides come from the bookings.
calculateHistoryEarnings == Price * Cardinality({b \in Bookings : bookings[b].status = "COMPLETED"})

\* The rest comes from the ledger.
loadRideDriverBonusEarnings == AmountOf(Rows({"fill", "cancel-deposit", "cancel-fare-driver"}))

findHistoryDetail ==
  IF Open THEN 0 ELSE calculateHistoryEarnings + loadRideDriverBonusEarnings

\* The earnings over all rides come from the ledger alone.
getLifetimeEarnings == AmountOf(Rows({"earned", "cancel-deposit", "cancel-fare-driver", "fill"}))

-----------------------------------------------------------------------------
\* The ride is over and no fare is owed.
Over ==
  /\ ~Open /\ departed
  /\ \A b \in Bookings : bookings[b].status = "COMPLETED" => bookings[b].payment = "PAID"
  /\ UNCHANGED vars

Next ==
  \/ \E b \in Bookings :
       \/ Book(b) \/ CancelByAssuredRider(b) \/ CancelByRegularRider(b) \/ RiderNoShow(b)
       \/ VerifyPickup(b) \/ PayLater(b)
  \/ \E policy \in {"ALLOW", "KEEP"} : DecideRegularSeats(policy)
  \/ CancelByDriver \/ DriverNoShow \/ CancelByAdmin
  \/ Depart \/ Start \/ Complete \/ Over

Spec == Init /\ [][Next]_vars

-----------------------------------------------------------------------------
(* Properties.                                                             *)

RideRows == [status : {"ACTIVE", "IN_PROGRESS", "COMPLETED", "CANCELLED"},
             available : 0..Seats, policy : {"OPEN", "ALLOW", "KEEP"}, filled : 0..2]
BookingRows == [status : {"NONE", "CONFIRMED", "COMPLETED", "CANCELLED"},
                payment : {"UNPAID", "PAID", "REFUNDED"}, picked : BOOLEAN]

Shaped ==
  /\ ride \in RideRows
  /\ departed \in BOOLEAN
  /\ bookings \in [Bookings -> BookingRows]
  /\ driverHold \in {"ACTIVE", "RELEASED", "CONSUMED"}
  /\ riderHold \in [Bookings -> {"NONE", "ACTIVE", "RELEASED", "CONSUMED"}]

\* The rows stay within their domains; a seat is never sold or restored twice.
TypeOK == Shaped /\ \A row \in ledger : row.booking \in 0..N /\ row.amount \in Nat

\* A deposit is on hold exactly as long as what it secures is open, however the
\* ride or the booking ends.
HoldsEndWithTheRide ==
  /\ driverHold = "ACTIVE" <=> Open
  /\ \A b \in Bookings : riderHold[b] = "ACTIVE" <=> b \in Active /\ Assured(b)

\* A forfeited deposit is paid out to the last point, rounding included, and a
\* released one is paid out to nobody.
ForfeitsArePaidOut ==
  /\ AmountOf(Rows({"forfeit", "compensation"})) =
       IF driverHold = "CONSUMED" THEN DriverDeposit ELSE 0
  /\ \A b \in Bookings :
       AmountOf(RowsOf(b) \cap Rows({"cancel-deposit", "no-show-deposit"})) =
         IF riderHold[b] = "CONSUMED" THEN RiderDeposit ELSE 0

\* Out of a fare nobody gets more than the rider paid: it is earned, split or
\* returned, one of the three.
FareGoesOneWay ==
  \A b \in Bookings :
    AmountOf(RowsOf(b) \cap Rows({"earned", "refund", "cancel-fare-driver",
                               "cancel-fare-platform"}))
      <= AmountOf(RowsOf(b) \cap Rows({"fare"}))

\* The two reckonings of a driver's earnings agree on a ride that is over, but
\* for fares that are paid in cash or still owed.
EarningsAgree ==
  ~Open => findHistoryDetail = getLifetimeEarnings +
    Price * Cardinality({b \in Bookings : /\ bookings[b].status = "COMPLETED"
                                          /\ RowsOf(b) \cap Rows({"earned"}) = {}})

\* How a ride ended is final: holds, refunded fares and ledger rows stay.
EndIsFinal ==
  [][/\ ledger \subseteq ledger'
     /\ ride.status \in {"COMPLETED", "CANCELLED"} =>
          ride' = ride /\ driverHold' = driverHold /\ riderHold' = riderHold]_vars

-----------------------------------------------------------------------------
(* What the proofs about an Assured ride in TripsProofs rest on: how far  *)
(* every row of the ledger tells what happened to its booking, and the     *)
(* other way round.                                                        *)

\* What a ride is set up with: whole points and seats, and three kinds of riders.
Parameters ==
  /\ N \in Nat /\ Price \in Nat /\ Seats \in Nat
  /\ DriverDeposit \in Nat /\ RiderDeposit \in Nat /\ Float \in Nat
  /\ \A b \in Bookings : Kind[b] \in {"NOW", "LATER", "REGULAR"}

SplitKinds == {"cancel-fare-driver", "cancel-fare-platform"}
SpentKinds == {"earned", "refund"} \cup SplitKinds
DepositKinds == {"cancel-deposit", "no-show-deposit"}
ForfeitKinds == {"forfeit", "compensation"}
RiderKinds == {"fare", "compensation"} \cup SpentKinds \cup DepositKinds
RowKinds == {"fill", "forfeit"} \cup RiderKinds

FareRow(b) == Row("fare", b, Price)

\* A row is of a booking to which what it was written for did happen.
RowFits(row) ==
  /\ row \in [kind : RowKinds, booking : 0..N, amount : Nat]
  /\ row.kind \in RiderKinds => row.booking \in Bookings
  /\ row.kind \in {"fare", "earned", "refund"} => row.amount = Price
  /\ row.kind = "cancel-fare-driver" => row.amount = Percent(Price, 30)
  /\ row.kind = "cancel-fare-platform" => row.amount = Price - Percent(Price, 30)
  /\ row.kind \in DepositKinds => row.amount = RiderDeposit
  /\ row.kind = "earned" => bookings[row.booking].status = "COMPLETED"
  /\ row.kind \in {"refund"} \cup SplitKinds => bookings[row.booking].status = "CANCELLED"
  /\ row.kind \in SpentKinds => FareRow(row.booking) \in ledger
  /\ row.kind \in DepositKinds => riderHold[row.booking] = "CONSUMED"
  /\ row.kind \in ForfeitKinds => driverHold = "CONSUMED"

RowsFit == IsFiniteSet(ledger) /\ \A row \in ledger : RowFits(row)

\* The one fate of a fare and of a deposit excludes the other.
FatesExclude ==
  \A r \in ledger : \A s \in ledger :
    r.booking = s.booking =>
      /\ r.kind = "refund" => s.kind \notin SplitKinds
      /\ r.kind = "cancel-deposit" => s.kind # "no-show-deposit"

\* A booking has no hold before it is made, has its fare in the ledger if that
\* was to be paid at once, and its deposit if that was taken.
BookingsFit ==
  \A b \in Bookings :
    /\ bookings[b].status = "NONE" => riderHold[b] = "NONE"
    /\ bookings[b].status # "NONE" /\ Kind[b] # "LATER" => FareRow(b) \in ledger
    /\ riderHold[b] = "CONSUMED" => \E kind \in DepositKinds : Row(kind, b, RiderDeposit) \in ledger

DriverForfeits ==
  driverHold = "CONSUMED" => AmountOf(Rows(ForfeitKinds)) = DriverDeposit

SettlementInv ==
  TypeOK /\ HoldsEndWithTheRide /\ RowsFit /\ FatesExclude /\ BookingsFit /\ DriverForfeits

\* No end is undone: of a booking, of a rider's deposit, of the driver's.
EndsStay ==
  /\ \A b \in Bookings :
       /\ bookings[b].status \in {"COMPLETED", "CANCELLED"} =>
            bookings'[b].status = bookings[b].status
       /\ riderHold[b] = "CONSUMED" => riderHold'[b] = "CONSUMED"
  /\ driverHold = "CONSUMED" => driverHold' = "CONSUMED"

\* A booking begins with its fare and without a hold, a deposit is taken with a row.
BookingsMove(new) ==
  \A b \in Bookings :
    /\ bookings'[b].status = "NONE" => bookings[b].status = "NONE" /\ riderHold'[b] = riderHold[b]
    /\ bookings[b].status = "NONE" /\ bookings'[b].status # "NONE" /\ Kind[b] # "LATER" =>
         FareRow(b) \in new
    /\ riderHold'[b] = "CONSUMED" /\ riderHold[b] # "CONSUMED" =>
         \E kind \in DepositKinds : Row(kind, b, RiderDeposit) \in new

\* A fare or a deposit that is paid out was still there.
RowsMove(new) ==
  /\ IsFiniteSet(new) /\ \A row \in new : RowFits(row)'
  /\ \A r \in new :
       /\ r.kind \in {"refund"} \cup SplitKinds => bookings[r.booking].status = "CONFIRMED"
       /\ r.kind \in DepositKinds => riderHold[r.booking] # "CONSUMED"
  /\ \A r \in new : \A s \in new :
       r.booking = s.booking =>
         /\ r.kind = "refund" => s.kind \notin SplitKinds
         /\ r.kind = "cancel-deposit" => s.kind # "no-show-deposit"

=============================================================================
