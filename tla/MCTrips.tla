------------------------------ MODULE MCTrips ------------------------------
(***************************************************************************)
(* The three kinds of rides and the points paid for them: an Office        *)
(* Commute, a Regular ride, an Assured ride, and what a passenger leaves   *)
(* as deposit from one Assured ride to the next.  The initial states       *)
(* choose what runs, the variables of the others keep still, so that a     *)
(* property is asked of what runs.                                         *)
(***************************************************************************)
EXTENDS CommuteRide

(***************************************************************************)
(* Commute: three requests for a ride of up to two seats; the third is a   *)
(* second request of the first rider, who may come back after a            *)
(* cancellation, or, in the run about coupons, one of a third rider.       *)
(***************************************************************************)
TwoRiders == <<"p1", "p2", "p1">>
ThreeRiders == <<"p1", "p2", "p3">>
OneAndTwoSeats == <<1, 2, 1>>
SeatEach == <<1, 1, 1>>

CONSTANTS Kinds, \* which of "commute", "regular", "assured" and "terms" are checked
          RegularN, RegularAsked, RegularPoints, RegularPrice, RegularSeats, \* of RegularRide
          AssuredN, AssuredKind, AssuredPrice, AssuredSeats,                 \* of AssuredSettlement
          DriverDeposit, RiderDeposit, Float,
          TermsAsked, FareAmount, Discount, Usual                            \* of DepositTerms

VARIABLES kind,
          regularRide, regularDeparted, requested, pc, regularLedger, againstDriver, againstRiders,
          assuredRide, assuredDeparted, assured, driverHold, riderHold, assuredLedger,
          stage, rate, booking, boarded, penalty, vouchers

(***************************************************************************)
(* Regular: requests of two passengers for a ride of up to three seats: a  *)
(* PAY_NOW request of the first, its retry under the same key, a PAY_LATER *)
(* request of the same passenger, and the other one's PAY_LATER request.   *)
(* The first passenger can pay for two seats, the second for one.          *)
(***************************************************************************)
Ask(passenger, method, key, seats) ==
  [passenger |-> passenger, method |-> method, key |-> key, seats |-> seats]

FourRequests == <<Ask("p1", "PAY_NOW", "k1", 1), Ask("p1", "PAY_NOW", "k1", 1),
                  Ask("p1", "PAY_LATER", "none", 1), Ask("p2", "PAY_LATER", "none", 2)>>
TwoWallets == [p1 |-> 4, p2 |-> 2]

Regular == INSTANCE RegularRide WITH
  N <- RegularN, Asked <- RegularAsked, Points <- RegularPoints,
  Price <- RegularPrice, MaxSeats <- RegularSeats,
  ride <- regularRide, departed <- regularDeparted, bookings <- requested,
  ledger <- regularLedger, driverClaim <- againstDriver, riderClaims <- againstRiders

ASSUME RegularParameters == Regular!Parameters

(***************************************************************************)
(* Assured: bookings of different kinds, one more than the ride has seats, *)
(* so that the last waits until another has left.  Deposits and price are  *)
(* odd, so that every share is rounded, and the platform has too little    *)
(* for two partial fills unless a deposit was forfeited to it.             *)
(***************************************************************************)
FourKinds == <<"NOW", "LATER", "NOW", "REGULAR">>

Assured == INSTANCE AssuredSettlement WITH
  N <- AssuredN, Kind <- AssuredKind, Price <- AssuredPrice, Seats <- AssuredSeats,
  ride <- assuredRide, departed <- assuredDeparted, bookings <- assured,
  ledger <- assuredLedger

ASSUME AssuredParameters == Assured!Parameters

(***************************************************************************)
(* Deposits: a request of a passenger with a coupon for the deposit and    *)
(* its retry, and two requests for another ride, one with a coupon for the *)
(* fare, which is paid at once.                                            *)
(***************************************************************************)
SeatOn(on, key, method, charge) ==
  [ride |-> on, key |-> key, method |-> method, charge |-> charge]

TwoRides == <<SeatOn(1, "k1", "LATER", "deposit"), SeatOn(1, "k1", "LATER", "deposit"),
              SeatOn(2, "k2", "NOW", "fare"), SeatOn(2, "k3", "LATER", "none")>>

Terms == INSTANCE DepositTerms WITH Asked <- TermsAsked, ride <- boarded

ASSUME TermsParameters == Terms!Parameters

regularVars ==
  <<regularRide, regularDeparted, requested, pc, regularLedger, againstDriver, againstRiders>>
assuredVars == <<assuredRide, assuredDeparted, assured, driverHold, riderHold, assuredLedger>>
termsVars == <<stage, rate, booking, boarded, penalty, vouchers>>

TripsInit ==
  /\ kind \in Kinds
  /\ Init /\ Regular!Init /\ Assured!Init /\ Terms!Init
  /\ kind # "commute" => ride.total = 1
  /\ kind # "regular" => regularRide.total = 1

TripsNext ==
  /\ UNCHANGED kind
  /\ \/ kind = "commute" /\ Next /\ UNCHANGED <<regularVars, assuredVars, termsVars>>
     \/ kind = "regular" /\ Regular!Next /\ UNCHANGED <<vars, assuredVars, termsVars>>
     \/ kind = "assured" /\ Assured!Next /\ UNCHANGED <<vars, regularVars, termsVars>>
     \/ kind = "terms" /\ Terms!Next /\ UNCHANGED <<vars, regularVars, assuredVars>>

TripsSpec == TripsInit /\ [][TripsNext]_<<kind, vars, regularVars, assuredVars, termsVars>>

-----------------------------------------------------------------------------
\* A driver of a Regular ride is credited only for whom it took along.
CreditsAreEarned == kind = "regular" => Regular!CreditsAreEarned

\* A passenger has one live booking of a ride, a key makes one booking, and a
\* Regular ride has exactly the seats left that these do not take.
OneBookingEach ==
  /\ kind = "regular" => Regular!OneBookingEach /\ Regular!SeatsExact
  /\ kind = "terms" => Terms!OneBookingPerKey

\* A deposit is on hold exactly as long as what it secures is open; a raised
\* one is worked off by the booking charged for it, a voucher makes one free.
HoldsEndWithTheRide ==
  /\ kind = "assured" => Assured!HoldsEndWithTheRide
  /\ kind = "terms" => Terms!PenaltyIsWorkedOff /\ Terms!VouchersCountOnce

\* A forfeited deposit is paid out to the last point, a released one to nobody,
\* and the fare of an Assured ride is earned, split or returned, one of the three.
ForfeitsArePaidOut ==
  kind = "assured" => Assured!ForfeitsArePaidOut /\ Assured!FareGoesOneWay

\* What a driver is shown of an Assured ride that is over is what it earned.
EarningsAgree == kind = "assured" => Assured!EarningsAgree

\* How an Assured ride ended is final: holds, fares and ledger rows stay.
EndIsFinal == Assured!EndIsFinal

=============================================================================
