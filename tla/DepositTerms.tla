---------------------------- MODULE DepositTerms ----------------------------
(***************************************************************************)
(* What a passenger leaves as deposit for an Assured booking: src/src/     *)
(* assured/passenger-assured-deposit-penalty.service.ts, the vouchers of   *)
(* assured-lifecycle.service.ts and createAssuredDepositBooking of         *)
(* bookings.service.ts.                                                    *)
(*                                                                         *)
(* Whoever cancels an Assured booking pays a higher rate on the next one,  *)
(* until a booking charged at that rate is completed; whoever was let down *)
(* gets a voucher for a free deposit.  One passenger asks for seats on     *)
(* several rides at once.  A booking locks its ride, reads the rate, and   *)
(* locks the wallet only then; from there to its commit no other booking   *)
(* of the passenger gets in between.  The points of the driver and of the  *)
(* platform are AssuredSettlement's, catalog coupons those of Coupons: of  *)
(* a catalog coupon a discount of the deposit or of the fare is left.      *)
(***************************************************************************)
EXTENDS Naturals, Sequences

CONSTANTS Asked,    \* requests: ride, key, method ("NOW" or "LATER") and charge,
                    \* what a catalog coupon is for: "none", "deposit" or "fare"
          FareAmount,     \* price of the seats asked for
          Discount, \* of a catalog coupon
          Usual     \* the percentage in the settings

Elevated == 10 \* PASSENGER_CANCEL_ELEVATED_DEPOSIT_PERCENT

Requests == DOMAIN Asked
Rides == {Asked[i].ride : i \in Requests}

VARIABLES stage,    \* how far a request is: "new", "checked", "quoted" or over
          rate,     \* the rate a request has read
          booking,  \* the bookings row a request made
          ride,     \* ride |-> "OPEN", "DEPARTED" or "OVER"
          penalty,  \* the passenger's passenger_assured_deposit_penalties row
          vouchers  \* its user_coupons rows, in the order they were issued

termsVars == <<stage, rate, booking, ride, penalty, vouchers>>

NoBooking == [status |-> "NONE", rate |-> 0, deposit |-> 0, fare |-> 0, voucher |-> 0]
NoPenalty == [source |-> 0, consumedOn |-> 0, cleared |-> TRUE]

Init ==
  /\ stage = [i \in Requests |-> "new"] /\ rate = [i \in Requests |-> 0]
  /\ booking = [i \in Requests |-> NoBooking]
  /\ ride = [r \in Rides |-> "OPEN"]
  /\ penalty = NoPenalty /\ vouchers = <<>>

-----------------------------------------------------------------------------
(* The rate and its penalty.                                               *)

\* The quote is elevated while a penalty waits for its booking.
Quote ==
  IF ~penalty.cleared /\ penalty.consumedOn = 0 THEN Elevated ELSE Usual

\* calculateAssuredDepositAmount, rounded half up.
Deposit(percentage) == (FareAmount * percentage + 50) \div 100

\* markConsumedOnBooking, for a booking that was quoted the elevated rate.
Consumed(i) ==
  IF rate[i] = Elevated /\ ~penalty.cleared /\ penalty.consumedOn = 0
  THEN [penalty EXCEPT !.consumedOn = i] ELSE penalty

\* reopenIfConsumedBookingCancelled
Reopened(i) ==
  IF ~penalty.cleared /\ penalty.consumedOn = i
  THEN [penalty EXCEPT !.consumedOn = 0] ELSE penalty

\* applyCancellationPenalty: the passenger has one row, a cleared one is reused.
Penalised(row, i) ==
  IF ~row.cleared THEN row ELSE [source |-> i, consumedOn |-> 0, cleared |-> FALSE]

\* clearOnCompletedAssuredBooking, for the bookings that were completed.
ClearedBy(done) ==
  IF ~penalty.cleared /\ penalty.consumedOn \in done
  THEN [penalty EXCEPT !.cleared = TRUE] ELSE penalty

-----------------------------------------------------------------------------
(* Booking.                                                                *)

Live(i) == booking[i].status = "CONFIRMED"
LiveOn(r) == {i \in Requests : Asked[i].ride = r /\ Live(i)}
Locked(r) == \E i \in Requests : Asked[i].ride = r /\ stage[i] = "quoted"

\* The booking a key was used for.
Known(key) == {i \in Requests : Asked[i].key = key /\ booking[i] # NoBooking}

\* A key belongs to one ride and one way to pay.
Matches(i, j) ==
  Asked[i].ride = Asked[j].ride /\ Asked[i].method = Asked[j].method

AnswerFrom(i, known) ==
  stage' = [stage EXCEPT ![i] =
    IF \A j \in known : Matches(i, j) THEN "answered" ELSE "refused"]

\* Before any lock the key is looked up.
Begin(i) ==
  /\ stage[i] = "new"
  /\ IF Known(Asked[i].key) # {} THEN AnswerFrom(i, Known(Asked[i].key))
     ELSE stage' = [stage EXCEPT ![i] = "checked"]
  /\ UNCHANGED <<rate, booking, ride, penalty, vouchers>>

\* A ride that has left and a second live booking are refused before the key
\* is looked up again under the lock; then the rate is read.
ReadQuote(i) ==
  LET r == Asked[i].ride IN
  /\ stage[i] = "checked" /\ ~Locked(r)
  /\ IF ride[r] # "OPEN" \/ LiveOn(r) # {}
     THEN stage' = [stage EXCEPT ![i] = "refused"] /\ UNCHANGED rate
     ELSE IF Known(Asked[i].key) # {}
     THEN AnswerFrom(i, Known(Asked[i].key)) /\ UNCHANGED rate
     ELSE stage' = [stage EXCEPT ![i] = "quoted"] /\ rate' = [rate EXCEPT ![i] = Quote]
  /\ UNCHANGED <<booking, ride, penalty, vouchers>>

\* lockUnusedDepositCoupon: the oldest voucher that was not used, 0 for none.
Unused == {v \in DOMAIN vouchers : vouchers[v].usedOn = 0}
Oldest == IF Unused = {} THEN 0 ELSE CHOOSE v \in Unused : \A w \in Unused : v <= w

Less(amount) == IF amount > Discount THEN amount - Discount ELSE 0

\* A coupon for the deposit is no use with a voucher, one for the fare needs a
\* fare that is paid at once.
CouponFits(i) ==
  /\ Asked[i].charge = "deposit" => Oldest = 0
  /\ Asked[i].charge = "fare" => Asked[i].method = "NOW"

Commit(i) ==
  LET full == IF Oldest = 0 THEN Deposit(rate[i]) ELSE 0
      fare == IF Asked[i].method = "NOW" THEN FareAmount ELSE 0
  IN
  /\ stage[i] = "quoted" /\ Known(Asked[i].key) = {} /\ CouponFits(i)
  /\ stage' = [stage EXCEPT ![i] = "answered"]
  /\ booking' = [booking EXCEPT ![i] =
       [status |-> "CONFIRMED", rate |-> rate[i], voucher |-> Oldest,
        deposit |-> IF Asked[i].charge = "deposit" THEN Less(full) ELSE full,
        fare |-> IF Asked[i].charge = "fare" THEN Less(fare) ELSE fare]]
  /\ vouchers' = [v \in DOMAIN vouchers |->
       IF v = Oldest THEN [vouchers[v] EXCEPT !.usedOn = i] ELSE vouchers[v]]
  /\ penalty' = Consumed(i)
  /\ UNCHANGED <<rate, ride>>

\* The wallet does not suffice, the coupon does not fit, or the key was used
\* for another ride meanwhile: nothing of the transaction is left.
Refuse(i) ==
  /\ stage[i] = "quoted"
  /\ stage' = [stage EXCEPT ![i] = "refused"]
  /\ UNCHANGED <<rate, booking, ride, penalty, vouchers>>

-----------------------------------------------------------------------------
(* How a booking ends.                                                     *)

End(S, how) ==
  [i \in Requests |-> IF i \in S THEN [booking[i] EXCEPT !.status = how] ELSE booking[i]]

\* issueDriverCancelCoupon and issueRiderNoShowCoupon: one voucher per booking.
Issued(S) ==
  vouchers \o (IF S = {} THEN <<>> ELSE <<[source |-> CHOOSE i \in S : TRUE, usedOn |-> 0]>>)

Depart(r) ==
  /\ ride[r] = "OPEN" /\ ~Locked(r)
  /\ ride' = [ride EXCEPT ![r] = "DEPARTED"]
  /\ UNCHANGED <<stage, rate, booking, penalty, vouchers>>

\* The penalty this booking had used is open again before it is asked for.
CancelByPassenger(i) ==
  LET r == Asked[i].ride IN
  /\ Live(i) /\ ride[r] = "OPEN" /\ ~Locked(r)
  /\ booking' = End({i}, "CANCELLED_BY_PASSENGER")
  /\ penalty' = Penalised(Reopened(i), i)
  /\ UNCHANGED <<stage, rate, ride, vouchers>>

\* A passenger who does not show up loses the deposit and gets a voucher.
RiderNoShow(i) ==
  LET r == Asked[i].ride IN
  /\ Live(i) /\ ride[r] = "DEPARTED" /\ ~Locked(r)
  /\ booking' = End({i}, "RIDER_NO_SHOW")
  /\ vouchers' = Issued({i})
  /\ UNCHANGED <<stage, rate, ride, penalty>>

\* The ride is over for everybody on it.
EndRide(r, how) ==
  /\ ~Locked(r)
  /\ ride' = [ride EXCEPT ![r] = "OVER"]
  /\ booking' = End(LiveOn(r), how)
  /\ UNCHANGED <<stage, rate>>

CancelByDriver(r) ==
  /\ ride[r] = "OPEN" /\ EndRide(r, "RIDE_CANCELLED")
  /\ vouchers' = Issued(LiveOn(r))
  /\ UNCHANGED penalty

\* No voucher when the driver does not show up or an administrator cancels.
DriverNoShow(r) ==
  /\ ride[r] = "DEPARTED" /\ EndRide(r, "DRIVER_NO_SHOW")
  /\ UNCHANGED <<penalty, vouchers>>

CancelByAdmin(r) ==
  /\ ride[r] # "OVER" /\ EndRide(r, "RIDE_CANCELLED")
  /\ UNCHANGED <<penalty, vouchers>>

CompleteRide(r) ==
  /\ ride[r] = "DEPARTED" /\ EndRide(r, "COMPLETED")
  /\ penalty' = ClearedBy(LiveOn(r))
  /\ UNCHANGED vouchers

\* All requests are answered and all rides are over.
Rest ==
  /\ \A r \in Rides : ride[r] = "OVER"
  /\ \A i \in Requests : stage[i] \in {"answered", "refused"}
  /\ UNCHANGED termsVars

Next ==
  \/ Rest
  \/ \E i \in Requests : Begin(i) \/ ReadQuote(i) \/ Commit(i) \/ Refuse(i)
                         \/ CancelByPassenger(i) \/ RiderNoShow(i)
  \/ \E r \in Rides : Depart(r) \/ CancelByDriver(r) \/ DriverNoShow(r)
                      \/ CancelByAdmin(r) \/ CompleteRide(r)

TermsSpec == Init /\ [][Next]_termsVars

-----------------------------------------------------------------------------
(* Properties.                                                             *)

\* Whatever bookings race: a penalty rests on a cancellation of the passenger's
\* own, hangs on no booking but one that was charged the elevated rate and that
\* the passenger did not cancel, and only the completion of that booking
\* clears it (getDepositQuote, markConsumedOnBooking, reopen, clear).
PenaltyIsWorkedOff ==
  penalty # NoPenalty =>
    /\ booking[penalty.source].status = "CANCELLED_BY_PASSENGER"
    /\ penalty.consumedOn # 0 =>
         /\ booking[penalty.consumedOn].rate = Elevated
         /\ booking[penalty.consumedOn].status # "CANCELLED_BY_PASSENGER"
         /\ penalty.cleared <=> booking[penalty.consumedOn].status = "COMPLETED"
    /\ penalty.cleared => penalty.consumedOn # 0

\* A voucher makes the deposit of one booking free, a later one than the booking
\* it was issued for, and a booking brings at most one voucher.
VouchersCountOnce ==
  /\ \A v \in DOMAIN vouchers :
       /\ booking[vouchers[v].source].status \in {"RIDE_CANCELLED", "RIDER_NO_SHOW"}
       /\ vouchers[v].usedOn # 0 =>
            /\ vouchers[v].usedOn # vouchers[v].source
            /\ booking[vouchers[v].usedOn].voucher = v
            /\ booking[vouchers[v].usedOn].deposit = 0
  /\ \A i \in Requests : booking[i].voucher # 0 => vouchers[booking[i].voucher].usedOn = i
  /\ \A v, w \in DOMAIN vouchers : v # w => vouchers[v].source # vouchers[w].source

\* A key makes one booking, and a passenger has one live booking of a ride,
\* however often the request is sent.
OneBookingPerKey ==
  \A i, j \in Requests :
    i # j /\ booking[i] # NoBooking /\ booking[j] # NoBooking =>
      /\ Asked[i].key # Asked[j].key
      /\ Live(i) /\ Live(j) => Asked[i].ride # Asked[j].ride

\* What a cancellation tells the passenger, "nextAssuredDepositPercentage", is
\* what the next booking is quoted (assured-lifecycle-response.dto.ts:162).  Not so
\* after a penalty whose booking others ended; no run checks it (README, section 6).
NextIsAsPromised ==
  [][\A i \in Requests : CancelByPassenger(i) => Quote' = Elevated]_termsVars

-----------------------------------------------------------------------------
(* What TripsProofs proves of the deposits, for any requests and any       *)
(* amounts.                                                                *)

\* No request is called like the absence of one.
Parameters ==
  /\ 0 \notin Requests
  /\ FareAmount \in Nat /\ Discount \in Nat /\ Usual \in Nat

Stages == {"new", "checked", "quoted", "answered", "refused"}
Statuses == {"NONE", "CONFIRMED", "CANCELLED_BY_PASSENGER", "RIDER_NO_SHOW",
             "RIDE_CANCELLED", "DRIVER_NO_SHOW", "COMPLETED"}
BookingRow == [status : Statuses, rate : Nat, deposit : Nat, fare : Nat, voucher : Nat]
Voucher == [source : Requests, usedOn : Requests \cup {0}]
PenaltyRow == [source : Requests \cup {0}, consumedOn : Requests \cup {0}, cleared : BOOLEAN]

\* Requests, bookings, rides, penalty and vouchers have the shape of their tables.
TypeOK ==
  /\ stage \in [Requests -> Stages] /\ rate \in [Requests -> Nat]
  /\ booking \in [Requests -> BookingRow]
  /\ ride \in [Rides -> {"OPEN", "DEPARTED", "OVER"}]
  /\ penalty \in PenaltyRow /\ vouchers \in Seq(Voucher)

\* A booking used a voucher that was issued, or none.
RowsFit == \A i \in Requests : booking[i].voucher \in DOMAIN vouchers \cup {0}

\* Who has read a rate holds the lock of a ride on which nobody is live.
QuotesAlone ==
  \A i \in Requests : stage[i] = "quoted" =>
    /\ LiveOn(Asked[i].ride) = {}
    /\ \A j \in Requests : stage[j] = "quoted" /\ Asked[j].ride = Asked[i].ride => i = j

\* A penalty is the initial row or rests on a request.
PenaltyFits == penalty # NoPenalty => penalty.source \in Requests

TermsInv ==
  /\ TypeOK /\ RowsFit /\ QuotesAlone /\ PenaltyFits
  /\ PenaltyIsWorkedOff /\ VouchersCountOnce /\ OneBookingPerKey

=============================================================================
