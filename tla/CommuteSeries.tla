---------------------------- MODULE CommuteSeries ----------------------------
(***************************************************************************)
(* One driver's rides of a repeated Daily Office Commute:                  *)
(* src/src/rides/commute-ride-series.service.ts, and the publishing, the   *)
(* updating and the cancelling of rides of src/src/rides/rides.service.ts  *)
(* that go with it.                                                        *)
(*                                                                         *)
(* A series has a ride for each of its dates, and one back where a return  *)
(* is asked for.  Publishing holds advisory locks on driver and vehicle;   *)
(* the other operations lock the rides they change, so that each is one    *)
(* step.  A ride that is published alone, of either type, takes no lock:   *)
(* only the unique index on a commute's departure stops it.  A departure   *)
(* is a date and a time of day.  A ride is booked or not: what its         *)
(* bookings do is the subject of CommuteRide.                              *)
(***************************************************************************)
EXTENDS Naturals, FiniteSets

CONSTANTS Keys,      \* idempotency keys: each is for one series
          Singles,   \* rides published alone
          Dates, Times,
          MaxChanges \* bound: updates of rides

VARIABLES series,  \* key |-> status: "none", "ACTIVE" or "CANCELLED"
          ride,    \* ride |-> type, status, departure and whether it is booked
          clock,   \* the last departure that has passed
          changes

seriesVars == <<series, ride, clock, changes>>

Occurrences == Keys \X Dates \X {"OUTBOUND", "RETURN"}
Rides == Occurrences \cup Singles
Departure(date, time) == date * (Cardinality(Times) + 1) + time
Departures == {Departure(date, time) : date \in Dates, time \in Times}
NoRide == [type |-> "none", status |-> "none", at |-> 0, booked |-> FALSE]
Published(type, at) == [type |-> type, status |-> "PUBLISHED", at |-> at, booked |-> FALSE]

Init ==
  /\ series = [k \in Keys |-> "none"]
  /\ ride = [r \in Rides |-> NoRide]
  /\ clock = 0 /\ changes = 0

\* Days and times of day count on; the driver may go back later than there.
Parameters ==
  /\ Dates \subseteq Nat /\ IsFiniteSet(Dates) /\ MaxChanges \in Nat
  /\ IsFiniteSet(Times) /\ Times \subseteq 0 .. Cardinality(Times) /\ Cardinality(Times) > 1
  /\ Singles \cap Occurrences = {}

isTerminal(status) == status \in {"CANCELLED", "COMPLETED"}
On(r) == ride[r].status \notin {"none", "CANCELLED", "COMPLETED"}
isPastOccurrence(r) == ride[r].at <= clock

-----------------------------------------------------------------------------
(* Publishing.                                                             *)

\* The series check looks at rides of every type that are not over.
assertSlotsAvailable(slots) == \A r \in Rides : On(r) => ride[r].at \notin slots

\* UQ_rides_commute_driver_slot and UQ_rides_commute_vehicle_slot
CommuteSlotFree(at, others) ==
  \A r \in others : On(r) /\ ride[r].type = "COMMUTE" => ride[r].at # at

TimeOf(direction) == CHOOSE t \in Times :
  IF direction = "OUTBOUND" THEN \A u \in Times : t <= u ELSE \E u \in Times : u < t

\* A key that is known only reads the series back.
publish(k, dates, returnEnabled) ==
  LET planned == {r \in {k} \X dates \X {"OUTBOUND", "RETURN"} :
                    r[3] = "RETURN" => returnEnabled}
      at(r) == Departure(r[2], TimeOf(r[3]))
  IN /\ series[k] = "none" /\ dates # {}
     /\ \A r \in planned : at(r) > clock
     /\ assertSlotsAvailable({at(r) : r \in planned})
     /\ series' = [series EXCEPT ![k] = "ACTIVE"]
     /\ ride' = [r \in Rides |-> IF r \in planned THEN Published("COMMUTE", at(r)) ELSE ride[r]]
     /\ UNCHANGED <<clock, changes>>

createCommuteRide(r, at) ==
  /\ ride[r] = NoRide /\ at > clock /\ CommuteSlotFree(at, Rides)
  /\ ride' = [ride EXCEPT ![r] = Published("COMMUTE", at)]
  /\ UNCHANGED <<series, clock, changes>>

createRegularRide(r, at) ==
  /\ ride[r] = NoRide /\ at > clock
  /\ ride' = [ride EXCEPT ![r] = Published("REGULAR", at)]
  /\ UNCHANGED <<series, clock, changes>>

-----------------------------------------------------------------------------
(* Cancelling.                                                             *)

\* By occurrence date and not by departure: the one date an update leaves alone.
FromDate(r, sameDirectionOnly) ==
  {s \in Occurrences : /\ ride[s] # NoRide /\ s[1] = r[1] /\ s[2] >= r[2]
                       /\ sameDirectionOnly => s[3] = r[3]}

Cancelled(rides) ==
  [r \in Rides |-> IF r \in rides THEN [ride[r] EXCEPT !.status = "CANCELLED", !.booked = FALSE]
                   ELSE ride[r]]

\* Mutant: only the rides from the chosen date on are counted.
LaterRemaining(r, cancelled) == {s \in FromDate(r, FALSE) : On(s) /\ s \notin cancelled}

Remaining(r, cancelled) ==
  {s \in Occurrences : s[1] = r[1] /\ On(s) /\ s \notin cancelled}

CancelledSeries(r, cancelled) ==
  IF Remaining(r, cancelled) = {} THEN [series EXCEPT ![r[1]] = "CANCELLED"] ELSE series

\* One ride; its series keeps its status.
cancelByDriver(r) ==
  /\ ride[r].status = "PUBLISHED" /\ ride' = Cancelled({r})
  /\ UNCHANGED <<series, clock, changes>>

\* Rides that are booked or under way are left out, but for the chosen one.
cancelCommuteSeriesByDriver(r) ==
  LET cancelled == {s \in FromDate(r, FALSE) :
                      ride[s].status = "PUBLISHED" /\ (s = r \/ ~ride[s].booked)}
  IN /\ ride[r].status \in {"PUBLISHED", "CANCELLED"}
     /\ ride' = Cancelled(cancelled)
     /\ series' = CancelledSeries(r, cancelled)
     /\ UNCHANGED <<clock, changes>>

\* An admin cancels rides that are booked or under way too.
cancelByAdmin(r, thisAndFuture) ==
  LET all == r \in Occurrences /\ thisAndFuture
      cancelled == {s \in IF all THEN FromDate(r, FALSE) ELSE {r} : On(s)}
  IN /\ ride[r].status \notin {"none", "COMPLETED"}
     /\ ride' = Cancelled(cancelled)
     /\ series' = IF all THEN CancelledSeries(r, cancelled) ELSE series
     /\ UNCHANGED <<clock, changes>>

-----------------------------------------------------------------------------
(* Updating.                                                               *)

\* Mutant: bookings do not protect a ride's departure.
NeverProtected(r, at) == FALSE

Protected(r, at) == ride[r].booked /\ ride[r].at # at

\* The rides of DOMAIN at, moved to the departures at gives them.
Moved(at) ==
  LET rides == DOMAIN at
  IN /\ changes < MaxChanges
     /\ \A r \in rides : /\ ~Protected(r, at[r]) /\ (ride[r].at # at[r] => at[r] > clock)
                         /\ ride[r].type = "COMMUTE" => CommuteSlotFree(at[r], Rides \ rides)
     /\ ride' = [r \in Rides |-> IF r \in rides THEN [ride[r] EXCEPT !.at = at[r]] ELSE ride[r]]
     /\ changes' = changes + 1
     /\ UNCHANGED <<series, clock>>

updateThis(r, at) ==
  /\ ride[r].status = "PUBLISHED" /\ ride[r].at # at
  /\ Moved([s \in {r} |-> at])

\* The time of all rides in one direction that are still to come, or of none.
updateSeries(r, time) ==
  LET eligible == {s \in FromDate(r, TRUE) : ride[s].status = "PUBLISHED" /\ ~isPastOccurrence(s)}
      to == [s \in eligible |-> Departure(ride[s].at \div (Cardinality(Times) + 1), time)]
  IN /\ ride[r] # NoRide /\ eligible # {}
     /\ Cardinality({to[s] : s \in eligible}) = Cardinality(eligible)
     /\ Moved(to)

-----------------------------------------------------------------------------
(* The rest of a ride's life.                                              *)

Book(r) ==
  /\ ride[r].status = "PUBLISHED" /\ ~isPastOccurrence(r) /\ ~ride[r].booked
  /\ ride' = [ride EXCEPT ![r].booked = TRUE]
  /\ UNCHANGED <<series, clock, changes>>

CancelBookings(r) ==
  /\ ride[r].status = "PUBLISHED" /\ ride[r].booked
  /\ ride' = [ride EXCEPT ![r].booked = FALSE]
  /\ UNCHANGED <<series, clock, changes>>

startByDriver(r) ==
  /\ ride[r].status = "PUBLISHED"
  /\ ride' = [ride EXCEPT ![r].status = "IN_PROGRESS"]
  /\ UNCHANGED <<series, clock, changes>>

complete(r) ==
  /\ ride[r].status = "IN_PROGRESS"
  /\ ride' = [ride EXCEPT ![r].status = "COMPLETED", ![r].booked = FALSE]
  /\ UNCHANGED <<series, clock, changes>>

Pass(at) == at > clock /\ clock' = at /\ UNCHANGED <<series, ride, changes>>

Next ==
  \/ \E k \in Keys, dates \in SUBSET Dates, returnEnabled \in BOOLEAN :
       publish(k, dates, returnEnabled)
  \/ \E r \in Singles, at \in Departures : createCommuteRide(r, at) \/ createRegularRide(r, at)
  \/ \E r \in Rides :
       \/ cancelByDriver(r) \/ Book(r) \/ CancelBookings(r) \/ startByDriver(r) \/ complete(r)
       \/ \E all \in BOOLEAN : cancelByAdmin(r, all)
       \/ \E at \in Departures : updateThis(r, at)
  \/ \E r \in Occurrences :
       \/ cancelCommuteSeriesByDriver(r)
       \/ \E time \in Times : updateSeries(r, time)
  \/ \E at \in Departures : Pass(at)

Spec == Init /\ [][Next]_seriesVars

-----------------------------------------------------------------------------
(* Properties.                                                             *)

\* However rides are published, moved and cancelled, the driver never has two
\* commutes that are on at the same time, and a series that counts as
\* cancelled, which no longer keeps its driver from closing the account, has no
\* ride that is still on.
SeriesRidesFit ==
  /\ \A r, s \in Rides : /\ r # s /\ On(r) /\ On(s)
                         /\ {ride[r].type, ride[s].type} = {"COMMUTE"}
                         => ride[r].at # ride[s].at
  /\ \A r \in Occurrences : series[r[1]] = "CANCELLED" => ~On(r)

\* A rider who holds a booking keeps the departure that was booked, whichever
\* of the two updates the driver uses and however many rides it names.
BookedDeparturesStay ==
  [][\A r \in Rides : ride[r].booked /\ ride'[r].booked => ride'[r].at = ride[r].at]_seriesVars

\* A series that keeps its driver from closing the account can be cancelled.
BlockingSeriesCancellable ==
  \A k \in Keys : series[k] = "ACTIVE" =>
    \E r \in Occurrences : r[1] = k /\ ride[r].status \in {"PUBLISHED", "IN_PROGRESS", "CANCELLED"}

=============================================================================
