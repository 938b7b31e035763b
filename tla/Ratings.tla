------------------------------ MODULE Ratings ------------------------------
(***************************************************************************)
(* Rating tasks of completed rides: src/src/ratings/.                      *)
(*                                                                         *)
(* The completion of a ride creates, for each completed booking, a task    *)
(* for the driver and one for the passenger; a repetition of it creates    *)
(* what is missing.  Tasks are skipped and submitted under their lock.     *)
(* Left out: comments, except that they take part in the comparison of a   *)
(* repeated submission, names, photos, pages and reminders, which nothing  *)
(* sends yet.                                                              *)
(***************************************************************************)
EXTENDS Sums

CONSTANTS Users,
          Rides, Driver, \* ride |-> its driver
          Stars          \* ratings that are given

VARIABLES completed, \* ride |-> TRUE once it is COMPLETED
          booked,    \* ride |-> passengers of its bookings
          travelled, \* ride |-> passengers whose booking is COMPLETED
          task       \* tasks of both directions: status, rating, skipped

ratingVars == <<completed, booked, travelled, task>>

Pairs == {k \in [ride : Rides, from : Users, to : Users] :
            k.from # k.to /\ Driver[k.ride] \in {k.from, k.to}}

Init ==
  /\ completed = [r \in Rides |-> FALSE]
  /\ booked \in [Rides -> SUBSET Users]
  /\ \A r \in Rides : Driver[r] \notin booked[r]
  /\ travelled = [r \in Rides |-> {}]
  /\ task = [k \in Pairs |-> [status |-> "NONE", rating |-> 0, skipped |-> FALSE]]

-----------------------------------------------------------------------------

\* INSERT .. ON CONFLICT DO NOTHING, for the bookings that are COMPLETED by now.
createRatingTasks(r) ==
  task' = [k \in Pairs |->
             IF /\ k.ride = r /\ task[k].status = "NONE"
                /\ (IF k.from = Driver[r] THEN k.to ELSE k.from) \in travelled'[r]
             THEN [task[k] EXCEPT !.status = "PENDING"] ELSE task[k]]

\* Some passengers were no-shows or have cancelled.
CompleteRide(r, ps) ==
  /\ ~completed[r] /\ ps \subseteq booked[r]
  /\ completed' = [completed EXCEPT ![r] = TRUE]
  /\ travelled' = [travelled EXCEPT ![r] = ps]
  /\ createRatingTasks(r) /\ UNCHANGED booked

CompleteAgain(r) ==
  /\ completed[r] /\ UNCHANGED <<completed, booked, travelled>> /\ createRatingTasks(r)

skipRating(k) ==
  /\ task[k].status = "PENDING" /\ task' = [task EXCEPT ![k].skipped = TRUE]
  /\ UNCHANGED <<completed, booked, travelled>>

\* The booking and its ride are looked at again.
assertTaskParticipants(k) ==
  /\ completed[k.ride]
  /\ \E p \in travelled[k.ride] : {k.from, k.to} = {p, Driver[k.ride]}

assertTaskPending(k) == task[k].status = "PENDING"

\* A repetition gets the same answer, another rating is refused.
submitRating(k, stars) ==
  /\ assertTaskPending(k) /\ assertTaskParticipants(k)
  /\ task' = [task EXCEPT ![k].status = "COMPLETED", ![k].rating = stars]
  /\ UNCHANGED <<completed, booked, travelled>>

-----------------------------------------------------------------------------
(* Averages, in tenths.                                                    *)

Received(u) == {k \in Pairs : k.to = u /\ task[k].status = "COMPLETED"}

toRatingAverage(ks) ==
  LET stars == AmountOf({[task |-> k, amount |-> task[k].rating] : k \in ks})
      n == Cardinality(ks)
  IN [total |-> n, average |-> IF n = 0 THEN 0 ELSE (20 * stars + n) \div (2 * n)]

\* Mutant: the role is not told from the booking of the ride.
InAnyRole(u) == Received(u)

AsRider(u) == {k \in Received(u) : k.to \in booked[k.ride]}

getUserRatingRoleAverages(u) ==
  [overall  |-> toRatingAverage(Received(u)),
   asDriver |-> toRatingAverage({k \in Received(u) : Driver[k.ride] = u}),
   asRider  |-> toRatingAverage(AsRider(u))]

Next ==
  \/ \E r \in Rides : CompleteAgain(r) \/ \E ps \in SUBSET booked[r] : CompleteRide(r, ps)
  \/ \E k \in Pairs : skipRating(k) \/ \E stars \in Stars : submitRating(k, stars)

Spec == Init /\ [][Next]_ratingVars

-----------------------------------------------------------------------------
(* Properties.                                                             *)

\* Every rating a user shows was given by somebody who travelled with it, each
\* counts for exactly one role, and the overall average lies between those of
\* the roles.
AveragesAgree ==
  \A u \in Users :
    LET a == getUserRatingRoleAverages(u)
        roles == {x \in {a.asDriver, a.asRider} : x.total > 0}
    IN /\ a.overall.total = a.asDriver.total + a.asRider.total
       /\ \A k \in Received(u) : {k.from, k.to} \ {Driver[k.ride]} \subseteq travelled[k.ride]
       /\ roles # {} =>
            /\ a.overall.average <= Max({x.average : x \in roles})
            /\ a.overall.average >= Min({x.average : x \in roles})

\* A rating that was given stays as it is.
RatingsStand ==
  [][\A k \in Pairs : task[k].status = "COMPLETED" => task'[k] = task[k]]_ratingVars

=============================================================================
