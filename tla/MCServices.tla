----------------------------- MODULE MCServices -----------------------------
(***************************************************************************)
(* What a driver's rides rest on: recurring commutes, vehicles, live       *)
(* tracking, how passengers find them, and the coupons and campaigns       *)
(* around them.  The parts share no state; the initial states choose the   *)
(* one that runs, the variables of the others keep still.                  *)
(***************************************************************************)
EXTENDS Integers, FiniteSets

CONSTANTS Parts,     \* the parts that are checked
          Processes, \* application processes that serve one request at a time
          Keys, Singles, Dates, Times, MaxChanges,                            \* of CommuteSeries
          Ids, Numbers, MaxAttempts,                                          \* of Vehicles
          TimeToLive,                                                         \* of Tracking
          Users, CouponAdmins, CouponKeys, Audience, Scope, Benefit, Limit, Each,
          Amounts,                                                            \* of Coupons
          RewardAdmins, RewardRides, Served, Steps, Window, Required, EndsAt, \* of CommuteRewards
          PostedRides, PostedTypes, Answers, Points, Catchment, Corridor, Progress,
          MaxCandidates, Backward, Extension, MaxPairs, Detour                \* of RideSearch

VARIABLES running,
          series, seriesRide, clock, changes,
          vehicle, attempt, general, work,
          trip, seats, stored, since, update, clearing, room, joining,
          coupon, assigned, redemptions, copy,
          now, status, milestone, served, trips, claim, seen,
          posted, option, search, cache

\* A series over two days and a ride published alone, at two times of the day.
Series == INSTANCE CommuteSeries WITH ride <- seriesRide

ASSUME SeriesParameters == Series!Parameters

\* A vehicle whose registration number is corrected and verified.
Garage == INSTANCE Vehicles

ASSUME GarageParameters == MaxAttempts \in Nat

\* Two updates of the driver's app race, one passenger follows.
Live == INSTANCE Tracking WITH
          Updates <- {"u1", "u2"}, Sockets <- {"socket"}, Places <- {"here", "there"},
          Stamps <- {1, 3}

\* Two users, two bookings and one use each, two admins who edit the coupon.
HalfOff == [type |-> "PERCENTAGE", value |-> 50, max |-> 3, min |-> 4]

Offer == INSTANCE Coupons WITH Admins <- CouponAdmins, Keys <- CouponKeys

ASSUME OfferParameters == Offer!Parameters

\* Two milestones, the second with a longer window, and two admins.
OneThenTwo == <<1, 2>>

Campaign == INSTANCE CommuteRewards WITH
              Admins <- RewardAdmins, Rides <- RewardRides, ride <- served

ASSUME CampaignParameters == Campaign!Parameters

\* One ride along a line, around a corner, back beside itself or south; who looks
\* for it stands on it, beside it, behind its source, past its destination or as
\* far west of it as one may.
FiveRoutes ==
  {{<<<<0, 0>>, <<6, 0>>>>, <<<<0, 0>>>>, <<<<0, 0>>, <<4, 0>>, <<4, 4>>>>,
    <<<<0, 0>>, <<4, 0>>, <<4, 1>>, <<-2, 1>>>>, <<<<4, 4>>, <<4, 0>>, <<6, 0>>>>}}
EightPlaces == {<<-1, 4>>, <<0, 0>>, <<6, 0>>, <<-2, 1>>, <<-2, 0>>, <<4, 4>>, <<9, 0>>, <<4, 2>>}

Finding == INSTANCE RideSearch WITH
             Rides <- PostedRides, Types <- PostedTypes, ride <- posted

ASSUME SearchParameters == Finding!Parameters

seriesVars == <<series, seriesRide, clock, changes>>
garageVars == <<vehicle, attempt, general, work>>
liveVars == <<trip, seats, stored, since, update, clearing, room, joining>>
offerVars == <<coupon, assigned, redemptions, copy>>
campaignVars == <<now, status, milestone, served, trips, claim, seen>>
findingVars == <<posted, option, search, cache>>
vars == <<running, seriesVars, garageVars, liveVars, offerVars, campaignVars, findingVars>>

Init ==
  /\ running \in Parts
  /\ Series!Init /\ Garage!Init /\ Live!Init /\ Offer!Init /\ Campaign!Init
  /\ Finding!Init

Next ==
  /\ UNCHANGED running
  /\ \/ /\ running = "series" /\ Series!Next
        /\ UNCHANGED <<garageVars, liveVars, offerVars, campaignVars, findingVars>>
     \/ /\ running = "garage" /\ Garage!Next
        /\ UNCHANGED <<seriesVars, liveVars, offerVars, campaignVars, findingVars>>
     \/ /\ running = "live" /\ Live!Next
        /\ UNCHANGED <<seriesVars, garageVars, offerVars, campaignVars, findingVars>>
     \/ /\ running = "offer" /\ Offer!Next
        /\ UNCHANGED <<seriesVars, garageVars, liveVars, campaignVars, findingVars>>
     \/ /\ running = "campaign" /\ Campaign!Next
        /\ UNCHANGED <<seriesVars, garageVars, liveVars, offerVars, findingVars>>
     \/ /\ running = "search" /\ Finding!Next
        /\ UNCHANGED <<seriesVars, garageVars, liveVars, offerVars, campaignVars>>

Spec ==
  /\ Init
  /\ [][Next]_vars
  /\ Live!Fairness

\* One ride at a time is on its way, over, or booked; one distance is
\* remembered, and drivers who hold an option see no search.
Small ==
  /\ clock <= 4
  /\ Cardinality({r \in DOMAIN seriesRide :
       seriesRide[r].status \in {"IN_PROGRESS", "COMPLETED"} \/ seriesRide[r].booked}) <= 1
  /\ Cardinality(DOMAIN cache) <= 1
  /\ search.step # "idle" => option = Finding!Off

-----------------------------------------------------------------------------
\* A driver's commutes fit side by side, and a cancelled series has no ride.
SeriesRidesFit == Series!SeriesRidesFit

\* What is limited or asked for is kept to: one attempt to verify a vehicle is
\* under way, a coupon is used as often as allowed, a milestone rests on trips
\* that were made in its window, and no driver is offered to a passenger who is
\* farther off her route than she allows.
LimitsAreKept ==
  Garage!OneAttempt /\ Offer!CouponUses /\ Campaign!ClaimsAreEarned /\ Finding!WaysAreVerified

\* What was promised stays: the departure a rider booked, and the milestones a
\* driver won, in their order and for good.
PromisesAreKept == Series!BookedDeparturesStay /\ Campaign!WonForGood

\* A passenger is found every ride that passes her pickup and then her dropoff.
SearchIsRight == Finding!NobodyIsMissed

\* Once a ride is over its driver's location is forgotten for good.
LocationForgotten == Live!LocationForgotten

=============================================================================
