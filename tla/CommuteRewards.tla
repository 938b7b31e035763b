--------------------------- MODULE CommuteRewards ---------------------------
(***************************************************************************)
(* One reward campaign for office commutes and one driver:                 *)
(* src/src/commute-rewards/.                                               *)
(*                                                                         *)
(* Completed commutes with enough passengers are recorded as trips, trips  *)
(* let the driver claim milestones in their order, admins review claims.   *)
(* Claims are made under the lock of the campaign and reviewed under the   *)
(* lock of the claim.  Campaigns and milestones are edited without locks:  *)
(* an admin reads the campaign, and what it decides then is saved later.   *)
(* Time is counted in months, which is what milestone windows are made of; *)
(* the calendar and time zones are left out, with titles, prizes, lists    *)
(* and audit rows.                                                         *)
(***************************************************************************)
EXTENDS Integers, FiniteSets

CONSTANTS Admins, Rides,
          Served,    \* sets of passengers who may complete a ride
          Steps,     \* sort orders of milestones, 1..n
          Window,    \* months from the start that a milestone stays open
          Required,  \* numbers of trips a milestone may ask for
          EndsAt     \* last month of the campaign

VARIABLES now,
          status,    \* of the campaign
          milestone, \* sort order |-> required trips, 0 where there is none
          ride,      \* ride |-> month of completion and who was picked up and completed
          trips,     \* rides with a row in qualifying_trips
          claim,     \* sort order |-> status, trips and required trips snapshot
          seen       \* admin |-> status of the campaign as it was read

rewardVars == <<now, status, milestone, ride, trips, claim, seen>>

NoClaim == [status |-> "NONE", trips |-> 0, required |-> 0]

\* dto/admin-commute-reward.dto.ts: milestones ask for a number of trips.
Parameters == IsFiniteSet(Rides) /\ Required \subseteq Nat /\ Steps \subseteq Nat

Init ==
  /\ now = 0 /\ status = "DRAFT"
  /\ milestone = [k \in Steps |-> 0]
  /\ ride = [r \in Rides |-> [at |-> -1, passengers |-> {}]]
  /\ trips = {}
  /\ claim = [k \in Steps |-> NoClaim]
  /\ seen = [a \in Admins |-> "none"]

-----------------------------------------------------------------------------
(* Completed rides.                                                        *)

countDistinctQualifyingPassengers(r) == Cardinality(ride'[r].passengers)

InDates(t) == 0 <= t /\ t <= EndsAt

\* recordQualifyingRideInTransaction, called by the completion of a ride and by
\* every repetition of it: it looks at the campaigns that are active by then.
recordQualifyingRide(r) ==
  trips' = IF /\ countDistinctQualifyingPassengers(r) >= 2
              /\ status = "ACTIVE" /\ InDates(ride'[r].at)
           THEN trips \cup {r} ELSE trips

CompleteRide(r, ps) ==
  /\ ride[r].at = -1
  /\ ride' = [ride EXCEPT ![r] = [at |-> now, passengers |-> ps]]
  /\ recordQualifyingRide(r)
  /\ UNCHANGED <<now, status, milestone, claim, seen>>

CompleteAgain(r) ==
  /\ ride[r].at >= 0 /\ UNCHANGED ride /\ recordQualifyingRide(r)
  /\ UNCHANGED <<now, status, milestone, claim, seen>>

-----------------------------------------------------------------------------
(* Claims.                                                                 *)

countTripsInWindow(k) == Cardinality({r \in trips : ride[r].at < Window[k]})

Consuming == {"UNDER_REVIEW", "APPROVED", "FULFILLED"}
Success == {"APPROVED", "FULFILLED"}

arePrecedingMilestonesSuccessfullyClaimed(k) ==
  \A j \in Steps : j < k /\ milestone[j] > 0 => claim[j].status \in Success

canClaim(k) ==
  /\ status = "ACTIVE" /\ InDates(now) /\ now < Window[k]
  /\ claim[k].status \notin Consuming
  /\ arePrecedingMilestonesSuccessfullyClaimed(k)
  /\ countTripsInWindow(k) >= milestone[k]

claimMilestone(k) ==
  /\ milestone[k] > 0 /\ canClaim(k)
  /\ claim' = [claim EXCEPT ![k] = [status |-> "UNDER_REVIEW",
                 trips |-> countTripsInWindow(k), required |-> milestone[k]]]
  /\ UNCHANGED <<now, status, milestone, ride, trips, seen>>

SetClaim(k, from, to) ==
  /\ claim[k].status = from
  /\ claim' = [claim EXCEPT ![k].status = to]
  /\ UNCHANGED <<now, status, milestone, ride, trips, seen>>

reviewClaim(k) ==
  \/ SetClaim(k, "UNDER_REVIEW", "APPROVED")
  \/ SetClaim(k, "UNDER_REVIEW", "REJECTED")

fulfilClaim(k) == SetClaim(k, "APPROVED", "FULFILLED")

-----------------------------------------------------------------------------
(* Campaigns.                                                              *)

requireCampaign(a) ==
  /\ seen[a] = "none" /\ seen' = [seen EXCEPT ![a] = status]
  /\ UNCHANGED <<now, status, milestone, ride, trips, claim>>

allowedTransitions(from) ==
  CASE from = "DRAFT"  -> {"ACTIVE", "ARCHIVED"}
    [] from = "ACTIVE" -> {"PAUSED", "ENDED"}
    [] from = "PAUSED" -> {"ACTIVE", "ENDED"}
    [] from = "ENDED"  -> {"ARCHIVED"}
    [] OTHER           -> {}

Done(a) == seen[a] # "none" /\ seen' = [seen EXCEPT ![a] = "none"]

setCampaignStatus(a, next) ==
  /\ Done(a) /\ next \in allowedTransitions(seen[a])
  /\ next = "ACTIVE" => now < EndsAt /\ \E k \in Steps : milestone[k] > 0
  /\ status' = next
  /\ UNCHANGED <<now, milestone, ride, trips, claim>>

\* Titles and banners; the status that was read is saved with them.
updateCampaign(a) ==
  /\ Done(a) /\ status' = seen[a]
  /\ UNCHANGED <<now, milestone, ride, trips, claim>>

SaveMilestone(a, k, required) ==
  /\ Done(a) /\ seen[a] = "DRAFT"
  /\ milestone' = [milestone EXCEPT ![k] = required]
  /\ UNCHANGED <<now, status, ride, trips, claim>>

addMilestone(a, k, required) == milestone[k] = 0 /\ SaveMilestone(a, k, required)

updateMilestone(a, k, required) == milestone[k] > 0 /\ SaveMilestone(a, k, required)

Month ==
  /\ now <= EndsAt /\ now' = now + 1
  /\ UNCHANGED <<status, milestone, ride, trips, claim, seen>>

Next ==
  \/ \E r \in Rides : CompleteAgain(r) \/ \E ps \in Served : CompleteRide(r, ps)
  \/ \E k \in Steps : claimMilestone(k) \/ reviewClaim(k) \/ fulfilClaim(k)
  \/ \E a \in Admins :
       \/ requireCampaign(a) \/ updateCampaign(a)
       \/ \E next \in {"ACTIVE", "PAUSED", "ENDED", "ARCHIVED"} : setCampaignStatus(a, next)
       \/ \E k \in Steps, required \in Required :
            addMilestone(a, k, required) \/ updateMilestone(a, k, required)
  \/ Month

Spec == Init /\ [][Next]_rewardVars

-----------------------------------------------------------------------------
(* Properties.                                                             *)

\* Whatever admins edit meanwhile: a claim that is not rejected rests on trips
\* that were recorded in the window of its milestone, as many as were asked for.
ClaimsAreEarned ==
  \A k \in Steps : claim[k].status \in Consuming =>
    /\ claim[k].required <= claim[k].trips
    /\ claim[k].trips <= Cardinality({r \in trips : ride[r].at < Window[k]
                                      /\ Cardinality(ride[r].passengers) >= 2})

\* When a milestone is claimed all milestones before it have been won for good:
\* none of their claims is turned down later.
WonForGood ==
  [][\A k \in Steps :
       /\ claim[k].status \in Success => claim'[k].status \in Success
       /\ claim[k].status \notin Consuming /\ claim'[k].status \in Consuming =>
            \A j \in Steps : j < k /\ milestone[j] > 0 => claim[j].status \in Success]_rewardVars

\* The rules of a campaign do not change once it has left DRAFT.  An edit that is
\* under way meanwhile breaks it, no run checks it (README, section 6).
RulesAreImmutable == [][status # "DRAFT" => milestone' = milestone]_rewardVars

=============================================================================
