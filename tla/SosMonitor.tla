----------------------------- MODULE SosMonitor -----------------------------
(***************************************************************************)
(* What the safety desk and passengers see of rides in an emergency:       *)
(* src/src/safety/sos/admin-sos.service.ts and sos.service.ts, with        *)
(* src/src/tracking/tracking.service.ts.                                   *)
(*                                                                         *)
(* A view is put together from several reads, of rows and of Redis keys    *)
(* with a time to live, while all of them change.  Ages are counted in     *)
(* steps: 0 is fresh, Gone older than RIDE_TRACKING_TTL_SECONDS.  A driver *)
(* reports where the car is; what she publishes in an emergency goes to a  *)
(* key nobody reads and is left out, as are filters, further pages, counts *)
(* and names.                                                              *)
(***************************************************************************)
EXTENDS Integers, FiniteSets

CONSTANTS Soses, \* numbered in the order they are triggered, each on a ride of its own
          Limit, \* items on a page
          Gone

VARIABLES ride,       \* status of the ride of each SOS
          sos,        \* its row: status, who called, located or not, age of the call
          car,        \* age of the driver's key
          own,        \* age of the rider's key
          publishing, \* SOSes whose rider's request passed the check
          view        \* the request that looks at it all

monitorVars == <<ride, sos, car, own, publishing, view>>

Nowhere == Gone + 1
NoSos == [status |-> "NONE", by |-> "rider", located |-> FALSE, age |-> 0]
NoView == [what |-> "none", at |-> "answered", of |-> 0, cars |-> [s \in Soses |-> Nowhere],
           rides |-> {}, shown |-> {}, active |-> {}, known |-> {}]

Init ==
  /\ ride = [s \in Soses |-> "IN_PROGRESS"]
  /\ sos = [s \in Soses |-> NoSos]
  /\ car = [s \in Soses |-> Nowhere] /\ own = [s \in Soses |-> Nowhere]
  /\ publishing = {}
  /\ view = NoView

ActiveStatuses == {"TRIGGERED", "ACKNOWLEDGED", "RESPONDING"}
Active == {s \in Soses : sos[s].status \in ActiveStatuses}
Known == {s \in Soses : ride[s] = "IN_PROGRESS" /\ car[s] # Nowhere}

-----------------------------------------------------------------------------
(* What happens meanwhile.                                                 *)

trigger(s, by, located) ==
  /\ sos[s] = NoSos /\ ride[s] = "IN_PROGRESS"
  /\ \A r \in Soses : r < s => sos[r] # NoSos
  /\ sos' = [sos EXCEPT ![s] = [status |-> "TRIGGERED", by |-> by, located |-> located, age |-> 0]]
  /\ UNCHANGED <<ride, car, own, publishing>>

Forward == [NONE |-> {}, TRIGGERED |-> {"ACKNOWLEDGED", "RESOLVED"},
            ACKNOWLEDGED |-> {"RESPONDING", "RESOLVED"}, RESPONDING |-> {"RESOLVED"},
            RESOLVED |-> {}]

transition(s, next) ==
  /\ next \in Forward[sos[s].status]
  /\ sos' = [sos EXCEPT ![s].status = next]
  /\ UNCHANGED <<ride, car, own, publishing>>

\* The key is cleared when the ride ends, if Redis lets it.
EndRide(s) ==
  /\ ride[s] = "IN_PROGRESS" /\ ride' = [ride EXCEPT ![s] = "OVER"]
  /\ car' \in {car, [car EXCEPT ![s] = Nowhere]}
  /\ UNCHANGED <<sos, own, publishing>>

updateDriverLocation(s) ==
  /\ ride[s] = "IN_PROGRESS" /\ car' = [car EXCEPT ![s] = 0]
  /\ UNCHANGED <<ride, sos, own, publishing>>

\* The bookings of a ride that is over are no longer CONFIRMED.
requireActiveParticipantSos(s) ==
  /\ s \in Active \ publishing /\ ride[s] = "IN_PROGRESS"
  /\ publishing' = publishing \cup {s}
  /\ UNCHANGED <<ride, sos, car, own>>

setParticipantLocation(s) == own' = [own EXCEPT ![s] = 0]

\* The rider's key is set, whatever ended since.
publishLocation(s) ==
  /\ s \in publishing /\ publishing' = publishing \ {s}
  /\ setParticipantLocation(s)
  /\ UNCHANGED <<ride, sos, car>>

\* The view remembers which SOSes were active, and which cars known, all along.
Meanwhile ==
  /\ \E s \in Soses :
       \/ \E by \in {"driver", "rider"}, located \in BOOLEAN : trigger(s, by, located)
       \/ \E next \in {"ACKNOWLEDGED", "RESPONDING", "RESOLVED"} : transition(s, next)
       \/ EndRide(s) \/ updateDriverLocation(s)
       \/ requireActiveParticipantSos(s) \/ publishLocation(s)
  /\ view' = [view EXCEPT !.active = @ \cap Active', !.known = @ \cap Known']

Older(age) == IF age < Gone THEN age + 1 ELSE age
Expiring(age) == IF age + 1 >= Gone THEN Nowhere ELSE age + 1

Tick ==
  /\ sos' = [s \in Soses |-> [sos[s] EXCEPT !.age = IF sos[s] = NoSos THEN 0 ELSE Older(@)]]
  /\ car' = [s \in Soses |-> Expiring(car[s])] /\ own' = [s \in Soses |-> Expiring(own[s])]
  /\ view' = IF view.at \in {"answered", "failed"} THEN view
             ELSE [view EXCEPT !.cars = [s \in Soses |-> Older(@[s])],
                               !.known = {s \in @ : car'[s] # Nowhere}]
  /\ UNCHANGED <<ride, publishing>>

-----------------------------------------------------------------------------
(* The views.                                                              *)

Begin(what, first, s) ==
  /\ view = NoView
  /\ view' = [NoView EXCEPT !.what = what, !.at = first, !.of = s,
                            !.active = Active, !.known = Known]
  /\ UNCHANGED <<ride, sos, car, own, publishing>>

Look(at, next, new) ==
  /\ view.at = at
  /\ view' = [view EXCEPT !.at = next, !.shown = @ \cup new]
  /\ UNCHANGED <<ride, sos, car, own, publishing>>

Item(kind, of, age) == [kind |-> kind, of |-> of, age |-> age]

\* The first page of a status, the newest first.
list(status) ==
  LET those == {s \in Soses : sos[s].status = status} IN
  {Item("SOS", s, 0) : s \in {t \in those : Cardinality({r \in those : r > t}) < Limit}}

InTurn == <<"TRIGGERED", "ACKNOWLEDGED", "RESPONDING">>

liveMonitoringActiveSos ==
  /\ view.what = "list"
  /\ \E i \in 1..3 : Look(InTurn[i], IF i = 3 THEN "answered" ELSE InTurn[i + 1], list(InTurn[i]))

\* The keys of the rides that were found in progress, or of none of them.
getStoredLocationsForRides ==
  /\ view.at = "locations"
  /\ \E redisReady \in BOOLEAN :
       view' = [view EXCEPT !.at = "soses", !.known = IF redisReady THEN @ ELSE {},
                  !.cars = [s \in Soses |-> IF redisReady /\ s \in view.rides THEN car[s]
                                            ELSE Nowhere]]
  /\ UNCHANGED <<ride, sos, car, own, publishing>>

FindRides ==
  /\ view.at = "rides"
  /\ view' = [view EXCEPT !.at = "locations",
                          !.rides = {s \in Soses : ride[s] = "IN_PROGRESS"}]
  /\ UNCHANGED <<ride, sos, car, own, publishing>>

\* An SOS is where its ride is, or where it was called from, if that is known.
MarkedAt(s) ==
  IF view.cars[s] # Nowhere THEN view.cars[s]
  ELSE IF sos[s].located THEN sos[s].age ELSE Nowhere

liveMonitoringMap ==
  \/ FindRides
  \/ getStoredLocationsForRides
  \/ Look("soses", "answered",
          {Item("RIDE", s, view.cars[s]) : s \in {r \in view.rides : view.cars[r] # Nowhere}}
            \cup {Item("SOS", s, MarkedAt(s)) : s \in {r \in Active : MarkedAt(r) # Nowhere}})

\* classifyLocationFreshness is not MISSING.
IsRecent(age) == age < Gone

\* A key that cannot be read is none.
getDriverLocationSnapshot(s) == {car[s], Nowhere}
getParticipantLocation(s) == {own[s], Nowhere}

\* Without a key the original caller is where the call came from, unless that is
\* too long ago.
Positions(s, u, key) ==
  LET age == IF key # Nowhere THEN key
             ELSE IF u = sos[s].by /\ sos[s].located THEN sos[s].age ELSE Nowhere
  IN  IF IsRecent(age) THEN {Item("PERSON", u, age)} ELSE {}

getLocationsForAdmin ==
  /\ view.what = "positions"
  /\ \/ \E key \in getDriverLocationSnapshot(view.of) :
          Look("driver", "rider", Positions(view.of, "driver", key))
     \/ \E key \in getParticipantLocation(view.of) :
          Look("rider", "answered", Positions(view.of, "rider", key))

toResponse(age) == {Item("PERSON", "driver", a) : a \in {age} \ {Nowhere}}

\* A passenger is told where the car is; if Redis cannot be read there is no answer.
getRideTracking ==
  /\ view.what = "tracking"
  /\ \/ Look("access", "key", {})
     \/ Look("key", "answered", toResponse(car[view.of]))
     \/ Look("key", "failed", {})

\* The request is over.
Close ==
  /\ view.at \in {"answered", "failed"} /\ view # NoView /\ view' = NoView
  /\ UNCHANGED <<ride, sos, car, own, publishing>>

Next ==
  \/ Meanwhile \/ Tick
  \/ Begin("list", "TRIGGERED", 0) \/ Begin("map", "rides", 0)
  \/ \E s \in Soses : Begin("tracking", "access", s)
  \/ \E s \in Active : Begin("positions", "driver", s)
  \/ liveMonitoringActiveSos \/ liveMonitoringMap \/ getLocationsForAdmin \/ getRideTracking
  \/ Close

Spec == Init /\ [][Next]_monitorVars

-----------------------------------------------------------------------------
Answered(what) == view.what = what /\ view.at = "answered"
Shows(s) == \E i \in view.shown : i.kind = "SOS" /\ i.of = s

\* Statuses only move forward and the list reads them in that order: an SOS that
\* is active all the while is listed, unless newer ones fill its page.
ActiveNeverMissed ==
  Answered("list") => \A s \in view.active :
    Shows(s) \/ Cardinality({r \in Soses : r > s /\ Shows(r)}) >= Limit

\* An SOS that is active all the while is on the map, if it was called with a
\* place or the car on its way is known.
MapShowsTheActive ==
  Answered("map") => \A s \in view.active : sos[s].located \/ s \in view.known => Shows(s)

\* Nobody is shown where a person was longer ago than the limit.
PositionsAreRecent == \A i \in view.shown : i.kind = "PERSON" => i.age < Gone

=============================================================================
