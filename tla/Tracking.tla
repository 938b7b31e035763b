------------------------------ MODULE Tracking ------------------------------
(***************************************************************************)
(* The live location of one ride: src/src/tracking/.                       *)
(*                                                                         *)
(* The driver's location is one Redis key with a time to live.  An update  *)
(* reads the ride, then the key, and then writes the key; nothing holds    *)
(* the three together, and several updates may be under way.  The end of a *)
(* ride is committed first and clears the key afterwards, as well as Redis *)
(* lets it.  Passengers join a room while the ride is under way.  Age and  *)
(* elapsed time are counted in steps: 1 is past the limit for a fresh      *)
(* location or a short interval, and TimeToLive past that for the key.     *)
(***************************************************************************)
EXTENDS Naturals

CONSTANTS Updates,   \* requests of the driver's app that may be under way
          Sockets,   \* of passengers
          Places, Stamps,
          TimeToLive \* RIDE_TRACKING_TTL_SECONDS, in steps

VARIABLES trip,    \* status of the ride
          seats,   \* sockets of passengers whose booking allows them to follow
          stored,  \* the key: place, stamp and age
          since,   \* steps since the last accepted update, as the server remembers it
          update,  \* request |-> how far it is, and what it says
          clearing,\* how far the end of the ride is with clearing
          room,    \* sockets in the ride's room
          joining  \* sockets that passed the check and are about to join

trackingVars == <<trip, seats, stored, since, update, clearing, room, joining>>

Nowhere == [place |-> "none", stamp |-> 0, age |-> 0]
NoUpdate == [at |-> "none", place |-> "none", stamp |-> 0]
Grace == 1 \* RIDE_TRACKING_OUT_OF_ORDER_GRACE_MS
LongAgo == 2

Init ==
  /\ trip = "PUBLISHED" /\ seats = Sockets
  /\ stored = Nowhere /\ since = LongAgo
  /\ update = [u \in Updates |-> NoUpdate]
  /\ clearing = "none" /\ room = {} /\ joining = {}

\* Mutant: a location is kept until somebody deletes it.
KeptForGood(location) == location

Aged(location) ==
  IF location = Nowhere \/ location.age + 1 >= TimeToLive THEN Nowhere
  ELSE [location EXCEPT !.age = @ + 1]

-----------------------------------------------------------------------------
(* The driver's updates.                                                   *)

accepts(status) == status = "IN_PROGRESS"

\* The ride is read.
updateDriverLocation(u, place, stamp) ==
  /\ update[u] = NoUpdate /\ accepts(trip)
  /\ update' = [update EXCEPT ![u] = [at |-> "asked", place |-> place, stamp |-> stamp]]
  /\ UNCHANGED <<trip, seats, stored, since, clearing, room, joining>>

OutOfOrder(u) == stored # Nowhere /\ update[u].stamp + Grace < stored.stamp

Repeated(u) == stored.place = update[u].place /\ stored.stamp = update[u].stamp

\* A move of some metres may follow sooner than the report of a standing car.
Throttled(u) ==
  IF stored.place = update[u].place THEN since < LongAgo ELSE since = 0

\* The key is read, or Redis is not ready, and the request is answered.
readStoredLocation(u) ==
  /\ update[u].at = "asked"
  /\ \/ /\ ~OutOfOrder(u) /\ ~Repeated(u) /\ ~Throttled(u)
        /\ update' = [update EXCEPT ![u].at = "accepted"]
     \/ update' = [update EXCEPT ![u] = NoUpdate]
  /\ UNCHANGED <<trip, seats, stored, since, clearing, room, joining>>

setLocationAtomic(u) ==
  /\ update[u].at = "accepted"
  /\ \/ /\ stored' = [place |-> update[u].place, stamp |-> update[u].stamp, age |-> 0]
        /\ since' = 0
     \/ UNCHANGED <<stored, since>> \* Redis fails
  /\ update' = [update EXCEPT ![u] = NoUpdate]
  /\ UNCHANGED <<trip, seats, clearing, room, joining>>

-----------------------------------------------------------------------------
(* Following.                                                              *)

\* The check reads the ride and then the booking, and the socket joins later.
assertCanJoinTrackingRoom(s) ==
  /\ trip = "IN_PROGRESS" /\ s \in seats /\ s \notin joining \cup room
  /\ joining' = joining \cup {s}
  /\ UNCHANGED <<trip, seats, stored, since, update, clearing, room>>

handleJoin(s) ==
  /\ s \in joining /\ joining' = joining \ {s} /\ room' = room \cup {s}
  /\ UNCHANGED <<trip, seats, stored, since, update, clearing>>

handleLeave(s) ==
  /\ s \in room /\ room' = room \ {s}
  /\ UNCHANGED <<trip, seats, stored, since, update, clearing, joining>>

-----------------------------------------------------------------------------
(* The ride.                                                               *)

Start ==
  /\ trip = "PUBLISHED" /\ trip' = "IN_PROGRESS"
  /\ UNCHANGED <<seats, stored, since, update, clearing, room, joining>>

\* A booking ends without its ride; its passenger's socket is left in the room.
EndBooking(s) ==
  /\ s \in seats /\ seats' = seats \ {s}
  /\ UNCHANGED <<trip, stored, since, update, clearing, room, joining>>

End ==
  /\ trip \in {"PUBLISHED", "IN_PROGRESS"} /\ trip' = "OVER" /\ clearing' = "key"
  /\ UNCHANGED <<seats, stored, since, update, room, joining>>

\* The failure to delete the key is swallowed.
clearRideTracking ==
  /\ clearing = "key" /\ clearing' = "room"
  /\ since' = LongAgo /\ stored' \in {Nowhere, stored}
  /\ UNCHANGED <<trip, seats, update, room, joining>>

broadcastTrackingEnded ==
  /\ clearing = "room" /\ clearing' = "done"
  /\ room' \in {{}, room}
  /\ UNCHANGED <<trip, seats, stored, since, update, joining>>

\* The process stops: what it remembers and what it was doing is gone.
Restart ==
  /\ since' = LongAgo /\ update' = [u \in Updates |-> NoUpdate]
  /\ room' = {} /\ joining' = {}
  /\ clearing' = IF clearing = "none" THEN "none" ELSE "done"
  /\ UNCHANGED <<trip, seats, stored>>

Tick ==
  /\ stored # Nowhere \/ since < LongAgo
  /\ stored' = Aged(stored)
  /\ since' = IF since < LongAgo THEN since + 1 ELSE since
  /\ UNCHANGED <<trip, seats, update, clearing, room, joining>>

Next ==
  \/ \E u \in Updates :
       \/ \E place \in Places, stamp \in Stamps : updateDriverLocation(u, place, stamp)
       \/ readStoredLocation(u) \/ setLocationAtomic(u)
  \/ \E s \in Sockets :
       assertCanJoinTrackingRoom(s) \/ handleJoin(s) \/ handleLeave(s) \/ EndBooking(s)
  \/ Start \/ End \/ clearRideTracking \/ broadcastTrackingEnded \/ Restart \/ Tick

\* Redis lets keys grow old, and a request that is under way is served.
Fairness ==
  /\ WF_trackingVars(Tick)
  /\ \A u \in Updates : WF_trackingVars(readStoredLocation(u) \/ setLocationAtomic(u))

Spec == Init /\ [][Next]_trackingVars /\ Fairness

-----------------------------------------------------------------------------

\* Once a ride is over its driver's location is forgotten for good, although
\* updates that were accepted before may write it after it was cleared, and the
\* clearing may fail.
LocationForgotten == trip = "OVER" ~> [](stored = Nowhere)

=============================================================================
