---------------------------- MODULE AssuredQueue ----------------------------
(***************************************************************************)
(* Assured rides that compete for the same passengers wait in a geographic *)
(* queue, of which one ride at a time is on offer:                         *)
(* src/src/assured/assured-queue.service.ts, and its callers in            *)
(* rides.service.ts (publish, update, start, complete),                    *)
(* bookings.service.ts (booking), assured-lifecycle.service.ts             *)
(* (cancellations and no-shows) and the admin's cancellation.              *)
(*                                                                         *)
(* A ride is ACTIVE (on offer while it has seats) or PENDING (waiting).    *)
(* An operation that may put a ride on offer takes the queue's advisory    *)
(* lock and the rows of its rides until it commits, so each operation is   *)
(* one action.  The unique index UQ_rides_assured_active_bookable_queue    *)
(* backs the queue up: it is modelled only in UpdateSeats, which relies on *)
(* it, so that what is checked of the other operations is their own doing. *)
(***************************************************************************)
EXTENDS Integers, FiniteSetsExt, TLC, FiniteSetTheorems, WellFoundedInduction, TLAPS

CONSTANTS N,           \* rides 1..N, numbered in the order of their creation
          Queues,      \* geographic queues
          Passengers,
          Undeposited, \* rides whose driver's deposit a coupon covers
          MaxSeats     \* bound: seats a driver publishes

Rides == 1..N

ASSUME AssuredQueueAssumption ==
  N \in Nat /\ MaxSeats \in Nat /\ Undeposited \subseteq Rides

VARIABLES rides,     \* ride |-> its rides row
          booked,    \* ride |-> passengers with a confirmed booking of one seat
          departed,  \* rides whose departure time has passed
          advanced   \* <<queue, ride>> whose FULL advance is in the event table

vars == <<rides, booked, departed, advanced>>

NoRide == [status |-> "NONE", queue |-> "none", total |-> 0, available |-> 0]

Init ==
  /\ rides = [r \in Rides |-> NoRide]
  /\ booked = [r \in Rides |-> {}]
  /\ departed = {}
  /\ advanced = {}

-----------------------------------------------------------------------------
(* The queue.                                                              *)

In(rs, q, status) == {r \in Rides : rs[r].queue = q /\ rs[r].status = status}

\* The rides of the queue a passenger can book.
Offers(rs, q) == {r \in In(rs, q, "ACTIVE") : rs[r].available > 0}

\* The rides findNextEligiblePending looks at.
Waiting(rs, q) == {r \in In(rs, q, "PENDING") : rs[r].available > 0}

\* Mutant: the youngest ride is promoted.
LastComes(rs, q) ==
  IF Offers(rs, q) # {} \/ Waiting(rs, q) = {} THEN rs
  ELSE [rs EXCEPT ![Max(Waiting(rs, q))].status = "ACTIVE"]

\* advanceQueueInTransaction, its event aside: the oldest waiting ride goes on
\* offer unless one is.
Advance(rs, q) ==
  IF Offers(rs, q) # {} \/ Waiting(rs, q) = {} THEN rs
  ELSE [rs EXCEPT ![Min(Waiting(rs, q))].status = "ACTIVE"]

\* A ride comes into a queue behind the one on offer.
PlaceIn(q, others) == IF others # {} THEN "PENDING" ELSE "ACTIVE"

Smaller(m, n) == IF m <= n THEN m ELSE n

\* Mutant: the seat returns whether or not another ride is on offer by now.
RestoreInPlace(r) ==
  [rides EXCEPT ![r].available = Smaller(rides[r].total, @ + 1)]

\* restoreSeatsSafelyInTransaction: an ACTIVE ride that would be on offer next
\* to another goes back to waiting, with the passengers it has.
Restore(r) ==
  LET demote == rides[r].status = "ACTIVE" /\ Offers(rides, rides[r].queue) \ {r} # {} IN
  [rides EXCEPT ![r].available = Smaller(rides[r].total, @ + 1),
                ![r].status = IF demote THEN "PENDING" ELSE @]

-----------------------------------------------------------------------------
(* Publishing and changing a ride.                                         *)

Publish(r, q, n) ==
  /\ rides[r] = NoRide /\ \A s \in 1..(r - 1) : rides[s] # NoRide
  /\ rides' = [rides EXCEPT ![r] =
       [status |-> PlaceIn(q, Offers(rides, q)), queue |-> q, total |-> n, available |-> n]]
  /\ UNCHANGED <<booked, departed, advanced>>

\* A waiting ride whose route or time is changed moves to the queue that fits.
Requeue(r, q) ==
  /\ rides[r].status = "PENDING" /\ rides[r].queue # q
  /\ rides' = [rides EXCEPT ![r].queue = q,
                            ![r].status = PlaceIn(q, Offers(rides, q) \ {r})]
  /\ UNCHANGED <<booked, departed, advanced>>

PreTrip == {"ACTIVE", "PENDING"}
OneOfferIn(rs) == \A q \in Queues : Cardinality(Offers(rs, q)) <= 1

\* The seats change only while no deposit depends on them; the unique index
\* aborts a change that would put a second ride on offer.
UpdateSeats(r, n) ==
  LET changed == [rides EXCEPT ![r].total = n,
                               ![r].available = n - Cardinality(booked[r])] IN
  /\ r \in Undeposited /\ rides[r].status \in PreTrip
  /\ Cardinality(booked[r]) <= n
  /\ OneOfferIn(changed)
  /\ rides' = changed
  /\ UNCHANGED <<booked, departed, advanced>>

-----------------------------------------------------------------------------
(* Bookings.                                                               *)

Bookable(r, p) ==
  /\ rides[r].status = "ACTIVE" /\ rides[r].available > 0
  /\ r \notin departed /\ p \notin booked[r]

\* The booking that takes the last seat advances the queue, once per ride.
Book(r, p) ==
  LET q == rides[r].queue
      taken == [rides EXCEPT ![r].available = @ - 1]
  IN
  /\ Bookable(r, p)
  /\ booked' = [booked EXCEPT ![r] = @ \cup {p}]
  /\ IF taken[r].available > 0 \/ <<q, r>> \in advanced
     THEN rides' = taken /\ UNCHANGED advanced
     ELSE rides' = Advance(taken, q) /\ advanced' = advanced \cup {<<q, r>>}
  /\ UNCHANGED departed

Open == PreTrip \cup {"IN_PROGRESS"}

Leave(r, p) ==
  /\ p \in booked[r] /\ rides[r].status \in Open
  /\ rides' = Restore(r)
  /\ booked' = [booked EXCEPT ![r] = @ \ {p}]
  /\ UNCHANGED <<departed, advanced>>

CancelByRider(r, p) == r \notin departed /\ Leave(r, p)

\* The settlement of an approved claim against a passenger.
RiderNoShow(r, p) == r \in departed /\ Leave(r, p)

-----------------------------------------------------------------------------
(* The trip and its cancellation.                                          *)

Depart(r) ==
  /\ rides[r] # NoRide /\ departed' = departed \cup {r}
  /\ UNCHANGED <<rides, booked, advanced>>

\* Only the row of the ride itself is locked and changed: nobody is promoted.
Start(r) ==
  /\ rides[r].status = "ACTIVE"
  /\ rides' = [rides EXCEPT ![r].status = "IN_PROGRESS"]
  /\ UNCHANGED <<booked, departed, advanced>>

Complete(r) ==
  /\ rides[r].status = "IN_PROGRESS"
  /\ rides' = [rides EXCEPT ![r].status = "COMPLETED"]
  /\ UNCHANGED <<booked, departed, advanced>>

\* Mutant: the cancellation of the ride on offer leaves the queue as it is.
EndQuietly(r) ==
  /\ rides' = [rides EXCEPT ![r].status = "CANCELLED", ![r].available = rides[r].total]
  /\ booked' = [booked EXCEPT ![r] = {}]
  /\ UNCHANGED <<departed, advanced>>

\* All bookings end; the next ride goes on offer if this one was.
End(r) ==
  LET ended == [rides EXCEPT ![r].status = "CANCELLED",
                  ![r].available = Smaller(rides[r].total, @ + Cardinality(booked[r]))] IN
  /\ rides' = IF rides[r].status = "ACTIVE" THEN Advance(ended, rides[r].queue) ELSE ended
  /\ booked' = [booked EXCEPT ![r] = {}]
  /\ UNCHANGED <<departed, advanced>>

CancelByDriver(r) == rides[r].status \in PreTrip /\ r \notin departed /\ End(r)

\* The guard of an approved claim against the driver: a confirmed passenger of
\* a ride that is on offer or on its way.
Reportable(r) ==
  r \in departed /\ booked[r] # {} /\ rides[r].status \in {"ACTIVE", "IN_PROGRESS"}

DriverNoShow(r) == Reportable(r) /\ End(r)

CancelByAdmin(r) == rides[r].status \in Open /\ End(r)

-----------------------------------------------------------------------------
\* Every ride was published and is over.
Over ==
  /\ \A r \in Rides : rides[r].status \in {"COMPLETED", "CANCELLED"} /\ r \in departed
  /\ UNCHANGED vars

Next ==
  \/ \E r \in Rides :
       \/ \E q \in Queues : Requeue(r, q) \/ \E n \in 1..MaxSeats : Publish(r, q, n)
       \/ \E n \in 1..MaxSeats : UpdateSeats(r, n)
       \/ \E p \in Passengers : Book(r, p) \/ CancelByRider(r, p) \/ RiderNoShow(r, p)
       \/ Depart(r) \/ Start(r) \/ Complete(r)
       \/ CancelByDriver(r) \/ DriverNoShow(r) \/ CancelByAdmin(r)
  \/ Over

Spec == Init /\ [][Next]_vars

-----------------------------------------------------------------------------
(* Properties.                                                             *)

\* The rides, their passengers and the events stay within their domains.
TypeOK ==
  /\ rides \in [Rides -> [status : Open \cup {"NONE", "COMPLETED", "CANCELLED"},
                          queue : Queues \cup {"none"},
                          total : 0..MaxSeats, available : 0..MaxSeats]]
  /\ booked \in [Rides -> SUBSET Passengers]
  /\ departed \subseteq Rides
  /\ advanced \subseteq Queues \X Rides

\* However rides are published, moved, filled, left and cancelled, the checks
\* of the code alone never put two rides of a queue on offer.
OneOffer == OneOfferIn(rides)

\* A waiting ride that goes on offer in its own queue has seats, and no older
\* ride with seats waits there.
PromotedInOrder ==
  [][\A r \in Rides :
       rides[r].status = "PENDING" /\ rides'[r].status = "ACTIVE"
         /\ rides'[r].queue = rides[r].queue
       => /\ r \in Waiting(rides, rides[r].queue)
          /\ \A s \in Waiting(rides, rides[r].queue) : r <= s]_vars

\* When the ride on offer is cancelled, whoever cancels it, the queue has an
\* offer again unless nobody waits.
CancellationPromotes ==
  [][\A r \in Rides :
       rides[r].status = "ACTIVE" /\ rides'[r].status = "CANCELLED"
       => Offers(rides', rides[r].queue) # {} \/ Waiting(rides', rides[r].queue) = {}]_vars

\* assured-lifecycle.service.ts: riders cannot cancel after departure, they use
\* the no-show flow.  The passengers of an open departed ride have that way out.
NoShowFlowIsOpen ==
  \A r \in departed : booked[r] # {} /\ rides[r].status \in Open => Reportable(r)

-----------------------------------------------------------------------------
(* For the runs: three rides, the second without a deposit, and two        *)
(* passengers.  Rides of two seats share one queue; rides of one seat also *)
(* move between two.                                                       *)

\* Passengers are interchangeable, and so are the queues.
Alike == Permutations(Passengers) \cup Permutations(Queues)

\* A second queue is used while no ride has more than one seat.
TwoQueuesOneSeat ==
  \/ \A r, s \in Rides : rides[r].queue = rides[s].queue \/ "NONE" \in {rides[r].status, rides[s].status}
  \/ \A r \in Rides : rides[r].total <= 1

-----------------------------------------------------------------------------
(* What TLAPS proves of the queue, for any number of rides and any queues, *)
(* passengers and seats: one ride of a queue is on offer, waiting rides go *)
(* on offer in the order of their creation, and a cancelled offer is       *)
(* replaced.  The inductive invariant:                                     *)

\* Seats are never minted nor lost by the cap on what a cancellation gives
\* back: the free seats of an open ride and its passengers add up to the seats
\* it published.
SeatsMatchBookings ==
  \A r \in Rides : rides[r].status \in Open =>
    rides[r].available + Cardinality(booked[r]) = rides[r].total

\* A published ride is in a queue, and only a published one has passengers.
BookingsFit ==
  \A r \in Rides : /\ IsFiniteSet(booked[r])
                   /\ rides[r].status = "NONE" => booked[r] = {}
                   /\ rides[r].status # "NONE" => rides[r].queue \in Queues
                   /\ rides[r].status \in Open =>
                        rides[r].available + Cardinality(booked[r]) = rides[r].total

OnOffer(rs, r) == rs[r].status = "ACTIVE" /\ rs[r].available > 0

\* One ride on offer per queue, without counting.
NoTwoOffers(rs) ==
  \A r, s \in Rides : OnOffer(rs, r) /\ OnOffer(rs, s) /\ rs[r].queue = rs[s].queue => r = s

QueueInv == TypeOK /\ BookingsFit /\ NoTwoOffers(rides)

Ride == [status : Open \cup {"NONE", "COMPLETED", "CANCELLED"},
         queue : Queues \cup {"none"}, total : 0..MaxSeats, available : 0..MaxSeats]

-----------------------------------------------------------------------------
(* Counting and choosing.                                                  *)

\* A set of naturals has a least member: Min is what its name says.
LEMMA MinIsLeast ==
  ASSUME NEW S \in SUBSET Nat, S # {}
  PROVE  Min(S) \in S /\ \A n \in S : Min(S) <= n
<1>1. PICK m \in S : \A n \in S : <<n, m>> \notin OpToRel(<, Nat)
  <2> HIDE DEF OpToRel
  <2> QED BY NatLessThanWellFounded, WFMin
<1>2. \A n \in S : ~(n < m)
  BY <1>1, Zenon DEF OpToRel
<1>3. \A n \in S : m <= n
  BY <1>2
<1> QED BY <1>3 DEF Min

\* A set of rides has at most one member exactly if no two are different.
LEMMA AtMostOne ==
  ASSUME NEW S \in SUBSET Rides
  PROVE  Cardinality(S) <= 1 <=> \A r, s \in S : r = s
<1>1. IsFiniteSet(S) /\ Cardinality(S) \in Nat
  <2>1. IsFiniteSet(Rides)
    BY AssuredQueueAssumption, FS_Interval DEF Rides
  <2>2. IsFiniteSet(S)
    BY <2>1, FS_Subset
  <2> QED BY <2>2, FS_CardinalityType
<1>2. Cardinality(S) = 0 <=> S = {}
  BY <1>1, FS_EmptySet
<1>3. Cardinality(S) = 1 <=> \E r : S = {r}
  BY <1>1, FS_Singleton
<1> QED BY <1>1, <1>2, <1>3

\* Counting the offers of each queue, and comparing any two of them, agree.
LEMMA OneOfferIsNoTwo ==
  ASSUME NEW rs, \A r \in Rides : OnOffer(rs, r) => rs[r].queue \in Queues
  PROVE  OneOfferIn(rs) <=> NoTwoOffers(rs)
<1>1. ASSUME NEW q \in Queues
      PROVE  Cardinality(Offers(rs, q)) <= 1 <=> \A r, s \in Offers(rs, q) : r = s
  <2>1. Offers(rs, q) \in SUBSET Rides
    BY DEF Offers, In
  <2> HIDE DEF Offers
  <2> QED BY <2>1, AtMostOne
<1>2. OneOfferIn(rs) <=> \A q \in Queues : \A r, s \in Offers(rs, q) : r = s
  BY <1>1 DEF OneOfferIn
<1>3. \A q, r : r \in Offers(rs, q) <=> r \in Rides /\ OnOffer(rs, r) /\ rs[r].queue = q
  BY DEF Offers, In, OnOffer
<1>4. ASSUME NoTwoOffers(rs)
      PROVE  \A q \in Queues : \A r, s \in Offers(rs, q) : r = s
  BY <1>3, <1>4 DEF NoTwoOffers
<1>5. ASSUME \A q \in Queues : \A r, s \in Offers(rs, q) : r = s
      PROVE  NoTwoOffers(rs)
  <2> SUFFICES ASSUME NEW r \in Rides, NEW s \in Rides,
                      OnOffer(rs, r), OnOffer(rs, s), rs[r].queue = rs[s].queue
               PROVE  r = s
    BY DEF NoTwoOffers
  <2>1. rs[r].queue \in Queues /\ r \in Offers(rs, rs[r].queue) /\ s \in Offers(rs, rs[r].queue)
    BY <1>3
  <2> QED BY <1>5, <2>1
<1> QED BY <1>2, <1>4, <1>5

-----------------------------------------------------------------------------
(* What the queue does to its rides.                                       *)

\* An advance changes at most the oldest waiting ride of the queue, and only
\* while none of its rides is on offer.
LEMMA AdvanceLeast ==
  ASSUME NEW rs \in [Rides -> Ride], NEW q
  PROVE  \/ /\ Advance(rs, q) = rs
            /\ Offers(rs, q) # {} \/ Waiting(rs, q) = {}
         \/ \E m \in Waiting(rs, q) :
              /\ Offers(rs, q) = {}
              /\ \A s \in Waiting(rs, q) : m <= s
              /\ Advance(rs, q) = [rs EXCEPT ![m].status = "ACTIVE"]
<1>1. CASE Offers(rs, q) # {} \/ Waiting(rs, q) = {}
  BY <1>1 DEF Advance
<1>2. CASE Offers(rs, q) = {} /\ Waiting(rs, q) # {}
  <2>1. Waiting(rs, q) \in SUBSET Nat
    BY AssuredQueueAssumption DEF Waiting, In, Rides
  <2>2. /\ Min(Waiting(rs, q)) \in Waiting(rs, q)
        /\ \A s \in Waiting(rs, q) : Min(Waiting(rs, q)) <= s
    BY <1>2, <2>1, MinIsLeast
  <2>3. Advance(rs, q) = [rs EXCEPT ![Min(Waiting(rs, q))].status = "ACTIVE"]
    BY <1>2 DEF Advance
  <2> QED BY <1>2, <2>2, <2>3
<1> QED BY <1>1, <1>2

\* Advancing a queue only puts a waiting ride on offer.
LEMMA AdvanceKeepsStatus ==
  ASSUME NEW rs \in [Rides -> Ride], NEW q, NEW r \in Rides,
         Advance(rs, q)[r].status # rs[r].status
  PROVE  rs[r].status = "PENDING" /\ Advance(rs, q)[r].status = "ACTIVE"
<1>1. PICK m \in Waiting(rs, q) : Advance(rs, q) = [rs EXCEPT ![m].status = "ACTIVE"]
  BY AdvanceLeast
<1> QED BY <1>1 DEF Waiting, In, Ride

\* Advancing a queue keeps the rows, and one offer per queue.
LEMMA AdvanceKeepsOneOffer ==
  ASSUME NEW rs \in [Rides -> Ride], NEW q, NoTwoOffers(rs)
  PROVE  /\ Advance(rs, q) \in [Rides -> Ride]
         /\ NoTwoOffers(Advance(rs, q))
         /\ \A r \in Rides : /\ Advance(rs, q)[r].available = rs[r].available
                             /\ Advance(rs, q)[r].queue = rs[r].queue
                             /\ Advance(rs, q)[r].total = rs[r].total
                             /\ Advance(rs, q)[r].status # rs[r].status =>
                                  rs[r].status = "PENDING" /\ Advance(rs, q)[r].status = "ACTIVE"
<1>1. CASE Advance(rs, q) = rs
  BY <1>1
<1>2. CASE \E m \in Waiting(rs, q) :
             /\ Offers(rs, q) = {}
             /\ Advance(rs, q) = [rs EXCEPT ![m].status = "ACTIVE"]
  <2>1. PICK m \in Rides : /\ rs[m].queue = q /\ rs[m].status = "PENDING" /\ rs[m].available > 0
                           /\ \A r \in Rides : ~(rs[r].queue = q /\ OnOffer(rs, r))
                           /\ Advance(rs, q) = [rs EXCEPT ![m].status = "ACTIVE"]
    BY <1>2 DEF Waiting, Offers, In, OnOffer
  <2>2. Advance(rs, q) \in [Rides -> Ride]
    BY <2>1 DEF Ride, Open, PreTrip
  <2>3. \A r \in Rides : /\ Advance(rs, q)[r].available = rs[r].available
                         /\ Advance(rs, q)[r].total = rs[r].total
                         /\ Advance(rs, q)[r].queue = rs[r].queue
                         /\ Advance(rs, q)[r].status = IF r = m THEN "ACTIVE" ELSE rs[r].status
    BY <2>1 DEF Ride
  <2>4. NoTwoOffers(Advance(rs, q))
    BY <2>1, <2>3 DEF NoTwoOffers, OnOffer
  <2> QED BY <2>1, <2>2, <2>3, <2>4
<1> QED BY <1>1, <1>2, AdvanceLeast
-----------------------------------------------------------------------------
(* Every operation keeps the invariant.                                    *)

\* TypeOK with the rides as records of their fields.
LEMMA TypeUnfolds ==
  TypeOK <=> /\ rides \in [Rides -> Ride]
             /\ booked \in [Rides -> SUBSET Passengers]
             /\ departed \subseteq Rides
             /\ advanced \subseteq Queues \X Rides
BY DEF TypeOK, Ride

\* With no ride published the invariant holds.
LEMMA InitQueueInv == Init => QueueInv
<1> SUFFICES ASSUME Init PROVE QueueInv
  OBVIOUS
<1>1. TypeOK
  BY TypeUnfolds, AssuredQueueAssumption DEF Init, NoRide, Ride
<1>2. BookingsFit
  BY FS_EmptySet DEF Init, NoRide, BookingsFit, Open, PreTrip
<1>3. NoTwoOffers(rides)
  BY DEF Init, NoRide, NoTwoOffers, OnOffer
<1> QED BY <1>1, <1>2, <1>3 DEF QueueInv

\* A ride that is published goes on offer only where there is none.
LEMMA PublishKeeps ==
  ASSUME QueueInv, NEW r \in Rides, NEW q \in Queues, NEW n \in 1..MaxSeats, Publish(r, q, n)
  PROVE  QueueInv'
<1>1. TypeOK /\ BookingsFit /\ NoTwoOffers(rides)
  BY DEF QueueInv
<1>2. rides \in [Rides -> Ride] /\ booked \in [Rides -> SUBSET Passengers]
  BY <1>1, TypeUnfolds
<1>3. PICK st \in PreTrip :
        /\ rides' = [rides EXCEPT ![r] = [status |-> st, queue |-> q, total |-> n, available |-> n]]
        /\ st = "ACTIVE" => Offers(rides, q) = {}
  BY DEF Publish, PlaceIn, PreTrip
<1>4. rides' \in [Rides -> Ride]
  BY <1>2, <1>3, AssuredQueueAssumption DEF Ride, Open
<1>5. NoTwoOffers(rides')
  BY <1>1, <1>2, <1>3 DEF NoTwoOffers, OnOffer, Offers, In
<1>6. rides[r].status = "NONE" /\ UNCHANGED <<booked, departed, advanced>>
  BY DEF Publish, NoRide
<1>7. TypeOK'
  BY <1>1, <1>4, <1>6 DEF TypeOK, Ride
<1>8. BookingsFit'
  BY <1>1, <1>2, <1>3, <1>6, FS_EmptySet DEF BookingsFit
<1> QED BY <1>5, <1>7, <1>8 DEF QueueInv


\* A published ride is in a queue.
LEMMA Published ==
  ASSUME BookingsFit, NEW r \in Rides, rides[r].status # "NONE"
  PROVE  rides[r].queue \in Queues
BY DEF BookingsFit

\* A ride that moves to another queue goes on offer only where there is none.
LEMMA RequeueKeeps ==
  ASSUME QueueInv, NEW r \in Rides, NEW q \in Queues, Requeue(r, q)
  PROVE  QueueInv'
<1>1. TypeOK /\ BookingsFit /\ NoTwoOffers(rides) /\ rides \in [Rides -> Ride]
  BY TypeUnfolds DEF QueueInv
<1>2. PICK st \in PreTrip :
        /\ rides' = [rides EXCEPT ![r].queue = q, ![r].status = st]
        /\ st = "ACTIVE" => Offers(rides, q) \ {r} = {}
  BY DEF Requeue, PlaceIn, PreTrip
<1>3. rides[r].status = "PENDING" /\ UNCHANGED <<booked, departed, advanced>>
  BY DEF Requeue
<1>4. rides' \in [Rides -> Ride]
  <2>1. rides[r] \in Ride
    BY <1>1
  <2>2. [rides[r] EXCEPT !.queue = q, !.status = st] \in Ride
    BY <2>1 DEF Ride, PreTrip, Open
  <2> QED BY <1>1, <1>2, <2>2
<1>5. \A s \in Rides : /\ rides'[s].available = rides[s].available
                       /\ rides'[s].total = rides[s].total
                       /\ rides'[s].queue = IF s = r THEN q ELSE rides[s].queue
                       /\ rides'[s].status = IF s = r THEN st ELSE rides[s].status
  BY <1>1, <1>2 DEF Ride
<1>6. NoTwoOffers(rides')
  BY <1>1, <1>2, <1>5 DEF NoTwoOffers, OnOffer, Offers, In
<1>7. BookingsFit'
  BY <1>1, <1>2, <1>3, <1>5 DEF BookingsFit, Open, PreTrip
<1> QED BY <1>1, <1>3, <1>4, <1>6, <1>7 DEF QueueInv, TypeOK, Ride

\* The unique index does not let a second ride on offer through.
LEMMA UpdateSeatsKeeps ==
  ASSUME QueueInv, NEW r \in Rides, NEW n \in 1..MaxSeats, UpdateSeats(r, n)
  PROVE  QueueInv'
<1>1. TypeOK /\ BookingsFit /\ NoTwoOffers(rides) /\ rides \in [Rides -> Ride]
  BY TypeUnfolds DEF QueueInv
<1> DEFINE changed == [rides EXCEPT ![r].total = n, ![r].available = n - Cardinality(booked[r])]
<1>2. /\ rides' = changed /\ OneOfferIn(changed)
      /\ UNCHANGED <<booked, departed, advanced>>
      /\ Cardinality(booked[r]) <= n
      /\ rides[r].status \in PreTrip
  BY DEF UpdateSeats
<1>3. Cardinality(booked[r]) \in Nat
  BY <1>1, FS_CardinalityType DEF BookingsFit
<1>4. changed \in [Rides -> Ride]
  BY <1>1, <1>2, <1>3, AssuredQueueAssumption DEF Ride
<1>5. \A s \in Rides : changed[s].status = rides[s].status /\ changed[s].queue = rides[s].queue
  BY <1>1 DEF Ride
<1>6. BookingsFit'
  BY <1>1, <1>2, <1>3 DEF BookingsFit, Ride
<1>7. \A s \in Rides : OnOffer(changed, s) => changed[s].queue \in Queues
  BY <1>1, <1>5, Published DEF OnOffer
<1>8. NoTwoOffers(changed)
  <2> HIDE DEF changed
  <2> QED BY <1>2, <1>7, OneOfferIsNoTwo
<1> QED BY <1>1, <1>2, <1>4, <1>6, <1>8 DEF QueueInv, TypeOK, Ride

\* What a booking, a cancellation and the end of a ride have in common: the
\* bookings fit again once the queue has advanced.
LEMMA AdvanceKeepsInv ==
  ASSUME TypeOK, NEW rs \in [Rides -> Ride], NEW bs \in [Rides -> SUBSET Passengers],
         NEW q, NoTwoOffers(rs),
         \A s \in Rides : /\ IsFiniteSet(bs[s])
                          /\ rs[s].status = "NONE" => bs[s] = {}
                          /\ rs[s].status # "NONE" => rs[s].queue \in Queues
                          /\ rs[s].status \in Open =>
                               rs[s].available + Cardinality(bs[s]) = rs[s].total,
         rides' = rs \/ rides' = Advance(rs, q), booked' = bs,
         departed' = departed, advanced' \subseteq Queues \X Rides
  PROVE  QueueInv'
<1>1. CASE rides' = rs
  BY <1>1 DEF QueueInv, TypeOK, BookingsFit, Ride
<1>2. CASE rides' = Advance(rs, q)
  <2>1. /\ rides' \in [Rides -> Ride] /\ NoTwoOffers(rides')
        /\ \A s \in Rides : /\ rides'[s].available = rs[s].available
                            /\ rides'[s].total = rs[s].total
                            /\ rides'[s].queue = rs[s].queue
                            /\ rides'[s].status # rs[s].status =>
                                 rs[s].status = "PENDING" /\ rides'[s].status = "ACTIVE"
    BY <1>2, AdvanceKeepsOneOffer
  <2>2. BookingsFit'
    BY <2>1 DEF BookingsFit, Open, PreTrip
  <2> QED BY <2>1, <2>2 DEF QueueInv, TypeOK, Ride
<1> QED BY <1>1, <1>2

\* A booking takes a seat; the last one puts the next ride on offer.
LEMMA BookKeeps ==
  ASSUME QueueInv, NEW r \in Rides, NEW p \in Passengers, Book(r, p)
  PROVE  QueueInv'
<1>1. TypeOK /\ BookingsFit /\ NoTwoOffers(rides) /\ rides \in [Rides -> Ride]
      /\ booked \in [Rides -> SUBSET Passengers]
  BY TypeUnfolds DEF QueueInv
<1> DEFINE q == rides[r].queue
           taken == [rides EXCEPT ![r].available = @ - 1]
           filled == [booked EXCEPT ![r] = @ \cup {p}]
<1>2. /\ rides[r].status = "ACTIVE" /\ rides[r].available > 0 /\ p \notin booked[r]
      /\ booked' = filled /\ UNCHANGED departed
      /\ \/ rides' = taken /\ UNCHANGED advanced
         \/ rides' = Advance(taken, q) /\ advanced' = advanced \cup {<<q, r>>}
  BY DEF Book, Bookable
<1>3. taken \in [Rides -> Ride] /\ filled \in [Rides -> SUBSET Passengers]
  BY <1>1, <1>2, AssuredQueueAssumption DEF Ride
<1>4. \A s \in Rides : /\ taken[s].status = rides[s].status
                       /\ taken[s].queue = rides[s].queue
                       /\ taken[s].total = rides[s].total
                       /\ taken[s].available = IF s = r THEN rides[s].available - 1 ELSE rides[s].available
                       /\ filled[s] = IF s = r THEN booked[s] \cup {p} ELSE booked[s]
  BY <1>1 DEF Ride
<1>5. NoTwoOffers(taken)
  BY <1>1, <1>4 DEF NoTwoOffers, OnOffer, Ride
<1>6. /\ IsFiniteSet(filled[r])
      /\ Cardinality(booked[r]) \in Nat
      /\ Cardinality(filled[r]) = Cardinality(booked[r]) + 1
  BY <1>1, <1>2, <1>4, FS_AddElement, FS_CardinalityType DEF BookingsFit
<1>7. \A s \in Rides : /\ IsFiniteSet(filled[s])
                       /\ taken[s].status = "NONE" => filled[s] = {}
                       /\ taken[s].status # "NONE" => taken[s].queue \in Queues
                       /\ taken[s].status \in Open =>
                            taken[s].available + Cardinality(filled[s]) = taken[s].total
  <2> SUFFICES ASSUME NEW s \in Rides
               PROVE  /\ IsFiniteSet(filled[s])
                      /\ taken[s].status = "NONE" => filled[s] = {}
                      /\ taken[s].status # "NONE" => taken[s].queue \in Queues
                      /\ taken[s].status \in Open =>
                           taken[s].available + Cardinality(filled[s]) = taken[s].total
    OBVIOUS
  <2>1. rides[s].available \in Nat /\ rides[s].total \in Nat
    BY <1>1, AssuredQueueAssumption DEF Ride
  <2> HIDE DEF taken, filled
  <2>2. CASE s = r
    <3>1. rides[r].available + Cardinality(booked[r]) = rides[r].total /\ rides[r].queue \in Queues
      BY <1>1, <1>2 DEF BookingsFit, Open, PreTrip
    <3>2. /\ taken[r].available = rides[r].available - 1 /\ taken[r].total = rides[r].total
          /\ taken[r].status = "ACTIVE" /\ taken[r].queue = rides[r].queue
      BY <1>2, <1>4
    <3> QED BY <1>6, <2>1, <2>2, <3>1, <3>2
  <2>3. CASE s # r
    BY <1>1, <1>4, <2>3 DEF BookingsFit
  <2> QED BY <2>2, <2>3
<1>8. advanced' \subseteq Queues \X Rides
  BY <1>1, <1>2, Published DEF TypeOK
<1> HIDE DEF taken, filled, q
<1> QED BY <1>1, <1>2, <1>3, <1>5, <1>7, <1>8, AdvanceKeepsInv

\* The cap of Restore never bites: a passenger who leaves had a seat.
LEMMA LeaveKeeps ==
  ASSUME QueueInv, NEW r \in Rides, NEW p, Leave(r, p)
  PROVE  QueueInv'
<1>1. TypeOK /\ BookingsFit /\ NoTwoOffers(rides) /\ rides \in [Rides -> Ride]
      /\ booked \in [Rides -> SUBSET Passengers]
  BY TypeUnfolds DEF QueueInv
<1> DEFINE left == [booked EXCEPT ![r] = @ \ {p}]
<1>2. /\ p \in booked[r] /\ rides[r].status \in Open
      /\ rides' = Restore(r) /\ booked' = left /\ UNCHANGED <<departed, advanced>>
  BY DEF Leave
<1>3. /\ IsFiniteSet(booked[r]) /\ IsFiniteSet(left[r])
      /\ Cardinality(booked[r]) \in Nat /\ Cardinality(left[r]) \in Nat
      /\ Cardinality(left[r]) = Cardinality(booked[r]) - 1
  BY <1>1, <1>2, FS_RemoveElement, FS_CardinalityType DEF BookingsFit
<1>4. /\ rides[r].available + Cardinality(booked[r]) = rides[r].total
      /\ rides[r].available \in Nat /\ rides[r].total \in Nat
  BY <1>1, <1>2, AssuredQueueAssumption DEF BookingsFit, Ride
<1>5. Smaller(rides[r].total, rides[r].available + 1) = rides[r].available + 1
  BY <1>3, <1>4 DEF Smaller
<1>6. PICK st \in Open :
        /\ rides' = [rides EXCEPT ![r].available = Smaller(rides[r].total, @ + 1), ![r].status = st]
        /\ st = rides[r].status \/ st = "PENDING"
        /\ st = "ACTIVE" => rides[r].status = "ACTIVE" /\ Offers(rides, rides[r].queue) \ {r} = {}
  BY <1>1, <1>2 DEF Restore, Open, PreTrip, Ride
<1>7. \A s \in Rides : /\ rides'[s].status = IF s = r THEN st ELSE rides[s].status
                       /\ rides'[s].queue = rides[s].queue
                       /\ rides'[s].total = rides[s].total
                       /\ rides'[s].available = IF s = r THEN rides[s].available + 1 ELSE rides[s].available
                       /\ left[s] = IF s = r THEN booked[s] \ {p} ELSE booked[s]
  BY <1>1, <1>5, <1>6 DEF Ride
<1>8. rides' \in [Rides -> Ride] /\ left \in [Rides -> SUBSET Passengers]
  <2>1. rides[r].available + 1 \in 0..MaxSeats
    <3>1. rides[r].available + 1 <= rides[r].total
      BY <1>3, <1>4
    <3>2. rides[r].total \in 0..MaxSeats
      BY <1>1 DEF Ride
    <3> QED BY <1>4, <3>1, <3>2, AssuredQueueAssumption
  <2>2. rides' = [rides EXCEPT ![r].available = rides[r].available + 1, ![r].status = st]
    BY <1>1, <1>5, <1>6 DEF Ride
  <2> DEFINE m == rides[r].available + 1
  <2>3. rides' = [rides EXCEPT ![r].available = m, ![r].status = st]
    BY <2>2
  <2>4. m \in 0..MaxSeats
    BY <2>1
  <2> HIDE DEF m
  <2>5. \A s \in Rides : rides[s] \in Ride /\ [rides[s] EXCEPT !.available = m, !.status = st] \in Ride
    BY <1>1, <2>4 DEF Ride
  <2>6. rides' = [rides EXCEPT ![r] = [rides[r] EXCEPT !.available = m, !.status = st]]
    BY <1>1, <2>3 DEF Ride
  <2>7. rides' \in [Rides -> Ride]
    BY <1>1, <2>5, <2>6
  <2> QED BY <1>1, <2>7
<1>9. NoTwoOffers(rides')
  BY <1>1, <1>6, <1>7 DEF NoTwoOffers, OnOffer, Offers, In
<1>10. \A s \in Rides : /\ IsFiniteSet(left[s])
                        /\ rides'[s].status = "NONE" => left[s] = {}
                        /\ rides'[s].status # "NONE" => rides'[s].queue \in Queues
                        /\ rides'[s].status \in Open =>
                             rides'[s].available + Cardinality(left[s]) = rides'[s].total
  <2> SUFFICES ASSUME NEW s \in Rides
               PROVE  /\ IsFiniteSet(left[s])
                      /\ rides'[s].status = "NONE" => left[s] = {}
                      /\ rides'[s].status # "NONE" => rides'[s].queue \in Queues
                      /\ rides'[s].status \in Open =>
                           rides'[s].available + Cardinality(left[s]) = rides'[s].total
    OBVIOUS
  <2>1. CASE s = r
    <3>1. rides[r].queue \in Queues /\ st # "NONE"
      BY <1>1, <1>2, <1>6, Published DEF Open, PreTrip
    <3>2. /\ rides'[r].available = rides[r].available + 1 /\ rides'[r].total = rides[r].total
          /\ rides'[r].status = st /\ rides'[r].queue = rides[r].queue
      BY <1>7
    <3> HIDE DEF left
    <3> QED BY <1>3, <1>4, <2>1, <3>1, <3>2
  <2>2. CASE s # r
    <3> HIDE DEF left
    <3> QED BY <1>1, <1>7, <2>2 DEF BookingsFit
  <2> QED BY <2>1, <2>2
<1> HIDE DEF left
<1> QED BY <1>1, <1>2, <1>8, <1>9, <1>10 DEF QueueInv, TypeOK, BookingsFit, Ride

\* A ride that is called off makes room for the next of its queue.
LEMMA EndKeeps ==
  ASSUME QueueInv, NEW r \in Rides, rides[r].status \in Open, End(r)
  PROVE  QueueInv'
<1>1. TypeOK /\ BookingsFit /\ NoTwoOffers(rides) /\ rides \in [Rides -> Ride]
      /\ booked \in [Rides -> SUBSET Passengers]
  BY TypeUnfolds DEF QueueInv
<1> DEFINE seats == Smaller(rides[r].total, rides[r].available + Cardinality(booked[r]))
           ended == [rides EXCEPT ![r].status = "CANCELLED", ![r].available = seats]
           freed == [booked EXCEPT ![r] = {}]
<1>2. /\ rides' = ended \/ rides' = Advance(ended, rides[r].queue)
      /\ booked' = freed /\ UNCHANGED <<departed, advanced>>
  <2>1. ended = [rides EXCEPT ![r].status = "CANCELLED",
                   ![r].available = Smaller(rides[r].total, @ + Cardinality(booked[r]))]
    BY <1>1 DEF Ride
  <2> HIDE DEF ended, freed
  <2> QED BY <2>1 DEF End, freed
<1>3. seats \in 0..MaxSeats
  <2>1. Cardinality(booked[r]) \in Nat
    BY <1>1, FS_CardinalityType DEF BookingsFit
  <2>2. rides[r].total \in 0..MaxSeats /\ rides[r].available \in 0..MaxSeats
    BY <1>1 DEF Ride
  <2> QED BY <2>1, <2>2, AssuredQueueAssumption DEF Smaller
<1> HIDE DEF seats
<1>4. ended \in [Rides -> Ride] /\ freed \in [Rides -> SUBSET Passengers]
  BY <1>1, <1>3 DEF Ride
<1>5. \A s \in Rides : /\ ended[s].status = IF s = r THEN "CANCELLED" ELSE rides[s].status
                       /\ ended[s].queue = rides[s].queue
                       /\ ended[s].total = rides[s].total
                       /\ s # r => ended[s].available = rides[s].available
                       /\ freed[s] = IF s = r THEN {} ELSE booked[s]
  BY <1>1 DEF Ride
<1> HIDE DEF ended, freed
<1>6. NoTwoOffers(ended)
  BY <1>1, <1>5 DEF NoTwoOffers, OnOffer
<1>7. rides[r].queue \in Queues
  BY <1>1, Published DEF Open, PreTrip
<1>8. \A s \in Rides : /\ IsFiniteSet(freed[s])
                       /\ ended[s].status = "NONE" => freed[s] = {}
                       /\ ended[s].status # "NONE" => ended[s].queue \in Queues
                       /\ ended[s].status \in Open =>
                            ended[s].available + Cardinality(freed[s]) = ended[s].total
  BY <1>1, <1>5, <1>7, FS_EmptySet DEF BookingsFit, Open, PreTrip
<1>9. advanced' \subseteq Queues \X Rides
  BY <1>1, <1>2 DEF TypeOK
<1> QED BY <1>1, <1>2, <1>4, <1>6, <1>8, <1>9, AdvanceKeepsInv

\* A trip that starts or is over takes its ride out of the queue.
LEMMA TripKeeps ==
  ASSUME QueueInv, NEW r \in Rides, Start(r) \/ Complete(r)
  PROVE  QueueInv'
<1>1. TypeOK /\ BookingsFit /\ NoTwoOffers(rides) /\ rides \in [Rides -> Ride]
  BY TypeUnfolds DEF QueueInv
<1>2. PICK st \in {"IN_PROGRESS", "COMPLETED"} :
        /\ rides' = [rides EXCEPT ![r].status = st] /\ rides[r].status \in Open
        /\ UNCHANGED <<booked, departed, advanced>>
  BY DEF Start, Complete, Open, PreTrip
<1>3. rides' \in [Rides -> Ride]
  BY <1>1, <1>2 DEF Ride, Open
<1>4. \A s \in Rides : /\ rides'[s].available = rides[s].available
                       /\ rides'[s].total = rides[s].total
                       /\ rides'[s].queue = rides[s].queue
                       /\ rides'[s].status = IF s = r THEN st ELSE rides[s].status
  BY <1>1, <1>2 DEF Ride
<1>5. NoTwoOffers(rides')
  BY <1>1, <1>2, <1>4 DEF NoTwoOffers, OnOffer
<1>6. rides[r].status # "NONE"
  BY <1>2 DEF Open, PreTrip
<1>7. BookingsFit'
  BY <1>1, <1>2, <1>4, <1>6 DEF BookingsFit
<1> QED BY <1>1, <1>2, <1>3, <1>5, <1>7 DEF QueueInv, TypeOK, Ride

\* Every step of Next, or none, keeps the invariant.
LEMMA StepKeepsQueueInv == QueueInv /\ [Next]_vars => QueueInv'
<1> SUFFICES ASSUME QueueInv, [Next]_vars PROVE QueueInv'
  OBVIOUS
<1>1. CASE UNCHANGED vars \/ Over
  BY <1>1 DEF vars, Over, QueueInv, TypeOK, BookingsFit, NoTwoOffers, OnOffer
<1>2. ASSUME NEW r \in Rides,
             \E q \in Queues : Requeue(r, q) \/ \E n \in 1..MaxSeats : Publish(r, q, n)
      PROVE  QueueInv'
  BY <1>2, RequeueKeeps, PublishKeeps
<1>3. ASSUME NEW r \in Rides, \E n \in 1..MaxSeats : UpdateSeats(r, n)
      PROVE  QueueInv'
  BY <1>3, UpdateSeatsKeeps
<1>4. ASSUME NEW r \in Rides, NEW p \in Passengers, Book(r, p) \/ CancelByRider(r, p) \/ RiderNoShow(r, p)
      PROVE  QueueInv'
  BY <1>4, BookKeeps, LeaveKeeps DEF CancelByRider, RiderNoShow
<1>5. ASSUME NEW r \in Rides, Depart(r) PROVE QueueInv'
  BY <1>5 DEF Depart, QueueInv, TypeOK, BookingsFit, NoTwoOffers, OnOffer
<1>6. ASSUME NEW r \in Rides, Start(r) \/ Complete(r) PROVE QueueInv'
  BY <1>6, TripKeeps
<1>7. ASSUME NEW r \in Rides, CancelByDriver(r) \/ DriverNoShow(r) \/ CancelByAdmin(r)
      PROVE  QueueInv'
  BY <1>7, EndKeeps DEF CancelByDriver, DriverNoShow, Reportable, CancelByAdmin, Open, PreTrip
<1> QED BY <1>1, <1>2, <1>3, <1>4, <1>5, <1>6, <1>7 DEF Next

\* The rides, their bookings and the events stay well typed.
THEOREM QueueTyped == Spec => []TypeOK
<1>1. QueueInv => TypeOK
  BY DEF QueueInv
<1> QED BY InitQueueInv, StepKeepsQueueInv, <1>1, PTL DEF Spec

\* assured-queue.service.ts: whatever is published, moved, filled, left and
\* cancelled, and by whom, a queue has at most one ride on offer.
THEOREM OneRideOnOffer == Spec => []OneOffer
<1>1. QueueInv => OneOffer
  <2> SUFFICES ASSUME QueueInv PROVE OneOffer
    OBVIOUS
  <2>1. \A r \in Rides : OnOffer(rides, r) => rides[r].queue \in Queues
    BY DEF QueueInv, BookingsFit, OnOffer
  <2> QED BY <2>1, OneOfferIsNoTwo DEF QueueInv, OneOffer
<1> QED BY InitQueueInv, StepKeepsQueueInv, <1>1, PTL DEF Spec

\* assured-queue.service.ts, restoreSeatsSafelyInTransaction: the cap at the
\* published seats never takes a seat away from an open ride.
THEOREM SeatsAreKept == Spec => []SeatsMatchBookings
<1>1. QueueInv => SeatsMatchBookings
  BY DEF QueueInv, BookingsFit, SeatsMatchBookings
<1> QED BY InitQueueInv, StepKeepsQueueInv, <1>1, PTL DEF Spec

-----------------------------------------------------------------------------
(* How the queue moves on.                                                 *)

\* Only a booking that fills a ride and the end of the ride on offer advance
\* the queue; both leave the rides that wait as they were.
LEMMA PromotionFits ==
  ASSUME TypeOK, NEW r \in Rides, rides[r].status = "ACTIVE",
         NEW rs \in [Rides -> Ride], rs[r].status # "PENDING",
         \A s \in Rides \ {r} : rs[s] = rides[s],
         rides' = rs \/ rides' = Advance(rs, rides[r].queue),
         NEW t \in Rides, rides[t].status = "PENDING", rides'[t].status = "ACTIVE"
  PROVE  t \in Waiting(rides, rides[t].queue) /\ \A s \in Waiting(rides, rides[t].queue) : t <= s
<1>1. rides' # rs
  BY DEF Ride
<1>2. PICK m \in Waiting(rs, rides[r].queue) :
        /\ \A s \in Waiting(rs, rides[r].queue) : m <= s
        /\ rides' = [rs EXCEPT ![m].status = "ACTIVE"]
  BY <1>1, AdvanceLeast
<1>3. m = t
  BY <1>2 DEF Ride, Waiting, In
<1>4. Waiting(rs, rides[r].queue) = Waiting(rides, rides[r].queue)
  BY DEF Waiting, In
<1>5. rides[t].queue = rides[r].queue
  BY <1>2, <1>3 DEF Waiting, In
<1> QED BY <1>2, <1>3, <1>4, <1>5

\* The ride a booking puts on offer is the oldest that waits.
LEMMA BookPromotes ==
  ASSUME QueueInv, NEW r \in Rides, NEW p \in Passengers, Book(r, p),
         NEW t \in Rides, rides[t].status = "PENDING", rides'[t].status = "ACTIVE"
  PROVE  t \in Waiting(rides, rides[t].queue) /\ \A s \in Waiting(rides, rides[t].queue) : t <= s
<1>1. TypeOK /\ rides \in [Rides -> Ride]
  BY TypeUnfolds DEF QueueInv
<1> DEFINE taken == [rides EXCEPT ![r].available = @ - 1]
<1>2. /\ rides[r].status = "ACTIVE" /\ rides[r].available > 0
      /\ rides' = taken \/ rides' = Advance(taken, rides[r].queue)
  BY DEF Book, Bookable
<1>3. taken \in [Rides -> Ride] /\ taken[r].status # "PENDING"
  BY <1>1, <1>2, AssuredQueueAssumption DEF Ride
<1>4. \A s \in Rides \ {r} : taken[s] = rides[s]
  BY <1>1
<1> HIDE DEF taken
<1> QED BY <1>1, <1>2, <1>3, <1>4, PromotionFits

\* Calling a ride off cancels it and advances its queue if it was on offer.
LEMMA EndAdvances ==
  ASSUME QueueInv, NEW r \in Rides, End(r)
  PROVE  \E rs \in [Rides -> Ride] :
           /\ rs[r].status = "CANCELLED" /\ rs[r].queue = rides[r].queue
           /\ \A s \in Rides \ {r} : rs[s] = rides[s]
           /\ rides' = IF rides[r].status = "ACTIVE" THEN Advance(rs, rides[r].queue) ELSE rs
<1>1. BookingsFit /\ rides \in [Rides -> Ride]
  BY TypeUnfolds DEF QueueInv
<1> DEFINE seats == Smaller(rides[r].total, rides[r].available + Cardinality(booked[r]))
           ended == [rides EXCEPT ![r].status = "CANCELLED",
                       ![r].available = Smaller(rides[r].total, @ + Cardinality(booked[r]))]
<1>2. seats \in 0..MaxSeats
  <2>1. Cardinality(booked[r]) \in Nat
    BY <1>1, FS_CardinalityType DEF BookingsFit
  <2>2. rides[r].total \in 0..MaxSeats /\ rides[r].available \in 0..MaxSeats
    BY <1>1 DEF Ride
  <2> QED BY <2>1, <2>2, AssuredQueueAssumption DEF Smaller
<1>3. ended = [rides EXCEPT ![r].status = "CANCELLED", ![r].available = seats]
  BY <1>1 DEF Ride
<1> HIDE DEF seats
<1>4. /\ ended \in [Rides -> Ride] /\ ended[r].status = "CANCELLED"
      /\ ended[r].queue = rides[r].queue
      /\ \A s \in Rides \ {r} : ended[s] = rides[s]
  <2> HIDE DEF ended
  <2> QED BY <1>1, <1>2, <1>3 DEF Ride
<1>5. rides' = IF rides[r].status = "ACTIVE" THEN Advance(ended, rides[r].queue) ELSE ended
  BY DEF End
<1> HIDE DEF ended
<1> QED BY <1>4, <1>5

\* A step of the queue promotes the oldest waiting ride or none.
LEMMA StepPromotes ==
  ASSUME QueueInv, [Next]_vars, NEW t \in Rides,
         rides[t].status = "PENDING", rides'[t].status = "ACTIVE",
         rides'[t].queue = rides[t].queue
  PROVE  t \in Waiting(rides, rides[t].queue) /\ \A s \in Waiting(rides, rides[t].queue) : t <= s
<1> DEFINE Goal == t \in Waiting(rides, rides[t].queue)
                   /\ \A s \in Waiting(rides, rides[t].queue) : t <= s
<1>0. TypeOK /\ rides \in [Rides -> Ride]
  BY TypeUnfolds DEF QueueInv
<1>1. ASSUME UNCHANGED vars \/ Over PROVE Goal
  BY <1>1 DEF vars, Over
<1>2. ASSUME NEW r \in Rides, NEW q \in Queues,
             Requeue(r, q) \/ \E n \in 1..MaxSeats : Publish(r, q, n)
      PROVE  Goal
  BY <1>0, <1>2 DEF Requeue, Publish, NoRide, Ride
<1>3. ASSUME NEW r \in Rides, NEW n \in 1..MaxSeats, UpdateSeats(r, n)
      PROVE  Goal
  BY <1>0, <1>3 DEF UpdateSeats, Ride
<1>4. ASSUME NEW r \in Rides, NEW p \in Passengers, CancelByRider(r, p) \/ RiderNoShow(r, p)
      PROVE  Goal
  BY <1>0, <1>4 DEF CancelByRider, RiderNoShow, Leave, Restore, Ride
<1>5. ASSUME NEW r \in Rides, NEW p \in Passengers, Book(r, p)
      PROVE  Goal
  BY <1>5, BookPromotes
<1>6. ASSUME NEW r \in Rides, Depart(r) \/ Start(r) \/ Complete(r)
      PROVE  Goal
  BY <1>0, <1>6 DEF Depart, Start, Complete, Ride
<1>7. ASSUME NEW r \in Rides, End(r)
      PROVE  Goal
  <2>1. PICK rs \in [Rides -> Ride] :
           /\ rs[r].status = "CANCELLED"
           /\ \A s \in Rides \ {r} : rs[s] = rides[s]
           /\ rides' = IF rides[r].status = "ACTIVE" THEN Advance(rs, rides[r].queue) ELSE rs
    BY <1>7, EndAdvances
  <2>2. CASE rides[r].status = "ACTIVE"
    BY <1>0, <2>1, <2>2, PromotionFits
  <2>3. CASE rides[r].status # "ACTIVE"
    BY <2>1, <2>3
  <2> QED BY <2>2, <2>3
<1> HIDE DEF Goal
<1>8. Goal
  <2>1. CASE Over \/ UNCHANGED vars
    BY <1>1, <2>1
  <2>2. CASE ~Over /\ ~UNCHANGED vars
    <3>1. PICK r \in Rides :
            \/ \E p \in Queues : Requeue(r, p) \/ \E n \in 1..MaxSeats : Publish(r, p, n)
            \/ \E n \in 1..MaxSeats : UpdateSeats(r, n)
            \/ \E p \in Passengers : Book(r, p) \/ CancelByRider(r, p) \/ RiderNoShow(r, p)
            \/ Depart(r) \/ Start(r) \/ Complete(r)
            \/ CancelByDriver(r) \/ DriverNoShow(r) \/ CancelByAdmin(r)
      BY <2>2, Zenon DEF Next
    <3>2. CancelByDriver(r) \/ DriverNoShow(r) \/ CancelByAdmin(r) => End(r)
      BY DEF CancelByDriver, DriverNoShow, CancelByAdmin
    <3> QED BY <1>2, <1>3, <1>4, <1>5, <1>6, <1>7, <3>1, <3>2, Zenon
  <2> QED BY <2>1, <2>2
<1> QED BY <1>8 DEF Goal

\* assured-queue.service.ts, findNextEligiblePending: a ride that goes on offer
\* where it waits has seats and is the oldest one that does.
THEOREM OldestIsPromoted == Spec => PromotedInOrder
<1>1. QueueInv /\ [Next]_vars =>
        [\A r \in Rides :
           rides[r].status = "PENDING" /\ rides'[r].status = "ACTIVE"
             /\ rides'[r].queue = rides[r].queue
           => /\ r \in Waiting(rides, rides[r].queue)
              /\ \A s \in Waiting(rides, rides[r].queue) : r <= s]_vars
  BY StepPromotes
<1> QED BY <1>1, InitQueueInv, StepKeepsQueueInv, PTL DEF Spec, PromotedInOrder

\* Cancelling the ride on offer is followed by the next offer in the same step.
LEMMA CancellationAdvances ==
  ASSUME QueueInv, [Next]_vars, NEW t \in Rides,
         rides[t].status = "ACTIVE", rides'[t].status = "CANCELLED"
  PROVE  Offers(rides', rides[t].queue) # {} \/ Waiting(rides', rides[t].queue) = {}
<1> DEFINE q == rides[t].queue
           Goal == Offers(rides', q) # {} \/ Waiting(rides', q) = {}
<1>0. TypeOK /\ rides \in [Rides -> Ride]
  BY TypeUnfolds DEF QueueInv
<1>1. ASSUME UNCHANGED vars \/ Over PROVE Goal
  BY <1>1 DEF vars, Over
<1>2. ASSUME NEW r \in Rides, NEW p \in Queues,
             Requeue(r, p) \/ \E n \in 1..MaxSeats : Publish(r, p, n)
      PROVE  Goal
  BY <1>0, <1>2 DEF Requeue, Publish, NoRide, PlaceIn, Ride
<1>3. ASSUME NEW r \in Rides, NEW n \in 1..MaxSeats, UpdateSeats(r, n)
      PROVE  Goal
  BY <1>0, <1>3 DEF UpdateSeats, Ride
<1>4. ASSUME NEW r \in Rides, NEW p \in Passengers, CancelByRider(r, p) \/ RiderNoShow(r, p)
      PROVE  Goal
  BY <1>0, <1>4 DEF CancelByRider, RiderNoShow, Leave, Restore, Ride
<1>5. ASSUME NEW r \in Rides, NEW p \in Passengers, Book(r, p)
      PROVE  Goal
  <2> DEFINE taken == [rides EXCEPT ![r].available = @ - 1]
  <2>1. /\ rides' = taken \/ rides' = Advance(taken, rides[r].queue)
        /\ rides[r].available > 0
    BY <1>5 DEF Book, Bookable
  <2>2. taken \in [Rides -> Ride] /\ \A s \in Rides : taken[s].status = rides[s].status
    BY <1>0, <2>1, AssuredQueueAssumption DEF Ride
  <2> HIDE DEF taken
  <2>3. rides'[t].status # "CANCELLED"
    BY <2>1, <2>2, AdvanceLeast DEF Waiting, In, Ride
  <2> QED BY <2>3
<1>6. ASSUME NEW r \in Rides, Depart(r) \/ Start(r) \/ Complete(r)
      PROVE  Goal
  BY <1>0, <1>6 DEF Depart, Start, Complete, Ride
<1>7. ASSUME NEW r \in Rides, End(r)
      PROVE  Goal
  <2>1. PICK rs \in [Rides -> Ride] :
           /\ rs[r].status = "CANCELLED"
           /\ \A s \in Rides \ {r} : rs[s] = rides[s]
           /\ rides' = IF rides[r].status = "ACTIVE" THEN Advance(rs, rides[r].queue) ELSE rs
    BY <1>7, EndAdvances
  <2>2. r = t
    BY <2>1, AdvanceKeepsStatus
  <2>3. rides' = Advance(rs, q)
    BY <2>1, <2>2
  <2>4. CASE rides' = rs /\ (Offers(rs, q) # {} \/ Waiting(rs, q) = {})
    BY <2>4
  <2>5. ASSUME NEW m \in Waiting(rs, q), rides' = [rs EXCEPT ![m].status = "ACTIVE"]
        PROVE  Goal
    <3>1. m \in Offers(rides', q)
      BY <2>5 DEF Waiting, Offers, In, Ride
    <3> QED BY <3>1
  <2> HIDE DEF q
  <2>6. \/ /\ Advance(rs, q) = rs
           /\ Offers(rs, q) # {} \/ Waiting(rs, q) = {}
        \/ \E m \in Waiting(rs, q) : Advance(rs, q) = [rs EXCEPT ![m].status = "ACTIVE"]
    BY AdvanceLeast
  <2> QED BY <2>3, <2>4, <2>5, <2>6
<1> HIDE DEF Goal
<1>8. Goal
  <2>1. CASE Over \/ UNCHANGED vars
    BY <1>1, <2>1
  <2>2. CASE ~Over /\ ~UNCHANGED vars
    <3>1. PICK r \in Rides :
            \/ \E p \in Queues : Requeue(r, p) \/ \E n \in 1..MaxSeats : Publish(r, p, n)
            \/ \E n \in 1..MaxSeats : UpdateSeats(r, n)
            \/ \E p \in Passengers : Book(r, p) \/ CancelByRider(r, p) \/ RiderNoShow(r, p)
            \/ Depart(r) \/ Start(r) \/ Complete(r)
            \/ CancelByDriver(r) \/ DriverNoShow(r) \/ CancelByAdmin(r)
      BY <2>2, Zenon DEF Next
    <3>2. CancelByDriver(r) \/ DriverNoShow(r) \/ CancelByAdmin(r) => End(r)
      BY DEF CancelByDriver, DriverNoShow, CancelByAdmin
    <3> QED BY <1>2, <1>3, <1>4, <1>5, <1>6, <1>7, <3>1, <3>2, Zenon
  <2> QED BY <2>1, <2>2
<1> QED BY <1>8 DEF Goal

\* assured-queue.service.ts, advanceQueueInTransaction: no queue whose offer is
\* cancelled stands still while somebody waits in it.
THEOREM OffersAreReplaced == Spec => CancellationPromotes
<1>1. QueueInv /\ [Next]_vars =>
        [\A r \in Rides :
           rides[r].status = "ACTIVE" /\ rides'[r].status = "CANCELLED"
           => Offers(rides', rides[r].queue) # {} \/ Waiting(rides', rides[r].queue) = {}]_vars
  BY CancellationAdvances
<1> QED BY <1>1, InitQueueInv, StepKeepsQueueInv, PTL DEF Spec, CancellationPromotes

=============================================================================
