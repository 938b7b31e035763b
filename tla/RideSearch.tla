----------------------------- MODULE RideSearch -----------------------------
(***************************************************************************)
(* How passengers find the rides of a day: drivers publish rides along a   *)
(* route they selected (rides/route/route-selection.service.ts), a search  *)
(* sifts them by box and geometry and asks a provider for the road         *)
(* distances of ways off the route (rides.service.ts, search;              *)
(* rides/route/road-routing.service.ts).  Rides are booked and cancelled   *)
(* while a search waits for the provider.                                  *)
(*                                                                         *)
(* How a pickup and a dropoff fit a route is rides/route/route-geometry.ts *)
(* on a grid: points are pairs of integers, routes run along the axes from *)
(* one grid point to another, and distances are measured along the axes,   *)
(* which agrees with the code's along a route and across it.  Points go    *)
(* east and north, and a degree of longitude is shorter the farther north. *)
(* Slack below one unit of the grid is 0.                                  *)
(***************************************************************************)
EXTENDS Integers, Sequences, SequencesExt, FiniteSets

CONSTANTS Rides,       \* in the order of their departure
          Answers,     \* the sets of routes the directions provider answers with
          Points,      \* where people start, are picked up and dropped
          Types,       \* the types of rides
          Backward,    \* BACKWARD_PICKUP_ALLOWANCE_KM
          Extension,   \* DESTINATION_EXTENSION_ALLOWANCE_KM
          MaxPairs,    \* ROUTING_MAX_CANDIDATES_PER_SEARCH
          Detour,      \* how much longer than straight a road can be
          Catchment,   \* how far from the source a pickup may be (50 km)
          Corridor,    \* how far from the route one may be (20 km)
          Progress,    \* how far apart pickup and dropoff are along the route
          MaxCandidates

VARIABLES ride,   \* ride -> its type, status, free seats and route
          option, \* the signed route option a driver holds
          search, \* the search that is being served
          cache   \* pair of points -> the road distance that is remembered

vars == <<ride, option, search, cache>>

Off == <<>>

Init ==
  /\ ride = [r \in Rides |-> [type |-> "REGULAR", status |-> "NONE", seats |-> 0, route |-> Off]]
  /\ option = Off
  /\ search = [step |-> "idle"]
  /\ cache = [pair \in {} |-> 0]

-----------------------------------------------------------------------------
(* Geometry.                                                               *)

Unverified == -1

Size(n) == IF n < 0 THEN -n ELSE n

Larger(m, n) == IF m < n THEN n ELSE m

Distance(a, b) == Size(a[1] - b[1]) + Size(a[2] - b[2])

Dot(a, b, c, d) == (b[1] - a[1]) * (d[1] - c[1]) + (b[2] - a[2]) * (d[2] - c[2])

LengthTo(route, i) == FoldLeftDomain(
  LAMBDA sum, j : IF j <= i /\ j > 1 THEN sum + Distance(route[j - 1], route[j]) ELSE sum,
  0, route)

RouteLength(route) == LengthTo(route, Len(route))

\* The smallest box around a route: its corners.
BoundingBox(route) ==
  LET Of(k) == {route[i][k] : i \in DOMAIN route}
      Low(k) == CHOOSE n \in Of(k) : \A o \in Of(k) : n <= o
      High(k) == CHOOSE n \in Of(k) : \A o \in Of(k) : o <= n
  IN [low |-> <<Low(1), Low(2)>>, high |-> <<High(1), High(2)>>]

\* How far along the line from a through b the foot of point lies.
Along(point, a, b) == Dot(a, point, a, b) \div Distance(a, b)

\* How far from that line the point is: across it.
Aside(point, a, b) == Distance(a, point) - Size(Along(point, a, b))

\* Behind the source, seen along the first segment.
IsPointBehindRouteSource(point, route) == Along(point, route[1], route[2]) < 0

Projections(point, route, max) ==
  {[position |-> LengthTo(route, i) + Along(point, route[i], route[i + 1]),
    distance |-> Aside(point, route[i], route[i + 1])] :
     i \in {j \in 1 .. Len(route) - 1 :
              /\ Along(point, route[j], route[j + 1]) \in 0 .. Distance(route[j], route[j + 1])
              /\ Aside(point, route[j], route[j + 1]) <= max}}

Nearer(c, d) ==
  \/ c.distance < d.distance
  \/ c.distance = d.distance /\ c.position < d.position

\* Where the route passes the point, nearest first: one per position.
ProjectionCandidates(point, route, max) ==
  FoldLeft(LAMBDA kept, c :
             IF \/ \E k \in ToSet(kept) : k.position = c.position
                \/ Len(kept) = MaxCandidates
             THEN kept ELSE Append(kept, c),
           <<>>, SetToSortSeq(Projections(point, route, max), Nearer))

\* Mutant: a candidate just as near as the nearest one is too far.
StrictlyClose(c, nearest) == 2 * c.distance < 3 * nearest.distance

\* A candidate not much farther from the route than the nearest one.
Close(c, nearest) == 2 * c.distance <= 3 * nearest.distance

IsPickupInSourceCatchment(c, pickup, source) ==
  Distance(pickup, source) <= Catchment /\ c.position <= Catchment

OnSelectedCorridor(c, route) ==
  c.distance <= Corridor /\ c.position \in 0 .. RouteLength(route)

Pickups(candidates, pickup, route) ==
  {c \in ToSet(candidates) :
     /\ candidates[1].position > Catchment => Close(c, candidates[1])
     /\ ~IsPointBehindRouteSource(pickup, route)
     /\ \/ Close(c, candidates[1]) /\ IsPickupInSourceCatchment(c, pickup, route[1])
        \/ OnSelectedCorridor(c, route)}

EligiblePickups(pickup, route) ==
  Pickups(ProjectionCandidates(pickup, route, Catchment), pickup, route)

EligibleDropoffs(dropoff, route) ==
  {c \in ToSet(ProjectionCandidates(dropoff, route, Corridor)) : OnSelectedCorridor(c, route)}

\* The scores of the pairs of a pickup and a dropoff that run in the route's
\* direction: how far from the route both are together.
PairScores(ups, downs) ==
  {q[1].distance + q[2].distance : q \in
     {p \in ups \X downs : p[2].position >= p[1].position + Progress}}

Least(numbers) == CHOOSE n \in numbers : \A o \in numbers : n <= o

\* A pickup behind the source which the driver reaches within the allowance.
BackwardPickupCandidate(pickup, dropoff, route, allowance, road) ==
  /\ Distance(pickup, route[1]) <= allowance
  /\ road <= allowance
  /\ IsPointBehindRouteSource(pickup, route)
  /\ Aside(pickup, route[1], route[2]) <= Corridor
  /\ Distance(pickup, dropoff) >= Distance(route[1], dropoff)

\* Onward from v, where the driver arrives from u: not back, at most aside.
LiesOnward(dropoff, u, v) ==
  /\ 10 * Dot(v, dropoff, u, v) >= -Dot(u, v, u, v)
  /\ \/ Dot(v, dropoff, u, v) >= 0
     \/ 16 * Dot(v, dropoff, u, v) * Dot(v, dropoff, u, v)
          <= Dot(u, v, u, v) * Dot(v, dropoff, v, dropoff)
  /\ Aside(dropoff, u, v) <= Corridor

\* A dropoff past the destination, not back along the way the driver came.
ExtendedDestinationCandidate(pickup, dropoff, route, allowance, road) ==
  /\ Distance(dropoff, Last(route)) \in 1 .. allowance
  /\ road <= allowance
  /\ LiesOnward(dropoff, route[Len(route) - 1], Last(route))
  /\ Distance(pickup, dropoff) >= Distance(pickup, Last(route))

Match(category, toSource, onward, score) ==
  [category |-> category, toSource |-> toSource, onward |-> onward, score |-> score]

NoMatch == Match("NONE", 0, 0, 0)

\* The category of a match: the route itself before ways off it.  back and on
\* are how far the driver goes for the pickup and the dropoff, if she may.
Category(scores, ups, downs, back, on, length) ==
  IF scores # {} THEN Match("FORWARD_ROUTE_MATCH", 0, 0, Least(scores))
  ELSE IF back # {} /\ downs # {}
    THEN Match("BACKWARD_PICKUP_MATCH", Least(back), 0, Least(back) + Least(downs))
  ELSE IF on # {} /\ ups # {}
    THEN Match("EXTENDED_DESTINATION_MATCH", 0, Least(on), Least(ups) + Least(on))
  ELSE IF back # {} /\ on # {} /\ length >= Progress
    THEN Match("FLEXIBLE_PICKUP_AND_DESTINATION_MATCH", Least(back), Least(on),
               Least(back) + Least(on))
  ELSE NoMatch

\* A way as the crow flies until the distance by road is known.
WayLength(road, straight) == IF road # Unverified THEN road ELSE straight

Judge(route, pickup, dropoff, ups, downs, back, extend, backRoad, extendRoad) ==
  Category(PairScores(ups, downs),
           {c.distance : c \in {u \in ups : u.position <= RouteLength(route) - Progress}},
           {c.distance : c \in {d \in downs : d.position >= Progress}},
           IF BackwardPickupCandidate(pickup, dropoff, route, back, backRoad)
           THEN {WayLength(backRoad, Distance(pickup, route[1]))} ELSE {},
           IF ExtendedDestinationCandidate(pickup, dropoff, route, extend, extendRoad)
           THEN {WayLength(extendRoad, Distance(dropoff, Last(route)))} ELSE {},
           RouteLength(route))

\* How a ride serves a passenger: along its route, or with a way of its own
\* before the source or past the destination.
FlexibleDriverRouteMatch(route, pickup, dropoff, back, extend, backRoad, extendRoad) ==
  Judge(route, pickup, dropoff, EligiblePickups(pickup, route),
        EligibleDropoffs(dropoff, route), back, extend, backRoad, extendRoad)

-----------------------------------------------------------------------------
\* Drivers.

\* What can be driven of the directions provider's answer.
ParseDrivingOptions(answer) == {route \in answer : Len(route) >= 2}

\* A driver asks for the routes between two places and keeps a signed one.
ListRouteOptions(answer) ==
  /\ option = Off /\ option' \in ParseDrivingOptions(answer)
  /\ UNCHANGED <<ride, search, cache>>

\* The signature expires.
OptionExpires ==
  /\ option # Off /\ option' = Off
  /\ UNCHANGED <<ride, search, cache>>

\* A signed route counts for the places it was asked for.
ResolveSelectedRoute(source, destination) ==
  option # Off /\ option[1] = source /\ Last(option) = destination

\* A ride takes the option's geometry; an Assured ride waits for its turn.
Publish(r, type, source, destination) ==
  /\ ride[r].status = "NONE" /\ ResolveSelectedRoute(source, destination)
  /\ ride' = [ride EXCEPT ![r] =
       [type |-> type, seats |-> 1, route |-> option,
        status |-> IF type = "ASSURED" THEN "ASSURANCE_PENDING" ELSE "PUBLISHED"]]
  /\ UNCHANGED <<option, search, cache>>

\* The route of a ride nobody has booked changes to the option's; places that
\* are not given are those of the ride.
ApplyUnrestrictedRideFields(r) ==
  /\ ride[r].status \in {"PUBLISHED", "ASSURANCE_PENDING"} /\ ride[r].seats = 1
  /\ \E route \in {option, ride[r].route} :
       option # Off /\ ResolveSelectedRoute(route[1], Last(route))
  /\ ride' = [ride EXCEPT ![r].route = option]
  /\ UNCHANGED <<option, search, cache>>

\* Whatever else happens to rides: turns, bookings, cancellations, departures.
RideChanges(r) ==
  /\ \/ /\ ride[r].status = "ASSURANCE_PENDING"
        /\ ride' = [ride EXCEPT ![r].status = "ASSURANCE_ACTIVE"]
     \/ /\ ride[r].status \in {"PUBLISHED", "ASSURANCE_ACTIVE"} /\ ride[r].seats > 0
        /\ ride' = [ride EXCEPT ![r].seats = @ - 1]
     \/ /\ ride[r].status \notin {"NONE", "OVER"}
        /\ ride' = [ride EXCEPT ![r].status = "OVER"]
  /\ UNCHANGED <<option, search, cache>>

-----------------------------------------------------------------------------
\* The search.

IsPassengerVisibleRide(r) ==
  \/ ride[r].type # "ASSURED" /\ ride[r].status = "PUBLISHED"
  \/ ride[r].type = "ASSURED" /\ ride[r].status = "ASSURANCE_ACTIVE" /\ ride[r].seats > 0

\* The farthest way off a route.
Pad == Larger(Catchment, Larger(Backward, Extension))

\* As many degrees of longitude as Pad is midway between pickup and dropoff:
\* farther north that is less, here by less than a unit.
LongitudePad(p, pickup, dropoff) ==
  IF 2 * p[2] > pickup[2] + dropoff[2] THEN Pad - 1 ELSE Pad

\* The padded box of a route contains both points.
InBox(route, pickup, dropoff) ==
  LET box == BoundingBox(route)
      Inside(p, k, pad) == p[k] \in box.low[k] - pad .. box.high[k] + pad
  IN \A p \in {pickup, dropoff} :
       Inside(p, 1, LongitudePad(p, pickup, dropoff)) /\ Inside(p, 2, Pad)

EvaluateRideRouteMatch(route, pickup, dropoff, backRoad, extendRoad) ==
  FlexibleDriverRouteMatch(route, pickup, dropoff, Backward, Extension, backRoad, extendRoad)

ToSource(m) == m.category \in {"BACKWARD_PICKUP_MATCH", "FLEXIBLE_PICKUP_AND_DESTINATION_MATCH"}

FromDestination(m) ==
  m.category \in {"EXTENDED_DESTINATION_MATCH", "FLEXIBLE_PICKUP_AND_DESTINATION_MATCH"}

\* The ways off the route whose road distances a search needs, ride by ride,
\* no more than the provider is asked for.
PairsToVerify(pickup, dropoff, found) ==
  LET Ways(f) == (IF ToSource(f.match) THEN {1} ELSE {})
                 \cup (IF FromDestination(f.match) THEN {2} ELSE {})
      Pair(f, way) == IF way = 1 THEN <<pickup, f.route[1]>> ELSE <<Last(f.route), dropoff>>
      All == {w \in (DOMAIN found) \X {1, 2} : w[2] \in Ways(found[w[1]])}
      UpTo(w) == {v \in All : v[1] < w[1] \/ (v[1] = w[1] /\ v[2] <= w[2])}
  IN {Pair(found[w[1]], w[2]) : w \in {v \in All : Cardinality(UpTo(v)) <= MaxPairs}}

\* The lists of a set in which nothing comes before what is earlier.
InOrder(S, earlier(_, _)) ==
  {list \in SetToSeqs(S) :
     \A i, j \in DOMAIN list : i < j => ~earlier(list[j], list[i])}

IsForward(f) == f.match.category = "FORWARD_ROUTE_MATCH"

Earlier(f, g) == f.ride < g.ride

Await(pickup, dropoff, matched, flexible) ==
  [step |-> "verify", pickup |-> pickup, dropoff |-> dropoff,
   matched |-> matched, flexible |-> flexible,
   asked |-> PairsToVerify(pickup, dropoff, flexible), roads |-> [pair \in {} |-> 0]]

\* The first stage reads the visible rides with free seats and judges them as
\* the crow flies.
Search(pickup, dropoff) ==
  LET Judged(r) == [ride |-> r, route |-> ride[r].route,
                    match |-> EvaluateRideRouteMatch(ride[r].route, pickup, dropoff,
                                                     Unverified, Unverified)]
      Read == {r \in Rides : /\ IsPassengerVisibleRide(r) /\ ride[r].seats >= 1
                             /\ InBox(ride[r].route, pickup, dropoff)}
      Found == {f \in {Judged(r) : r \in Read} : f.match # NoMatch}
  IN /\ search.step = "idle" /\ pickup # dropoff
     /\ \E flexible \in InOrder({f \in Found : ~IsForward(f)}, Earlier) :
          search' = Await(pickup, dropoff, {f \in Found : IsForward(f)}, flexible)
     /\ UNCHANGED <<ride, option, cache>>

NoRoad == -2

Failed == -3

\* The provider's answers about a pair: a distance no shorter than straight,
\* that no road leads there, or none in time.
CalculateDrivingDistance(pair) ==
  {Distance(pair[1], pair[2]), Distance(pair[1], pair[2]) + Detour, NoRoad, Failed}

\* What is known of pairs, and the answer about one more.
Learnt(known, pair, answer) ==
  [p \in DOMAIN known \cup {pair} |-> IF p = pair THEN answer ELSE known[p]]

\* One distance comes from the cache or the provider, whose answers are
\* remembered unless it failed.
GetDrivingDistance(pair) ==
  /\ search.step = "verify" /\ pair \in search.asked
  /\ \E answer \in IF pair \in DOMAIN cache THEN {cache[pair]}
                    ELSE CalculateDrivingDistance(pair) :
       /\ cache' = IF answer = Failed THEN cache ELSE Learnt(cache, pair, answer)
       /\ search' = [search EXCEPT !.asked = @ \ {pair},
                       !.roads = IF answer < 0 THEN @ ELSE Learnt(search.roads, pair, answer)]
  /\ UNCHANGED <<ride, option>>

\* What is remembered expires.
CacheExpires ==
  /\ DOMAIN cache # {} /\ cache' = [pair \in {} |-> 0]
  /\ UNCHANGED <<ride, option, search>>

CategoryPriority(m) ==
  CASE m.category = "FORWARD_ROUTE_MATCH" -> 1
    [] m.category = "BACKWARD_PICKUP_MATCH" -> 2
    [] m.category = "EXTENDED_DESTINATION_MATCH" -> 3
    [] OTHER -> 4

\* Ways off the route come after routes that fit, the shorter ones first.
Before(f, g) ==
  LET p == CategoryPriority(f.match)
      q == CategoryPriority(g.match)
      way(m) == IF p = 1 THEN m.score ELSE m.toSource + m.onward
  IN IF p # q THEN p < q
     ELSE IF way(f.match) # way(g.match) THEN way(f.match) < way(g.match)
     ELSE IF p \in {2, 3} /\ f.match.score # g.match.score THEN f.match.score < g.match.score
     ELSE f.ride < g.ride

\* The second stage: a way off the route counts with its road distance, and not
\* at all without one.
Verified(f, pickup, dropoff, roads) ==
  LET back == <<pickup, f.route[1]>>
      extend == <<Last(f.route), dropoff>>
      Needed == (IF ToSource(f.match) THEN {back} ELSE {})
                \cup (IF FromDestination(f.match) THEN {extend} ELSE {})
  IN IF Needed \subseteq DOMAIN roads
     THEN EvaluateRideRouteMatch(f.route, pickup, dropoff,
            IF ToSource(f.match) THEN roads[back] ELSE Unverified,
            IF FromDestination(f.match) THEN roads[extend] ELSE Unverified)
     ELSE NoMatch

Finish ==
  LET Again == {[f EXCEPT !.match = Verified(f, search.pickup, search.dropoff, search.roads)] :
                  f \in ToSet(search.flexible)}
  IN /\ search.step = "verify" /\ search.asked = {}
     /\ \E items \in InOrder(search.matched \cup {f \in Again : f.match # NoMatch}, Before) :
          search' = [step |-> "done", pickup |-> search.pickup, dropoff |-> search.dropoff,
                     items |-> items, roads |-> search.roads]
     /\ UNCHANGED <<ride, option, cache>>

\* The passenger looks at the results.
Respond ==
  /\ search.step = "done" /\ search' = [step |-> "idle"]
  /\ UNCHANGED <<ride, option, cache>>

Next ==
  \/ \E answer \in Answers : ListRouteOptions(answer)
  \/ OptionExpires
  \/ \E r \in Rides : \/ \E type \in Types, source, destination \in Points :
                           Publish(r, type, source, destination)
                      \/ ApplyUnrestrictedRideFields(r)
                      \/ RideChanges(r)
  \/ \E pickup, dropoff \in Points : Search(pickup, dropoff)
  \/ search.step = "verify" /\ \E pair \in search.asked : GetDrivingDistance(pair)
  \/ CacheExpires
  \/ Finish
  \/ Respond

Spec == Init /\ [][Next]_vars

\* Places are points of the grid, what the provider answers with are routes.
Parameters ==
  /\ Points \subseteq Int \X Int
  /\ \A answer \in Answers : answer \subseteq Seq(Int \X Int)
  /\ Detour \in Nat

-----------------------------------------------------------------------------
\* Nobody is sent off a route farther than its driver allows: every way off it
\* in a result is by a road whose distance is known and allowed, whatever kind
\* of match the second stage made of the first one's.
WaysAreVerified ==
  search.step = "done" =>
    \A f \in ToSet(search.items) :
      /\ ToSource(f.match) =>
           /\ <<search.pickup, f.route[1]>> \in DOMAIN search.roads
           /\ search.roads[<<search.pickup, f.route[1]>>] = f.match.toSource
           /\ f.match.toSource <= Backward
      /\ FromDestination(f.match) =>
           /\ <<Last(f.route), search.dropoff>> \in DOMAIN search.roads
           /\ search.roads[<<Last(f.route), search.dropoff>>] = f.match.onward
           /\ f.match.onward <= Extension

\* The positions at which a route passes through a point.
Passes(route, point) ==
  {LengthTo(route, i) + Distance(route[i], point) : i \in
     {j \in 1 .. Len(route) - 1 :
        Distance(route[j], point) + Distance(point, route[j + 1])
          = Distance(route[j], route[j + 1])}}

\* One of the points is the more northern, and as far east or west of the box
\* as any match may be.
AtTheRim(route, pickup, dropoff) ==
  LET box == BoundingBox(route)
  IN \E p \in {pickup, dropoff} :
       /\ 2 * p[2] > pickup[2] + dropoff[2]
       /\ p[1] \in {box.low[1] - Pad, box.high[1] + Pad}

\* A ride that passes through the pickup and later through the dropoff is found
\* as a match of its route, unless the route turns back and passes the pickup
\* behind its source; and the box that sifts rides in the database hides one
\* that fits only where a point is at its rim.
Serves(match, route, pickup, dropoff) ==
  /\ /\ ~IsPointBehindRouteSource(pickup, route)
     /\ \E m \in Passes(route, pickup), n \in Passes(route, dropoff) : n >= m + Progress
     => match.category = "FORWARD_ROUTE_MATCH" /\ InBox(route, pickup, dropoff)
  /\ match # NoMatch => InBox(route, pickup, dropoff) \/ AtTheRim(route, pickup, dropoff)

NobodyIsMissed ==
  search.step = "verify" =>
    \A r \in {s \in Rides : ride[s].route # Off} :
      Serves(EvaluateRideRouteMatch(ride[r].route, search.pickup, search.dropoff,
                                    Unverified, Unverified),
             ride[r].route, search.pickup, search.dropoff)

\* The box hides nothing that fits: not so at the rim.
BoxHidesNobody ==
  search.step = "verify" =>
    \A r \in {q \in Rides : ride[q].route # Off} :
      EvaluateRideRouteMatch(ride[r].route, search.pickup, search.dropoff,
                             Unverified, Unverified) # NoMatch
      => InBox(ride[r].route, search.pickup, search.dropoff)

=============================================================================
