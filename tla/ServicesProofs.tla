--------------------------- MODULE ServicesProofs ---------------------------
(***************************************************************************)
(* What a driver's rides rest on, proved for any series, vehicles,         *)
(* coupons, campaigns and routes: each part's invariant is inductive, and  *)
(* the parts keep out of each other's way.  What makes the steps possible: *)
(* departures differ whenever their day or time does (DeparturesDiffer),   *)
(* only the newest unanswered attempt is recent (OldOnesAreStale), no copy *)
(* an admin saves is ahead of the redemptions (CouponInv), a recorded trip *)
(* never changes (CountsGrow), and a second look at a ride keeps the kind  *)
(* of match of the first one or finds none (SecondLook).                   *)
(***************************************************************************)
EXTENDS MCServices, Sequences, Sums

\* The modules of the parts count with operators of their own that say the same.
LEMMA CountsAgree ==
  \A S : /\ Series!Cardinality(S) = Cardinality(S) /\ Series!IsFiniteSet(S) = IsFiniteSet(S)
         /\ Garage!Cardinality(S) = Cardinality(S)
         /\ Offer!Cardinality(S) = Cardinality(S)
         /\ Campaign!Cardinality(S) = Cardinality(S) /\ Campaign!IsFiniteSet(S) = IsFiniteSet(S)
BY DEF Cardinality, IsFiniteSet, Series!Cardinality, Series!IsFiniteSet, Garage!Cardinality,
       Offer!Cardinality, Campaign!Cardinality, Campaign!IsFiniteSet

-----------------------------------------------------------------------------
(* The rides of a repeated commute.                                        *)

SeriesRide ==
  [type : {"none", "COMMUTE", "REGULAR"}, at : Nat, booked : BOOLEAN,
   status : {"none", "PUBLISHED", "IN_PROGRESS", "COMPLETED", "CANCELLED"}]

SeriesTypes ==
  /\ seriesRide \in [Series!Rides -> SeriesRide]
  /\ series \in [Keys -> {"none", "ACTIVE", "CANCELLED"}]
  /\ clock \in Nat /\ changes \in Nat

\* No two commutes that are on leave at the same time.
CommutesApart ==
  \A r, s \in Series!Rides :
    /\ r # s /\ Series!On(r) /\ Series!On(s)
    /\ seriesRide[r].type = "COMMUTE" /\ seriesRide[s].type = "COMMUTE"
    => seriesRide[r].at # seriesRide[s].at

CancelledIsEmpty ==
  \A r \in Series!Occurrences : series[r[1]] = "CANCELLED" => ~Series!On(r)

SeriesInv == SeriesTypes /\ CommutesApart /\ CancelledIsEmpty

LEMMA SeriesInvFits ==
  ASSUME SeriesInv PROVE Series!SeriesRidesFit
BY DEF SeriesInv, CommutesApart, CancelledIsEmpty, Series!SeriesRidesFit

\* Departures on different days or at different times of day differ.
LEMMA DeparturesDiffer ==
  ASSUME Series!Parameters,
         NEW d \in Dates, NEW e \in Dates, NEW t \in Times, NEW u \in Times,
         Series!Departure(d, t) = Series!Departure(e, u)
  PROVE  d = e /\ t = u
<1> DEFINE n == Series!Cardinality(Times) + 1
<1>1. n \in Nat /\ t \in 0 .. n - 1 /\ u \in 0 .. n - 1 /\ d \in Nat /\ e \in Nat
  BY CountsAgree, FS_CardinalityType DEF Series!Parameters
<1>2. d * n + t = e * n + u
  BY DEF Series!Departure
<1> HIDE DEF n
<1>3. ASSUME NEW i \in Nat, NEW j \in Nat, i < j PROVE j * n >= i * n + n
  <2>1. PICK k \in Nat : j = i + 1 + k
    <3>1. j - i - 1 \in Nat /\ j = i + 1 + (j - i - 1)
      BY <1>3
    <3> QED BY <3>1
  <2>2. j * n = i * n + n + k * n /\ k * n \in Nat /\ i * n \in Nat
    BY <1>1, <2>1
  <2> QED BY <1>1, <2>2
<1>4. d = e
  <2>1. d * n \in Nat /\ e * n \in Nat
    BY <1>1
  <2>2. CASE d < e
    BY <1>1, <1>2, <1>3, <2>1, <2>2
  <2>3. CASE e < d
    BY <1>1, <1>2, <1>3, <2>1, <2>3
  <2> QED BY <1>1, <2>2, <2>3
<1>5. t = u
  <2>1. d * n \in Nat
    BY <1>1
  <2> QED BY <1>1, <1>2, <1>4, <2>1
<1> QED BY <1>4, <1>5

\* There and back are driven at different times of day.
LEMMA ThereAndBack ==
  ASSUME Series!Parameters
  PROVE  /\ Series!TimeOf("OUTBOUND") \in Times /\ Series!TimeOf("RETURN") \in Times
         /\ Series!TimeOf("OUTBOUND") # Series!TimeOf("RETURN")
<1>1. Times \subseteq Nat /\ IsFiniteSet(Times) /\ Cardinality(Times) > 1
  BY CountsAgree DEF Series!Parameters
<1>2. PICK first \in Times : \A u \in Times : first <= u
  <2>1. Times # {}
    BY <1>1, FS_EmptySet
  <2> QED BY <1>1, <2>1, LeastNatural
<1>3. PICK later \in Times : later # first
  <2>1. Times # {first}
    BY <1>1, FS_Singleton
  <2> QED BY <2>1
<1>4. first < later
  BY <1>1, <1>2, <1>3
<1>5. /\ Series!TimeOf("OUTBOUND") \in Times
      /\ \A u \in Times : Series!TimeOf("OUTBOUND") <= u
  BY <1>2 DEF Series!TimeOf
<1>6. /\ Series!TimeOf("RETURN") \in Times
      /\ \E u \in Times : u < Series!TimeOf("RETURN")
  <2> DEFINE Fits(t) == IF "RETURN" = "OUTBOUND" THEN \A u \in Times : t <= u
                        ELSE \E u \in Times : u < t
  <2>1. Fits(later)
    BY <1>4
  <2>2. Series!TimeOf("RETURN") = CHOOSE t \in Times : Fits(t)
    BY Zenon DEF Series!TimeOf
  <2>3. \A t : Fits(t) => \E u \in Times : u < t
    OBVIOUS
  <2> HIDE DEF Fits
  <2>4. Series!TimeOf("RETURN") \in Times /\ Fits(Series!TimeOf("RETURN"))
    BY Zenon, <2>1, <2>2
  <2> QED BY Zenon, <2>3, <2>4
<1>7. Series!TimeOf("OUTBOUND") # Series!TimeOf("RETURN")
  <2>1. PICK u \in Times : u < Series!TimeOf("RETURN")
    BY <1>6
  <2>2. Series!TimeOf("OUTBOUND") <= u /\ u \in Nat
    BY <1>1, <1>5
  <2>3. Series!TimeOf("OUTBOUND") \in Nat /\ Series!TimeOf("RETURN") \in Nat
    BY <1>1, <1>5, <1>6
  <2> QED BY <2>1, <2>2, <2>3
<1> QED BY <1>5, <1>6, <1>7

LEMMA DepartureType ==
  ASSUME Series!Parameters, NEW d \in Nat, NEW t \in Times
  PROVE  Series!Departure(d, t) \in Nat
<1>1. t \in Nat /\ Series!Cardinality(Times) \in Nat
  BY CountsAgree, FS_CardinalityType DEF Series!Parameters
<1>2. d * (Series!Cardinality(Times) + 1) \in Nat
  BY <1>1
<1> QED BY <1>1, <1>2 DEF Series!Departure

LEMMA SeriesInitInv ==
  ASSUME Series!Init PROVE SeriesInv
BY DEF Series!Init, SeriesInv, SeriesTypes, CommutesApart, CancelledIsEmpty, SeriesRide,
       Series!NoRide, Series!On, Series!Occurrences

\* A step after which a ride that is on was on before, of the same type and with
\* the same departure.
Keeps(r) ==
  /\ seriesRide'[r].type = seriesRide[r].type /\ seriesRide'[r].at = seriesRide[r].at
  /\ Series!On(r)' => Series!On(r)

LEMMA KeptStayApart ==
  ASSUME CommutesApart, \A r \in Series!Rides : Keeps(r)
  PROVE  CommutesApart'
BY DEF CommutesApart, Keeps, Series!On, Series!Rides

LEMMA KeptStayEmpty ==
  ASSUME CancelledIsEmpty, series' = series,
         \A r \in Series!Occurrences : Series!On(r)' => Series!On(r)
  PROVE  CancelledIsEmpty'
BY DEF CancelledIsEmpty, Series!On, Series!Occurrences

\* Publishing a series: its departures are free of every ride that is on, and
\* differ from one another.
LEMMA PublishFits ==
  ASSUME Series!Parameters, SeriesInv, NEW k \in Keys, NEW dates \in SUBSET Dates,
         NEW returnEnabled \in BOOLEAN, Series!publish(k, dates, returnEnabled)
  PROVE  SeriesInv'
<1> DEFINE planned == {r \in {k} \X dates \X {"OUTBOUND", "RETURN"} :
                        r[3] = "RETURN" => returnEnabled}
           at(r) == Series!Departure(r[2], Series!TimeOf(r[3]))
<1>0. /\ series[k] = "none"
      /\ \A r \in Series!Rides : Series!On(r) => seriesRide[r].at \notin {at(r2) : r2 \in planned}
      /\ series' = [series EXCEPT ![k] = "ACTIVE"]
      /\ seriesRide' = [r \in Series!Rides |->
           IF r \in planned THEN Series!Published("COMMUTE", at(r)) ELSE seriesRide[r]]
      /\ UNCHANGED <<clock, changes>>
  BY DEF Series!publish, Series!assertSlotsAvailable
<1>1. /\ planned \subseteq Series!Rides /\ planned \subseteq Series!Occurrences
      /\ \A r \in planned : /\ r = <<k, r[2], r[3]>> /\ r[1] = k /\ r[2] \in Dates
                            /\ r[3] \in {"OUTBOUND", "RETURN"}
  BY DEF Series!Rides, Series!Occurrences
<1>2. \A r \in planned : at(r) \in Nat /\ Series!TimeOf(r[3]) \in Times
  <2> SUFFICES ASSUME NEW r \in planned PROVE at(r) \in Nat /\ Series!TimeOf(r[3]) \in Times
    OBVIOUS
  <2>1. r[2] \in Nat /\ Series!TimeOf(r[3]) \in Times
    BY <1>1, ThereAndBack DEF Series!Parameters
  <2> QED BY <2>1, DepartureType
<1>3. ASSUME NEW r \in planned, NEW s \in planned, at(r) = at(s) PROVE r = s
  <2>1. r[2] = s[2] /\ Series!TimeOf(r[3]) = Series!TimeOf(s[3])
    BY <1>1, <1>2, <1>3, DeparturesDiffer
  <2>2. r[3] = s[3]
    BY <1>1, <2>1, ThereAndBack
  <2> QED BY <1>1, <2>1, <2>2
<1> HIDE DEF planned, at
<1>4. SeriesTypes'
  BY <1>0, <1>1, <1>2 DEF SeriesInv, SeriesTypes, SeriesRide, Series!Published
<1>5. CommutesApart'
  <2> SUFFICES ASSUME NEW r \in Series!Rides, NEW s \in Series!Rides, r # s,
                      Series!On(r)', Series!On(s)', seriesRide'[r].type = "COMMUTE",
                      seriesRide'[s].type = "COMMUTE", seriesRide'[r].at = seriesRide'[s].at
               PROVE  FALSE
    BY DEF CommutesApart, Series!Rides
  <2>1. CASE r \in planned /\ s \in planned
    BY <1>0, <1>3, <2>1 DEF Series!Published
  <2>2. CASE r \in planned /\ s \notin planned
    BY <1>0, <2>2 DEF Series!Published, Series!On
  <2>3. CASE r \notin planned /\ s \in planned
    BY <1>0, <2>3 DEF Series!Published, Series!On
  <2>4. CASE r \notin planned /\ s \notin planned
    BY <1>0, <2>4 DEF SeriesInv, CommutesApart, Series!On
  <2> QED BY <2>1, <2>2, <2>3, <2>4
<1>6. CancelledIsEmpty'
  <2> SUFFICES ASSUME NEW r \in Series!Occurrences, series'[r[1]] = "CANCELLED"
               PROVE  ~Series!On(r)'
    BY DEF CancelledIsEmpty, Series!Occurrences
  <2>1. r[1] \in Keys /\ r \in Series!Rides
    BY DEF Series!Occurrences, Series!Rides
  <2>2. r[1] # k /\ series[r[1]] = "CANCELLED"
    BY <1>0, <2>1 DEF SeriesInv, SeriesTypes
  <2>3. seriesRide'[r] = seriesRide[r]
    BY <1>0, <1>1, <2>1, <2>2
  <2> QED BY <2>2, <2>3 DEF SeriesInv, CancelledIsEmpty, Series!On
<1> QED BY <1>4, <1>5, <1>6 DEF SeriesInv

\* A single ride: a commute needs a slot of its own.
LEMMA CreateFits ==
  ASSUME Series!Parameters, SeriesInv, NEW r \in Singles, NEW at \in Nat,
         Series!createCommuteRide(r, at) \/ Series!createRegularRide(r, at)
  PROVE  SeriesInv'
<1>1. r \in Series!Rides /\ \A s \in Series!Occurrences : s \in Series!Rides /\ s # r
  BY DEF Series!Rides, Series!Parameters
<1>2. PICK type \in {"COMMUTE", "REGULAR"} :
        /\ seriesRide' = [seriesRide EXCEPT ![r] = Series!Published(type, at)]
        /\ type = "COMMUTE" => Series!CommuteSlotFree(at, Series!Rides)
        /\ UNCHANGED <<series, clock, changes>>
  BY DEF Series!createCommuteRide, Series!createRegularRide
<1>3. SeriesTypes'
  BY <1>1, <1>2 DEF SeriesInv, SeriesTypes, SeriesRide, Series!Published
<1>4. CommutesApart'
  <2> SUFFICES ASSUME NEW s \in Series!Rides, NEW t \in Series!Rides, s # t,
                      Series!On(s)', Series!On(t)', seriesRide'[s].type = "COMMUTE",
                      seriesRide'[t].type = "COMMUTE", seriesRide'[s].at = seriesRide'[t].at
               PROVE  FALSE
    BY DEF CommutesApart, Series!Rides
  <2> USE DEF SeriesInv, SeriesTypes, Series!Published, Series!On, Series!CommuteSlotFree
  <2>1. CASE s = r
    BY <1>1, <1>2, <2>1
  <2>2. CASE t = r
    BY <1>1, <1>2, <2>2
  <2>3. CASE s # r /\ t # r
    BY <1>1, <1>2, <2>3 DEF CommutesApart
  <2> QED BY <2>1, <2>2, <2>3
<1>5. CancelledIsEmpty'
  BY <1>1, <1>2, KeptStayEmpty DEF SeriesInv, SeriesTypes, Series!On
<1> QED BY <1>3, <1>4, <1>5 DEF SeriesInv

\* Cancelling only ends rides, and a series without a ride that is on.
LEMMA CancelledFits ==
  ASSUME SeriesInv, NEW rides \in SUBSET Series!Rides,
         seriesRide' = Series!Cancelled(rides), UNCHANGED <<clock, changes>>,
         \/ series' = series
         \/ \E r \in Series!Occurrences : series' = Series!CancelledSeries(r, rides)
  PROVE  SeriesInv'
<1>1. \A s \in Series!Rides :
        seriesRide'[s] = IF s \in rides
                         THEN [seriesRide[s] EXCEPT !.status = "CANCELLED", !.booked = FALSE]
                         ELSE seriesRide[s]
  BY DEF Series!Cancelled
<1>2. \A s \in Series!Rides : Keeps(s) /\ (s \in rides => ~Series!On(s)')
  <2> SUFFICES ASSUME NEW s \in Series!Rides PROVE Keeps(s) /\ (s \in rides => ~Series!On(s)')
    OBVIOUS
  <2>1. seriesRide[s] \in SeriesRide
    BY DEF SeriesInv, SeriesTypes
  <2>2. CASE s \in rides
    BY <1>1, <2>1, <2>2 DEF Keeps, Series!On, SeriesRide
  <2>3. CASE s \notin rides
    BY <1>1, <2>3 DEF Keeps, Series!On
  <2> QED BY <2>2, <2>3
<1>3. SeriesTypes'
  <2>1. seriesRide' \in [Series!Rides -> SeriesRide]
    BY DEF Series!Cancelled, SeriesInv, SeriesTypes, SeriesRide
  <2>2. series' \in [Keys -> {"none", "ACTIVE", "CANCELLED"}]
    BY DEF Series!CancelledSeries, SeriesInv, SeriesTypes
  <2> QED BY <2>1, <2>2 DEF SeriesInv, SeriesTypes
<1>4. CommutesApart'
  BY <1>2, KeptStayApart DEF SeriesInv
<1>5. CancelledIsEmpty'
  <2>0. \A s \in Series!Occurrences : s \in Series!Rides /\ s[1] \in Keys
    BY DEF Series!Rides, Series!Occurrences
  <2>1. CASE series' = series
    BY <1>2, <2>0, <2>1, KeptStayEmpty DEF SeriesInv, Keeps
  <2>2. ASSUME NEW r \in Series!Occurrences, series' = Series!CancelledSeries(r, rides)
        PROVE  CancelledIsEmpty'
    <3> SUFFICES ASSUME NEW s \in Series!Occurrences, series'[s[1]] = "CANCELLED", Series!On(s)'
                 PROVE  FALSE
      BY DEF CancelledIsEmpty, Series!Occurrences
    <3>1. Series!On(s) /\ s \notin rides
      BY <1>2, <2>0 DEF Keeps
    <3>2. series[s[1]] # "CANCELLED"
      BY <3>1 DEF SeriesInv, CancelledIsEmpty
    <3>3. s[1] = r[1] /\ Series!Remaining(r, rides) = {}
      BY <2>0, <2>2, <3>2 DEF Series!CancelledSeries, SeriesInv, SeriesTypes
    <3> QED BY <3>1, <3>3 DEF Series!Remaining
  <2> QED BY <2>1, <2>2
<1> QED BY <1>3, <1>4, <1>5 DEF SeriesInv

\* Moving rides: to departures that differ from one another, and from those of
\* the rides that are not moved.
LEMMA MovedFits ==
  ASSUME SeriesInv, NEW at, DOMAIN at \subseteq Series!Rides, Series!Moved(at),
         \A r \in DOMAIN at : at[r] \in Nat,
         \A r, s \in DOMAIN at : at[r] = at[s] => r = s
  PROVE  SeriesInv'
<1> DEFINE rides == DOMAIN at
<1>0. /\ seriesRide' = [r \in Series!Rides |->
           IF r \in rides THEN [seriesRide[r] EXCEPT !.at = at[r]] ELSE seriesRide[r]]
      /\ \A r \in rides : seriesRide[r].type = "COMMUTE" =>
           Series!CommuteSlotFree(at[r], Series!Rides \ rides)
      /\ changes' = changes + 1 /\ UNCHANGED <<series, clock>>
  BY DEF Series!Moved
<1>1. \A r \in Series!Rides :
        /\ r \in rides => seriesRide'[r] = [seriesRide[r] EXCEPT !.at = at[r]]
        /\ r \notin rides => seriesRide'[r] = seriesRide[r]
  BY <1>0
<1>2. \A r \in Series!Rides :
        /\ seriesRide'[r].type = seriesRide[r].type /\ (Series!On(r)' <=> Series!On(r))
        /\ seriesRide'[r].at = IF r \in rides THEN at[r] ELSE seriesRide[r].at
  <2> SUFFICES ASSUME NEW r \in Series!Rides
               PROVE  /\ seriesRide'[r].type = seriesRide[r].type
                      /\ Series!On(r)' <=> Series!On(r)
                      /\ seriesRide'[r].at = IF r \in rides THEN at[r] ELSE seriesRide[r].at
    OBVIOUS
  <2>1. seriesRide[r] \in SeriesRide
    BY DEF SeriesInv, SeriesTypes
  <2>2. CASE r \in rides
    BY <1>1, <2>1, <2>2 DEF Series!On, SeriesRide
  <2>3. CASE r \notin rides
    BY <1>1, <2>3 DEF Series!On
  <2> QED BY <2>2, <2>3
<1>3. SeriesTypes'
  <2>1. seriesRide' \in [Series!Rides -> SeriesRide]
    BY <1>0 DEF SeriesInv, SeriesTypes, SeriesRide
  <2> QED BY <1>0, <2>1 DEF SeriesInv, SeriesTypes
<1>4. CommutesApart'
  <2> SUFFICES ASSUME NEW s \in Series!Rides, NEW t \in Series!Rides, s # t,
                      Series!On(s)', Series!On(t)', seriesRide'[s].type = "COMMUTE",
                      seriesRide'[t].type = "COMMUTE", seriesRide'[s].at = seriesRide'[t].at
               PROVE  FALSE
    BY DEF CommutesApart, Series!Rides
  <2>0. /\ Series!On(s) /\ Series!On(t) /\ seriesRide[s].type = "COMMUTE"
        /\ seriesRide[t].type = "COMMUTE"
    BY <1>2
  <2>1. CASE s \in rides /\ t \in rides
    BY <1>2, <2>1
  <2>2. CASE s \in rides /\ t \notin rides
    <3>1. seriesRide'[s].at = at[s] /\ seriesRide'[t].at = seriesRide[t].at
      BY <1>2, <2>2
    <3>2. Series!CommuteSlotFree(at[s], Series!Rides \ rides) /\ t \in Series!Rides \ rides
      BY <1>0, <2>0, <2>2
    <3> QED BY <2>0, <3>1, <3>2 DEF Series!CommuteSlotFree
  <2>3. CASE s \notin rides /\ t \in rides
    <3>1. seriesRide'[t].at = at[t] /\ seriesRide'[s].at = seriesRide[s].at
      BY <1>2, <2>3
    <3>2. Series!CommuteSlotFree(at[t], Series!Rides \ rides) /\ s \in Series!Rides \ rides
      BY <1>0, <2>0, <2>3
    <3> QED BY <2>0, <3>1, <3>2 DEF Series!CommuteSlotFree
  <2>4. CASE s \notin rides /\ t \notin rides
    BY <1>2, <2>0, <2>4 DEF SeriesInv, CommutesApart
  <2> QED BY <2>1, <2>2, <2>3, <2>4
<1>5. CancelledIsEmpty'
  BY <1>0, <1>2, KeptStayEmpty DEF SeriesInv, Series!Rides
<1> QED BY <1>3, <1>4, <1>5 DEF SeriesInv

\* The dates of one series that a step looks at are finitely many.
LEMMA FromDateFinite ==
  ASSUME Series!Parameters, NEW r \in Series!Occurrences, NEW same
  PROVE  IsFiniteSet(Series!FromDate(r, same))
<1> DEFINE pairs == Dates \X {"OUTBOUND", "RETURN"}
           row == [p \in pairs |-> <<r[1], p[1], p[2]>>]
           rows == {row[p] : p \in pairs}
<1>1. IsFiniteSet(Dates) /\ IsFiniteSet({"OUTBOUND", "RETURN"})
  <2>1. IsFiniteSet({"OUTBOUND"}) /\ {"OUTBOUND"} \cup {"RETURN"} = {"OUTBOUND", "RETURN"}
    BY FS_Singleton
  <2> QED BY <2>1, FS_AddElement, CountsAgree DEF Series!Parameters
<1>2. IsFiniteSet(pairs)
  BY <1>1, FS_Product
<1>3. row \in Surjection(pairs, rows)
  BY DEF Surjection
<1>4. IsFiniteSet(rows)
  BY <1>2, <1>3, FS_Surjection
<1>5. Series!FromDate(r, same) \subseteq rows
  <2> SUFFICES ASSUME NEW s \in Series!FromDate(r, same) PROVE s \in rows
    OBVIOUS
  <2>1. s \in Series!Occurrences /\ s[1] = r[1]
    BY DEF Series!FromDate
  <2>2. s = <<r[1], s[2], s[3]>> /\ <<s[2], s[3]>> \in pairs
    BY <2>1 DEF Series!Occurrences
  <2>3. row[<<s[2], s[3]>>] = s
    BY <2>2
  <2> QED BY <2>2, <2>3
<1> QED BY <1>4, <1>5, FS_Subset

LEMMA UpdateSeriesFits ==
  ASSUME Series!Parameters, SeriesInv, NEW r \in Series!Occurrences, NEW time \in Times,
         Series!updateSeries(r, time)
  PROVE  SeriesInv'
<1> DEFINE eligible == {s \in Series!FromDate(r, TRUE) :
                          seriesRide[s].status = "PUBLISHED" /\ ~Series!isPastOccurrence(s)}
           to == [s \in eligible |->
                    Series!Departure(seriesRide[s].at \div (Series!Cardinality(Times) + 1), time)]
           moved == {to[s] : s \in eligible}
<1>1. Cardinality(moved) = Cardinality(eligible) /\ Series!Moved(to)
  BY CountsAgree DEF Series!updateSeries
<1>2. IsFiniteSet(eligible)
  BY FromDateFinite, FS_Subset
<1>3. \A s, t \in eligible : to[s] = to[t] => s = t
  <2>1. to \in Surjection(eligible, moved)
    BY DEF Surjection
  <2>2. to \in Injection(eligible, moved)
    BY <1>1, <1>2, <2>1, FS_Surjection
  <2> QED BY <2>2 DEF Injection, IsInjective
<1>4. eligible \subseteq Series!Rides
  BY DEF Series!FromDate, Series!Rides
<1>5. \A s \in eligible : to[s] \in Nat
  <2> SUFFICES ASSUME NEW s \in eligible PROVE to[s] \in Nat
    OBVIOUS
  <2>1. seriesRide[s].at \in Nat
    BY <1>4 DEF SeriesInv, SeriesTypes, SeriesRide
  <2>2. Series!Cardinality(Times) \in Nat
    BY CountsAgree, FS_CardinalityType DEF Series!Parameters
  <2>3. seriesRide[s].at \div (Series!Cardinality(Times) + 1) \in Nat
    BY <2>1, <2>2
  <2> QED BY <2>3, DepartureType
<1>6. DOMAIN to = eligible
  OBVIOUS
<1> HIDE DEF to, eligible
<1> QED BY <1>1, <1>3, <1>4, <1>5, <1>6, MovedFits

LEMMA UpdateThisFits ==
  ASSUME SeriesInv, NEW r \in Series!Rides, NEW at \in Nat, Series!updateThis(r, at)
  PROVE  SeriesInv'
<1> DEFINE to == [s \in {r} |-> at]
<1>1. Series!Moved(to) /\ DOMAIN to = {r} /\ \A s \in {r} : to[s] \in Nat
  BY DEF Series!updateThis
<1> HIDE DEF to
<1> QED BY <1>1, MovedFits

LEMMA StepKeepsSeriesInv ==
  ASSUME Series!Parameters, SeriesInv, [Series!Next]_(Series!seriesVars)
  PROVE  SeriesInv'
<1>0. CASE UNCHANGED Series!seriesVars
  BY <1>0 DEF Series!seriesVars, SeriesInv, SeriesTypes, CommutesApart, CancelledIsEmpty,
              Series!On, Series!Rides, Series!Occurrences
<1>d. Series!Departures \subseteq Nat
  BY DepartureType DEF Series!Departures, Series!Parameters
<1>1. ASSUME NEW k \in Keys, NEW dates \in SUBSET Dates, NEW returnEnabled \in BOOLEAN,
             Series!publish(k, dates, returnEnabled)
      PROVE  SeriesInv'
  BY <1>1, PublishFits
<1>2. ASSUME NEW r \in Singles, NEW at \in Series!Departures,
             Series!createCommuteRide(r, at) \/ Series!createRegularRide(r, at)
      PROVE  SeriesInv'
  BY <1>d, <1>2, CreateFits
<1>3. ASSUME NEW r \in Series!Rides, Series!cancelByDriver(r)
      PROVE  SeriesInv'
  BY <1>3, CancelledFits DEF Series!cancelByDriver
<1>4. ASSUME NEW r \in Series!Rides, NEW all \in BOOLEAN, Series!cancelByAdmin(r, all)
      PROVE  SeriesInv'
  <2> DEFINE everything == r \in Series!Occurrences /\ all
             rides == IF everything THEN Series!FromDate(r, FALSE) ELSE {r}
             cancelled == {s \in rides : Series!On(s)}
  <2>1. /\ seriesRide' = Series!Cancelled(cancelled) /\ UNCHANGED <<clock, changes>>
        /\ series' = IF everything THEN Series!CancelledSeries(r, cancelled) ELSE series
    BY <1>4 DEF Series!cancelByAdmin
  <2>2. cancelled \in SUBSET Series!Rides
    BY DEF Series!FromDate, Series!Rides
  <2> HIDE DEF cancelled
  <2>3. \/ series' = series
        \/ \E o \in Series!Occurrences : series' = Series!CancelledSeries(o, cancelled)
    BY <2>1
  <2> QED BY <2>1, <2>2, <2>3, CancelledFits
<1>5. ASSUME NEW r \in Series!Occurrences, Series!cancelCommuteSeriesByDriver(r)
      PROVE  SeriesInv'
  <2> DEFINE cancelled == {s \in Series!FromDate(r, FALSE) :
               seriesRide[s].status = "PUBLISHED" /\ (s = r \/ ~seriesRide[s].booked)}
  <2>1. /\ seriesRide' = Series!Cancelled(cancelled) /\ UNCHANGED <<clock, changes>>
        /\ series' = Series!CancelledSeries(r, cancelled)
    BY <1>5 DEF Series!cancelCommuteSeriesByDriver
  <2>2. cancelled \in SUBSET Series!Rides
    BY DEF Series!FromDate, Series!Rides
  <2> HIDE DEF cancelled
  <2> QED BY <2>1, <2>2, CancelledFits
<1>6. ASSUME NEW r \in Series!Rides,
             \/ Series!Book(r) \/ Series!CancelBookings(r) \/ Series!startByDriver(r)
             \/ Series!complete(r)
      PROVE  SeriesInv'
  <2>2. UNCHANGED <<series, clock, changes>>
    BY <1>6 DEF Series!Book, Series!CancelBookings, Series!startByDriver, Series!complete
  <2>r. seriesRide \in [Series!Rides -> SeriesRide] /\ seriesRide[r] \in SeriesRide
    BY DEF SeriesInv, SeriesTypes
  <2>1. PICK new \in SeriesRide :
          /\ seriesRide' = [seriesRide EXCEPT ![r] = new]
          /\ new.type = seriesRide[r].type /\ new.at = seriesRide[r].at
          /\ seriesRide[r].status \in {"PUBLISHED", "IN_PROGRESS"}
    <3> DEFINE Changed(new) ==
                 /\ seriesRide' = [seriesRide EXCEPT ![r] = new]
                 /\ new.type = seriesRide[r].type /\ new.at = seriesRide[r].at
                 /\ seriesRide[r].status \in {"PUBLISHED", "IN_PROGRESS"}
    <3>1. CASE Series!Book(r)
      <4>1. Changed([seriesRide[r] EXCEPT !.booked = TRUE])
        BY <2>r, <3>1 DEF Series!Book, SeriesRide
      <4> QED BY <2>r, <4>1 DEF SeriesRide
    <3>2. CASE Series!CancelBookings(r)
      <4>1. Changed([seriesRide[r] EXCEPT !.booked = FALSE])
        BY <2>r, <3>2 DEF Series!CancelBookings, SeriesRide
      <4> QED BY <2>r, <4>1 DEF SeriesRide
    <3>3. CASE Series!startByDriver(r)
      <4>1. Changed([seriesRide[r] EXCEPT !.status = "IN_PROGRESS"])
        BY <2>r, <3>3 DEF Series!startByDriver, SeriesRide
      <4> QED BY <2>r, <4>1 DEF SeriesRide
    <3>4. CASE Series!complete(r)
      <4>1. Changed([seriesRide[r] EXCEPT !.status = "COMPLETED", !.booked = FALSE])
        BY <2>r, <3>4 DEF Series!complete, SeriesRide
      <4> QED BY <2>r, <4>1 DEF SeriesRide
    <3> QED BY <1>6, <3>1, <3>2, <3>3, <3>4
  <2>3. SeriesTypes'
    BY <2>1, <2>2 DEF SeriesInv, SeriesTypes
  <2>4. \A s \in Series!Rides : Keeps(s)
    BY <2>1, <2>r DEF Keeps, Series!On
  <2>5. CommutesApart'
    BY <2>4, KeptStayApart DEF SeriesInv
  <2>6. CancelledIsEmpty'
    BY <2>2, <2>4, KeptStayEmpty DEF SeriesInv, Keeps, Series!Rides
  <2> QED BY <2>3, <2>5, <2>6 DEF SeriesInv
<1>7. ASSUME NEW r \in Series!Rides, NEW at \in Series!Departures, Series!updateThis(r, at)
      PROVE  SeriesInv'
  BY <1>d, <1>7, UpdateThisFits
<1>8. ASSUME NEW r \in Series!Occurrences, NEW time \in Times, Series!updateSeries(r, time)
      PROVE  SeriesInv'
  BY <1>8, UpdateSeriesFits
<1>9. ASSUME NEW at \in Series!Departures, Series!Pass(at)
      PROVE  SeriesInv'
  BY <1>d, <1>9 DEF Series!Pass, SeriesInv, SeriesTypes, CommutesApart, CancelledIsEmpty,
                    Series!On, Series!Rides, Series!Occurrences
<1> QED BY <1>0, <1>1, <1>2, <1>3, <1>4, <1>5, <1>6, <1>7, <1>8, <1>9 DEF Series!Next

\* No step moves a ride that is booked before and after it.
LEMMA StepKeepsBooked ==
  ASSUME SeriesInv, [Series!Next]_(Series!seriesVars),
         NEW r \in Series!Rides, seriesRide[r].booked, seriesRide'[r].booked
  PROVE  seriesRide'[r].at = seriesRide[r].at
<1>0. CASE UNCHANGED Series!seriesVars
  BY <1>0 DEF Series!seriesVars
<1>1. ASSUME NEW k \in Keys, NEW dates \in SUBSET Dates, NEW returnEnabled \in BOOLEAN,
             Series!publish(k, dates, returnEnabled)
      PROVE  seriesRide'[r].at = seriesRide[r].at
  BY <1>1 DEF Series!publish, Series!Published
<1>2. ASSUME NEW s \in Singles, NEW at \in Series!Departures,
             Series!createCommuteRide(s, at) \/ Series!createRegularRide(s, at)
      PROVE  seriesRide'[r].at = seriesRide[r].at
  BY <1>2 DEF Series!createCommuteRide, Series!createRegularRide, Series!NoRide,
              SeriesInv, SeriesTypes
<1>3. ASSUME NEW rides, seriesRide' = Series!Cancelled(rides)
      PROVE  seriesRide'[r].at = seriesRide[r].at
  BY <1>3 DEF Series!Cancelled, SeriesInv, SeriesTypes, SeriesRide
<1>4. ASSUME NEW at, Series!Moved(at)
      PROVE  seriesRide'[r].at = seriesRide[r].at
  BY <1>4 DEF Series!Moved, Series!Protected, SeriesInv, SeriesTypes, SeriesRide
<1>5. ASSUME NEW s \in Series!Rides,
             \/ Series!Book(s) \/ Series!CancelBookings(s) \/ Series!startByDriver(s)
             \/ Series!complete(s)
      PROVE  seriesRide'[r].at = seriesRide[r].at
  BY <1>5 DEF Series!Book, Series!CancelBookings, Series!startByDriver, Series!complete,
              SeriesInv, SeriesTypes, SeriesRide
<1>6. ASSUME NEW at \in Series!Departures, Series!Pass(at)
      PROVE  seriesRide'[r].at = seriesRide[r].at
  BY <1>6 DEF Series!Pass
<1> QED
  BY <1>0, <1>1, <1>2, <1>3, <1>4, <1>5, <1>6
  DEF Series!Next, Series!cancelByDriver, Series!cancelByAdmin, Series!cancelCommuteSeriesByDriver,
      Series!updateThis, Series!updateSeries
-----------------------------------------------------------------------------
(* The vehicles and their verification.                                    *)

VehicleRow ==
  [stored : {"no", "yes", "deleted"}, active : BOOLEAN, number : Numbers \cup {"none"}]

AttemptRow ==
  [of : Ids \cup {"none"}, number : Numbers \cup {"none"}, recent : BOOLEAN,
   status : {"NONE", "PENDING", "VALID", "INVALID", "FAILED"}]

Handling ==
  [does : {"nothing", "create", "update", "invalidate", "activate", "verify"},
   v : Ids \cup {"none"}, n : Garage!Attempts \cup {0}, copy : VehicleRow, actives : SUBSET Ids]

GarageTypes ==
  /\ vehicle \in [Ids -> VehicleRow] /\ attempt \in [Garage!Attempts -> AttemptRow]
  /\ work \in [Processes -> Handling]

\* Attempts are numbered in the order in which they begin.
UsedInOrder ==
  \A m, n \in Garage!Attempts : m < n /\ attempt[n].status # "NONE" => attempt[m].status # "NONE"

\* A verification under way has begun its attempt.
VerifiesItsAttempt ==
  \A p \in Processes : work[p].does = "verify" =>
    work[p].n \in Garage!Attempts /\ attempt[work[p].n].status # "NONE"

Pending(n, v) == attempt[n].status = "PENDING" /\ attempt[n].of = v

\* Only the newest of a vehicle's attempts without an answer may be recent.
OldOnesAreStale ==
  \A m, n \in Garage!Attempts, v \in Ids :
    m < n /\ Pending(m, v) /\ Pending(n, v) => ~attempt[m].recent

GarageInv == GarageTypes /\ UsedInOrder /\ VerifiesItsAttempt /\ OldOnesAreStale

LEMMA GarageInvOneAttempt ==
  ASSUME MaxAttempts \in Nat, GarageInv PROVE Garage!OneAttempt
<1> SUFFICES ASSUME NEW v \in Ids
             PROVE  Cardinality({n \in Garage!Of(v) : attempt[n].status = "PENDING"
                                                      /\ attempt[n].recent}) <= 1
  BY CountsAgree DEF Garage!OneAttempt
<1> DEFINE asked == {n \in Garage!Of(v) : attempt[n].status = "PENDING" /\ attempt[n].recent}
<1>1. ASSUME NEW m \in asked, NEW n \in asked PROVE m = n
  <2>1. m \in Garage!Attempts /\ n \in Garage!Attempts /\ Pending(m, v) /\ Pending(n, v)
    BY DEF Garage!Of, Garage!Used, Pending
  <2>2. ~(m < n) /\ ~(n < m) /\ m \in Nat /\ n \in Nat
    BY <2>1 DEF GarageInv, OldOnesAreStale, Garage!Attempts
  <2> QED BY <2>2
<1>2. CASE asked = {}
  BY <1>2, FS_EmptySet
<1>3. CASE asked # {}
  <2>1. PICK n : asked = {n}
    BY <1>1, <1>3
  <2>2. Cardinality({n}) = 1
    BY FS_Singleton
  <2> HIDE DEF asked
  <2>3. Cardinality(asked) <= 1
    BY <2>1, <2>2
  <2> QED BY <2>3 DEF asked
<1> QED BY <1>2, <1>3

\* Every set of attempts that is not empty has a newest one.
LEMMA NewestIsIn ==
  ASSUME MaxAttempts \in Nat, NEW ns \in SUBSET Garage!Attempts, ns # {}
  PROVE  Garage!Newest(ns) \in ns /\ \A m \in ns : m <= Garage!Newest(ns)
<1> DEFINE headroom == {k \in 0 .. MaxAttempts : MaxAttempts - k \in ns}
<1>1. \A m \in ns : m \in Nat /\ m <= MaxAttempts /\ MaxAttempts - m \in headroom
  BY DEF Garage!Attempts
<1>2. PICK k \in headroom : \A j \in headroom : k <= j
  <2>1. headroom \subseteq Nat /\ headroom # {}
    BY <1>1
  <2> HIDE DEF headroom
  <2> QED BY <2>1, LeastNatural
<1>3. MaxAttempts - k \in ns /\ \A m \in ns : m <= MaxAttempts - k
  BY <1>1, <1>2
<1> QED BY <1>3 DEF Garage!Newest

LEMMA GarageInitInv ==
  ASSUME Garage!Init PROVE GarageInv
BY DEF Garage!Init, GarageInv, GarageTypes, VehicleRow, AttemptRow, Handling, UsedInOrder,
       VerifiesItsAttempt, OldOnesAreStale, Pending, Garage!NoVehicle, Garage!NoAttempt,
       Garage!Idle

\* A step that leaves the attempts and begins no verification.
LEMMA AttemptsUntouched ==
  ASSUME GarageInv, GarageTypes', UNCHANGED attempt,
         \A p \in Processes : work'[p] = work[p] \/ work'[p].does # "verify"
  PROVE  GarageInv'
BY DEF GarageInv, UsedInOrder, VerifiesItsAttempt, OldOnesAreStale, Pending, Garage!Attempts

\* A step that answers an attempt that has begun, or lets it grow old.
LEMMA AttemptSettled ==
  ASSUME GarageInv, GarageTypes', NEW n \in Garage!Attempts, attempt[n].status # "NONE",
         NEW row \in AttemptRow, attempt' = [attempt EXCEPT ![n] = row], row.of = attempt[n].of,
         row.status # "NONE", row.status = "PENDING" => row.status = attempt[n].status,
         row.recent => attempt[n].recent,
         \A p \in Processes : work'[p] = work[p] \/ work'[p].does # "verify"
  PROVE  GarageInv'
<1>1. \A m \in Garage!Attempts :
        /\ attempt'[m] = IF m = n THEN row ELSE attempt[m]
        /\ attempt'[m].status = "NONE" <=> attempt[m].status = "NONE"
        /\ attempt'[m].status = "PENDING" => attempt[m].status = "PENDING"
        /\ attempt'[m].of = attempt[m].of
        /\ attempt'[m].recent => attempt[m].recent
  BY DEF GarageInv, GarageTypes
<1>2. UsedInOrder'
  BY <1>1 DEF GarageInv, UsedInOrder, Garage!Attempts
<1>3. VerifiesItsAttempt'
  <2> SUFFICES ASSUME NEW p \in Processes, work'[p].does = "verify"
               PROVE  work'[p].n \in Garage!Attempts /\ attempt'[work'[p].n].status # "NONE"
    BY DEF VerifiesItsAttempt, Garage!Attempts
  <2>1. /\ work'[p] = work[p] /\ work[p].n \in Garage!Attempts
        /\ attempt[work[p].n].status # "NONE"
    BY DEF GarageInv, VerifiesItsAttempt
  <2> QED BY <1>1, <2>1 DEF GarageInv, GarageTypes
<1>4. OldOnesAreStale'
  BY <1>1 DEF GarageInv, OldOnesAreStale, Pending, Garage!Attempts
<1> QED BY <1>2, <1>3, <1>4 DEF GarageInv

\* A new attempt begins when none is in flight: it becomes the newest.
LEMMA BeginIsOne ==
  ASSUME MaxAttempts \in Nat, GarageInv, NEW p \in Processes, NEW v \in Ids,
         Garage!beginVerificationAttempt(p, v)
  PROVE  GarageInv'
<1> DEFINE row == [of |-> v, number |-> vehicle[v].number, status |-> "PENDING", recent |-> TRUE]
           handling(n) == [Garage!Idle EXCEPT !.does = "verify", !.v = v, !.n = n,
                                              !.copy = vehicle[v]]
<1>1. PICK n \in Garage!Attempts \ Garage!Used :
        /\ \A m \in Garage!Attempts \ Garage!Used : n <= m
        /\ attempt' = [attempt EXCEPT ![n] = row] /\ work' = [work EXCEPT ![p] = handling(n)]
        /\ UNCHANGED vehicle /\ ~Garage!inFlight(v)
  BY DEF Garage!beginVerificationAttempt, Garage!Begin
<1>2. /\ n \in Garage!Attempts /\ attempt[n].status = "NONE"
      /\ \A m \in Garage!Attempts : m < n => attempt[m].status # "NONE"
      /\ \A m \in Garage!Attempts : n < m => attempt[m].status = "NONE"
  <2>1. n \in Garage!Attempts /\ attempt[n].status = "NONE"
    BY DEF Garage!Used
  <2>2. \A m \in Garage!Attempts : m < n => attempt[m].status # "NONE"
    BY <1>1, <2>1 DEF Garage!Used, Garage!Attempts
  <2>3. \A m \in Garage!Attempts : n < m => attempt[m].status = "NONE"
    BY <2>1 DEF GarageInv, UsedInOrder
  <2> QED BY <2>1, <2>2, <2>3
<1>3. vehicle[v] \in VehicleRow /\ row \in AttemptRow
  BY DEF GarageInv, GarageTypes, VehicleRow, AttemptRow
<1>4. handling(n) \in Handling /\ handling(n).n = n
  BY <1>2, <1>3 DEF Handling, Garage!Idle, Garage!NoVehicle, VehicleRow
<1> HIDE DEF row, handling
<1>5. GarageTypes'
  BY <1>1, <1>2, <1>3, <1>4 DEF GarageInv, GarageTypes, Garage!Attempts
<1>6. \A m \in Garage!Attempts : attempt'[m] = IF m = n THEN row ELSE attempt[m]
  BY <1>1 DEF GarageInv, GarageTypes
<1>r. row.of = v /\ row.status = "PENDING" /\ row.recent
  BY DEF row
<1>7. UsedInOrder'
  <2> SUFFICES ASSUME NEW m \in Garage!Attempts, NEW k \in Garage!Attempts, m < k,
                      attempt'[k].status # "NONE"
               PROVE  attempt'[m].status # "NONE"
    BY DEF UsedInOrder, Garage!Attempts
  <2>1. CASE m = n
    BY <1>6, <1>r, <2>1
  <2>2. CASE m # n /\ k = n
    BY <1>2, <1>6, <2>2
  <2>3. CASE m # n /\ k # n
    BY <1>6, <2>3 DEF GarageInv, UsedInOrder
  <2> QED BY <2>1, <2>2, <2>3
<1>8. VerifiesItsAttempt'
  <2> SUFFICES ASSUME NEW q \in Processes, work'[q].does = "verify"
               PROVE  work'[q].n \in Garage!Attempts /\ attempt'[work'[q].n].status # "NONE"
    BY DEF VerifiesItsAttempt, Garage!Attempts
  <2>1. CASE q = p
    BY <1>1, <1>2, <1>4, <1>6, <1>r, <2>1 DEF GarageInv, GarageTypes
  <2>2. CASE q # p
    <3>1. /\ work'[q] = work[q] /\ work[q].n \in Garage!Attempts
          /\ attempt[work[q].n].status # "NONE"
      BY <1>1, <2>2 DEF GarageInv, GarageTypes, VerifiesItsAttempt
    <3>2. attempt'[work[q].n] = attempt[work[q].n]
      BY <1>1, <1>2, <3>1 DEF GarageInv, GarageTypes
    <3> QED BY <3>1, <3>2
  <2> QED BY <2>1, <2>2
<1>9. OldOnesAreStale'
  <2> SUFFICES ASSUME NEW m \in Garage!Attempts, NEW k \in Garage!Attempts, NEW u \in Ids, m < k,
                      Pending(m, u)', Pending(k, u)'
               PROVE  ~attempt'[m].recent
    BY DEF OldOnesAreStale, Garage!Attempts
  <2>1. CASE m = n
    BY <1>2, <1>6, <2>1 DEF Pending, Garage!Attempts
  <2>2. CASE m # n /\ k # n
    BY <1>6, <2>2 DEF GarageInv, OldOnesAreStale, Pending
  <2>3. CASE m # n /\ k = n
    <3> DEFINE pending == {j \in Garage!Of(v) : attempt[j].status = "PENDING"}
    <3>1. u = v /\ Pending(m, v)
      BY <1>6, <1>r, <2>3 DEF Pending
    <3>2. m \in pending /\ pending \subseteq Garage!Attempts
      BY <3>1 DEF Garage!Of, Garage!Used, Pending
    <3>3. /\ Garage!Newest(pending) \in pending /\ m <= Garage!Newest(pending)
          /\ ~attempt[Garage!Newest(pending)].recent
      BY <1>1, <3>2, NewestIsIn DEF Garage!inFlight
    <3> HIDE DEF pending
    <3>4. PICK j \in pending : j = Garage!Newest(pending) /\ m <= j /\ ~attempt[j].recent
      BY <3>3
    <3>5. j \in Garage!Attempts /\ Pending(j, v)
      BY DEF pending, Garage!Of, Garage!Used, Pending
    <3>6. ~attempt[m].recent
      BY <3>1, <3>4, <3>5 DEF GarageInv, OldOnesAreStale, Garage!Attempts
    <3> QED BY <1>6, <2>3, <3>6
  <2> QED BY <2>1, <2>2, <2>3
<1> QED BY <1>5, <1>7, <1>8, <1>9 DEF GarageInv

\* What a process does next, when it does not begin a verification.
LEMMA HandlingGoesOn ==
  ASSUME work \in [Processes -> Handling], NEW p \in Processes, NEW w \in Handling,
         w.does # "verify", work' = [work EXCEPT ![p] = w]
  PROVE  /\ work' \in [Processes -> Handling]
         /\ \A q \in Processes : work'[q] = work[q] \/ work'[q].does # "verify"
OBVIOUS

LEMMA IdleIsHandling == Garage!Idle \in Handling /\ Garage!Idle.does = "nothing"
BY DEF Garage!Idle, Garage!NoVehicle, Handling, VehicleRow

LEMMA VehicleSaved ==
  ASSUME vehicle \in [Ids -> VehicleRow], NEW v, NEW row \in VehicleRow,
         Garage!Save(v, row)
  PROVE  vehicle' \in [Ids -> VehicleRow]
BY DEF Garage!Save

LEMMA StepKeepsGarageInv ==
  ASSUME MaxAttempts \in Nat, GarageInv, [Garage!Next]_(Garage!vehicleVars)
  PROVE  GarageInv'
<1>0. CASE UNCHANGED Garage!vehicleVars
  BY <1>0 DEF Garage!vehicleVars, GarageInv, GarageTypes, UsedInOrder, VerifiesItsAttempt,
              OldOnesAreStale, Pending
<1>t. GarageTypes
  BY DEF GarageInv
<1>1. ASSUME NEW p \in Processes, NEW v \in Ids,
             \/ Garage!CountVehicles(p, v) \/ Garage!requireOwnedVehicle(p, v)
             \/ Garage!SelectActives(p, v)
      PROVE  GarageInv'
  <2>1. /\ Garage!Kept \in SUBSET Ids /\ Garage!Actives \in SUBSET Ids /\ vehicle[v] \in VehicleRow
    BY <1>t DEF Garage!Kept, Garage!Actives, GarageTypes
  <2>2. PICK w \in Handling : w.does # "verify" /\ work' = [work EXCEPT ![p] = w]
    <3>1. CASE Garage!CountVehicles(p, v)
      <4>1. [Garage!Idle EXCEPT !.does = "create", !.v = v, !.actives = Garage!Kept] \in Handling
        BY <2>1, IdleIsHandling DEF Handling
      <4> QED BY <3>1, <4>1, IdleIsHandling DEF Garage!CountVehicles, Garage!Begin, Handling
    <3>2. CASE Garage!requireOwnedVehicle(p, v)
      <4>1. [Garage!Idle EXCEPT !.does = "update", !.v = v, !.copy = vehicle[v]] \in Handling
        BY <2>1, IdleIsHandling DEF Handling
      <4> QED BY <3>2, <4>1, IdleIsHandling DEF Garage!requireOwnedVehicle, Garage!Begin, Handling
    <3>3. CASE Garage!SelectActives(p, v)
      <4>1. [Garage!Idle EXCEPT !.does = "activate", !.v = v, !.copy = vehicle[v],
                                !.actives = Garage!Actives] \in Handling
        BY <2>1, IdleIsHandling DEF Handling
      <4> QED BY <3>3, <4>1, IdleIsHandling DEF Garage!SelectActives, Garage!Begin, Handling
    <3> QED BY <1>1, <3>1, <3>2, <3>3
  <2>3. UNCHANGED <<vehicle, attempt>>
    BY <1>1 DEF Garage!CountVehicles, Garage!requireOwnedVehicle, Garage!SelectActives
  <2>4. GarageTypes' /\ \A q \in Processes : work'[q] = work[q] \/ work'[q].does # "verify"
    BY <1>t, <2>2, <2>3, HandlingGoesOn DEF GarageTypes, Garage!Attempts
  <2> QED BY <2>3, <2>4, AttemptsUntouched
<1>2. ASSUME NEW p \in Processes, NEW v \in Ids, Garage!beginVerificationAttempt(p, v)
      PROVE  GarageInv'
  BY <1>2, BeginIsOne
<1>3. ASSUME NEW p \in Processes, NEW number \in Numbers,
             Garage!create(p, number) \/ Garage!update(p, number)
      PROVE  GarageInv'
  <2>1. work[p] \in Handling /\ work[p].copy \in VehicleRow
    BY <1>t DEF GarageTypes, Handling
  <2>2. PICK w \in Handling : w.does # "verify" /\ work' = [work EXCEPT ![p] = w]
    <3>1. [Garage!Idle EXCEPT !.does = "invalidate"] \in Handling
      BY IdleIsHandling DEF Handling
    <3> QED BY <1>3, <3>1, IdleIsHandling DEF Garage!create, Garage!update, Garage!Finish, Handling
  <2>3. PICK row \in VehicleRow : Garage!Save(work[p].v, row)
    <3>1. CASE Garage!create(p, number)
      BY <3>1 DEF Garage!create, VehicleRow
    <3>2. CASE Garage!update(p, number)
      BY <2>1, <3>2 DEF Garage!update, VehicleRow
    <3> QED BY <1>3, <3>1, <3>2
  <2>4. UNCHANGED attempt
    BY <1>3 DEF Garage!create, Garage!update
  <2>5. GarageTypes' /\ \A q \in Processes : work'[q] = work[q] \/ work'[q].does # "verify"
    BY <1>t, <2>2, <2>3, <2>4, HandlingGoesOn, VehicleSaved DEF GarageTypes, Garage!Attempts
  <2> QED BY <2>4, <2>5, AttemptsUntouched
<1>4. ASSUME NEW p \in Processes,
             \/ Garage!invalidateCurrentVerification(p) \/ Garage!setActiveVehicle(p)
             \/ Garage!Stop(p)
      PROVE  GarageInv'
  <2>1. work' = [work EXCEPT ![p] = Garage!Idle] /\ UNCHANGED attempt
    BY <1>4 DEF Garage!invalidateCurrentVerification, Garage!setActiveVehicle, Garage!Stop,
                Garage!Finish
  <2>2. vehicle' \in [Ids -> VehicleRow]
    <3>1. CASE UNCHANGED vehicle
      BY <1>t, <3>1 DEF GarageTypes
    <3>2. CASE Garage!setActiveVehicle(p)
      <4>0. work[p].copy \in VehicleRow
        BY <1>t DEF GarageTypes, Handling
      <4>1. [work[p].copy EXCEPT !.active = TRUE] \in VehicleRow
        BY <4>0 DEF VehicleRow
      <4>2. \A v \in Ids : /\ vehicle[v] \in VehicleRow
                          /\ [vehicle[v] EXCEPT !.active = FALSE] \in VehicleRow
        BY <1>t DEF GarageTypes, VehicleRow
      <4> QED BY <3>2, <4>1, <4>2 DEF Garage!setActiveVehicle
    <3> QED BY <1>4, <3>1, <3>2 DEF Garage!invalidateCurrentVerification, Garage!Stop
  <2>3. GarageTypes' /\ \A q \in Processes : work'[q] = work[q] \/ work'[q].does # "verify"
    BY <1>t, <2>1, <2>2, HandlingGoesOn, IdleIsHandling DEF GarageTypes, Garage!Attempts
  <2> QED BY <2>1, <2>3, AttemptsUntouched
<1>5. ASSUME NEW p \in Processes, NEW report,
             Garage!verifyRc(p, report) \/ Garage!markAttemptFailed(p)
      PROVE  GarageInv'
  <2>1. /\ work[p] \in Handling /\ work[p].does = "verify" /\ work[p].copy \in VehicleRow
        /\ work[p].n \in Garage!Attempts /\ attempt[work[p].n].status # "NONE"
    BY <1>t, <1>5 DEF GarageInv, VerifiesItsAttempt, GarageTypes, Handling, Garage!verifyRc,
                      Garage!markAttemptFailed
  <2>2. PICK outcome \in {"VALID", "INVALID", "FAILED"} :
          attempt' = [attempt EXCEPT ![work[p].n].status = outcome]
    BY <1>5 DEF Garage!verifyRc, Garage!markAttemptFailed, Garage!persistCompletedAttempt
  <2>3. vehicle' \in [Ids -> VehicleRow] /\ work' = [work EXCEPT ![p] = Garage!Idle]
    BY <1>t, <1>5, <2>1, VehicleSaved
    DEF Garage!verifyRc, Garage!markAttemptFailed, Garage!Finish, GarageTypes
  <2>4. \A q \in Processes : work'[q] = work[q] \/ work'[q].does # "verify"
    BY <1>t, <2>3, HandlingGoesOn, IdleIsHandling DEF GarageTypes
  <2> DEFINE row == [attempt[work[p].n] EXCEPT !.status = outcome]
  <2>5. attempt[work[p].n] \in AttemptRow
    BY <1>t, <2>1 DEF GarageTypes
  <2>6. /\ row \in AttemptRow /\ row.of = attempt[work[p].n].of /\ row.status = outcome
        /\ row.recent = attempt[work[p].n].recent
    BY <2>5 DEF AttemptRow
  <2>7. attempt' = [attempt EXCEPT ![work[p].n] = row]
    BY <2>2
  <2> HIDE DEF row
  <2>8. GarageTypes'
    BY <1>t, <2>3, <2>6, <2>7, HandlingGoesOn, IdleIsHandling DEF GarageTypes, Garage!Attempts
  <2> QED BY <2>1, <2>4, <2>6, <2>7, <2>8, AttemptSettled
<1>6. ASSUME NEW v \in Ids, Garage!remove(v)
      PROVE  GarageInv'
  <2>1. vehicle' \in [Ids -> VehicleRow] /\ UNCHANGED <<attempt, work>>
    BY <1>t, <1>6 DEF Garage!remove, GarageTypes, VehicleRow
  <2>2. GarageTypes'
    BY <1>t, <2>1 DEF GarageTypes, Garage!Attempts
  <2> QED BY <2>1, <2>2, AttemptsUntouched
<1>7. ASSUME NEW n \in Garage!Attempts, Garage!TimePasses(n)
      PROVE  GarageInv'
  <2> DEFINE row == [attempt[n] EXCEPT !.recent = FALSE]
  <2>1. attempt[n] \in AttemptRow
    BY <1>t DEF GarageTypes
  <2>2. /\ attempt' = [attempt EXCEPT ![n] = row] /\ UNCHANGED <<vehicle, work>>
        /\ row \in AttemptRow /\ row.of = attempt[n].of /\ row.status = attempt[n].status
        /\ ~row.recent
    BY <1>7, <2>1 DEF Garage!TimePasses, AttemptRow
  <2> HIDE DEF row
  <2>3. GarageTypes'
    BY <1>t, <2>2 DEF GarageTypes, Garage!Attempts
  <2>4. CASE attempt[n].status # "NONE"
    BY <2>2, <2>3, <2>4, AttemptSettled
  <2>5. CASE attempt[n].status = "NONE"
    <3>1. \A m \in Garage!Attempts : attempt'[m] = IF m = n THEN row ELSE attempt[m]
      BY <1>t, <2>2 DEF GarageTypes
    <3>2. UsedInOrder'
      BY <2>2, <2>5, <3>1 DEF GarageInv, UsedInOrder, Garage!Attempts
    <3>3. VerifiesItsAttempt'
      BY <1>t, <2>2, <2>5 DEF GarageInv, VerifiesItsAttempt, GarageTypes
    <3>4. OldOnesAreStale'
      BY <2>2, <2>5, <3>1 DEF GarageInv, OldOnesAreStale, Pending, Garage!Attempts
    <3> QED BY <2>3, <3>2, <3>3, <3>4 DEF GarageInv
  <2> QED BY <2>4, <2>5
<1>8. ASSUME Garage!submitVehicleVerification
      PROVE  GarageInv'
  BY <1>8 DEF Garage!submitVehicleVerification, GarageInv, GarageTypes, UsedInOrder,
              VerifiesItsAttempt, OldOnesAreStale, Pending
<1> QED BY <1>0, <1>1, <1>2, <1>3, <1>4, <1>5, <1>6, <1>7, <1>8 DEF Garage!Next
-----------------------------------------------------------------------------
(* Coupons.                                                                *)

CouponRow ==
  [active : BOOLEAN, for : {"none", "ALL", "DRIVERS_ONLY", "RIDERS_ONLY"},
   reserved : Nat, redeemed : Nat]

UsesOf(u) == {r \in redemptions : r.user = u}

\* The counters of the coupon, and those an admin may save, are not ahead of
\* the redemptions.
CouponInv ==
  /\ coupon \in CouponRow /\ copy \in [CouponAdmins -> CouponRow]
  /\ IsFiniteSet(redemptions)
  /\ \A r \in redemptions : r.discount <= r.amount
  /\ \A u \in Users : Cardinality(UsesOf(u)) <= Each
  /\ coupon.redeemed + coupon.reserved <= Cardinality(redemptions)
  /\ \A a \in CouponAdmins : copy[a].redeemed + copy[a].reserved <= Cardinality(redemptions)

LEMMA CouponInvUses ==
  ASSUME CouponInv PROVE Offer!CouponUses
BY CountsAgree DEF CouponInv, Offer!CouponUses, UsesOf

\* What is taken off a charge is not more than the charge.
LEMMA DiscountFits ==
  ASSUME Offer!Parameters, NEW amount \in Amounts
  PROVE  Offer!Discount(amount) <= amount
<1>1. amount \in Nat /\ Benefit.value \in Nat /\ Benefit.max \in Nat
  BY DEF Offer!Parameters
<1> DEFINE share == (amount * Benefit.value + 50) \div 100
           capped == IF Benefit.max = 0 THEN share ELSE Offer!Least(share, Benefit.max)
<1>2. amount * Benefit.value \in Nat
  BY <1>1
<1>3. share \in Nat
  BY <1>2
<1>4. capped \in Nat
  <2> HIDE DEF share
  <2> QED BY <1>1, <1>3 DEF Offer!Least
<1> HIDE DEF capped
<1>5. Offer!Discount(amount) =
        IF Benefit.type = "POINTS_CREDIT" THEN 0
        ELSE Offer!Least(amount, IF Benefit.type = "FIXED_DISCOUNT" THEN Benefit.value ELSE capped)
  BY DEF Offer!Discount, capped
<1> QED BY <1>1, <1>4, <1>5 DEF Offer!Least

LEMMA CouponInitInv ==
  ASSUME Offer!Parameters, Offer!Init PROVE CouponInv
<1>1. \A u \in Users : UsesOf(u) = {}
  BY DEF UsesOf, Offer!Init
<1>2. /\ redemptions = {} /\ Cardinality({}) = 0 /\ IsFiniteSet({}) /\ Each \in Nat
      /\ coupon = [active |-> TRUE, for |-> "ALL", reserved |-> 0, redeemed |-> 0]
      /\ copy = [a \in CouponAdmins |-> Offer!Nothing]
  BY FS_EmptySet DEF Offer!Init, Offer!Parameters
<1>3. \A u \in Users : Cardinality(UsesOf(u)) <= Each
  BY <1>1, <1>2
<1> QED BY <1>2, <1>3 DEF Offer!Nothing, CouponInv, CouponRow

LEMMA RedeemCounts ==
  ASSUME Offer!Parameters, CouponInv, NEW u \in Users, NEW key, NEW charge, NEW amount \in Amounts,
         Offer!Redeem(u, key, charge, amount)
  PROVE  CouponInv'
<1> DEFINE new == [user |-> u, key |-> key, amount |-> amount,
                   discount |-> Offer!Discount(amount), points |-> Offer!PointsCredit]
<1>1. /\ \A r \in redemptions : r.key # key
      /\ Cardinality(UsesOf(u)) < Each
      /\ coupon' = [coupon EXCEPT !.redeemed = @ + 1]
      /\ redemptions' = redemptions \cup {new} /\ UNCHANGED copy
  BY CountsAgree DEF Offer!Redeem, Offer!assertEligible, Offer!WithinUserLimit, UsesOf
<1>2. new.key = key /\ new.user = u /\ new.discount <= new.amount
  BY DiscountFits
<1> HIDE DEF new
<1>3. new \notin redemptions
  BY <1>1, <1>2
<1>4. IsFiniteSet(redemptions') /\ Cardinality(redemptions') = Cardinality(redemptions) + 1
  BY <1>1, <1>3, FS_AddElement DEF CouponInv
<1>5. Cardinality(redemptions) \in Nat
  BY FS_CardinalityType DEF CouponInv
<1>6. ASSUME NEW v \in Users PROVE Cardinality(UsesOf(v)') <= Each
  <2>1. IsFiniteSet(UsesOf(v)) /\ Cardinality(UsesOf(v)) \in Nat
    BY FS_Subset, FS_CardinalityType DEF CouponInv, UsesOf
  <2>2. CASE v = u
    <3>1. UsesOf(v)' = UsesOf(v) \cup {new} /\ new \notin UsesOf(v)
      BY <1>1, <1>2, <1>3, <2>2 DEF UsesOf
    <3>2. Cardinality(UsesOf(v)') = Cardinality(UsesOf(v)) + 1
      BY <2>1, <3>1, FS_AddElement
    <3> QED BY <1>1, <2>1, <2>2, <3>2 DEF Offer!Parameters
  <2>3. CASE v # u
    <3>1. UsesOf(v)' = UsesOf(v)
      BY <1>1, <1>2, <2>3 DEF UsesOf
    <3> QED BY <3>1 DEF CouponInv
  <2> QED BY <2>2, <2>3
<1>7. /\ coupon' \in CouponRow
      /\ coupon'.redeemed + coupon'.reserved <= Cardinality(redemptions')
  <2>1. /\ coupon \in CouponRow /\ coupon.redeemed \in Nat /\ coupon.reserved \in Nat
        /\ coupon.redeemed + coupon.reserved <= Cardinality(redemptions)
    BY DEF CouponInv, CouponRow
  <2>2. /\ coupon' \in CouponRow
        /\ coupon'.redeemed = coupon.redeemed + 1 /\ coupon'.reserved = coupon.reserved
    BY <1>1, <2>1 DEF CouponRow
  <2> QED BY <1>4, <1>5, <2>1, <2>2
<1>8. \A a \in CouponAdmins : copy'[a].redeemed + copy'[a].reserved <= Cardinality(redemptions')
  <2> SUFFICES ASSUME NEW a \in CouponAdmins
               PROVE  copy'[a].redeemed + copy'[a].reserved <= Cardinality(redemptions')
    OBVIOUS
  <2>1. /\ copy'[a] = copy[a] /\ copy[a].redeemed \in Nat /\ copy[a].reserved \in Nat
        /\ copy[a].redeemed + copy[a].reserved <= Cardinality(redemptions)
    BY <1>1 DEF CouponInv, CouponRow
  <2> QED BY <1>4, <1>5, <2>1
<1>9. \A r \in redemptions' : r.discount <= r.amount
  BY <1>1, <1>2 DEF CouponInv
<1>10. copy' \in [CouponAdmins -> CouponRow]
  BY <1>1 DEF CouponInv
<1> QED BY <1>4, <1>6, <1>7, <1>8, <1>9, <1>10 DEF CouponInv

LEMMA StepKeepsCouponInv ==
  ASSUME Offer!Parameters, CouponInv, [Offer!Next]_(Offer!couponVars)
  PROVE  CouponInv'
<1>0. CASE UNCHANGED Offer!couponVars
  BY <1>0 DEF Offer!couponVars, CouponInv, UsesOf
<1>1. ASSUME NEW u \in Users, NEW key \in CouponKeys, NEW amount \in Amounts, NEW charge,
             Offer!Redeem(u, key, charge, amount)
      PROVE  CouponInv'
  BY <1>1, RedeemCounts
<1>2. ASSUME NEW users, Offer!assignUsers(users)
      PROVE  CouponInv'
  BY <1>2 DEF Offer!assignUsers, CouponInv, UsesOf
<1>3. ASSUME NEW a \in CouponAdmins, Offer!FindCoupon(a)
      PROVE  CouponInv'
  BY <1>3 DEF Offer!FindCoupon, CouponInv, UsesOf
<1>4. ASSUME NEW a \in CouponAdmins, NEW changed \in CouponRow, Offer!Save(a, changed),
             changed.redeemed = copy[a].redeemed, changed.reserved = copy[a].reserved
      PROVE  CouponInv'
  <2>1. /\ coupon' = changed /\ copy' = [copy EXCEPT ![a] = Offer!Nothing] /\ UNCHANGED redemptions
    BY <1>4 DEF Offer!Save
  <2>2. Offer!Nothing \in CouponRow /\ Offer!Nothing.redeemed = 0 /\ Offer!Nothing.reserved = 0
    BY DEF Offer!Nothing, CouponRow
  <2>3. Cardinality(redemptions) \in Nat
    BY FS_CardinalityType DEF CouponInv
  <2>4. \A b \in CouponAdmins : copy'[b] = IF b = a THEN Offer!Nothing ELSE copy[b]
    BY <2>1 DEF CouponInv
  <2>5. \A b \in CouponAdmins : copy'[b].redeemed + copy'[b].reserved <= Cardinality(redemptions)
    BY <2>2, <2>3, <2>4 DEF CouponInv
  <2>6. coupon'.redeemed + coupon'.reserved <= Cardinality(redemptions)
    BY <1>4, <2>1 DEF CouponInv
  <2>7. coupon' \in CouponRow /\ copy' \in [CouponAdmins -> CouponRow]
    BY <2>1, <2>2 DEF CouponInv
  <2> QED BY <2>1, <2>5, <2>6, <2>7 DEF CouponInv, UsesOf
<1>5. ASSUME NEW a \in CouponAdmins, NEW to \in {"ALL", "DRIVERS_ONLY", "RIDERS_ONLY"},
             Offer!updateAdmin(a, to)
      PROVE  CouponInv'
  <2>1. copy[a] \in CouponRow
    BY DEF CouponInv
  <2>2. [copy[a] EXCEPT !.for = to] \in CouponRow
    BY <2>1 DEF CouponRow
  <2>3. /\ [copy[a] EXCEPT !.for = to].redeemed = copy[a].redeemed
        /\ [copy[a] EXCEPT !.for = to].reserved = copy[a].reserved
    BY <2>1 DEF CouponRow
  <2> QED BY <1>4, <1>5, <2>2, <2>3 DEF Offer!updateAdmin
<1>6. ASSUME NEW a \in CouponAdmins, NEW isActive \in BOOLEAN, Offer!setActive(a, isActive)
      PROVE  CouponInv'
  <2>1. copy[a] \in CouponRow
    BY DEF CouponInv
  <2>2. [copy[a] EXCEPT !.active = isActive] \in CouponRow
    BY <2>1 DEF CouponRow
  <2>3. /\ [copy[a] EXCEPT !.active = isActive].redeemed = copy[a].redeemed
        /\ [copy[a] EXCEPT !.active = isActive].reserved = copy[a].reserved
    BY <2>1 DEF CouponRow
  <2> QED BY <1>4, <1>6, <2>2, <2>3 DEF Offer!setActive
<1> QED BY <1>0, <1>1, <1>2, <1>3, <1>5, <1>6 DEF Offer!Next

-----------------------------------------------------------------------------
(* Rewards for commutes.                                                   *)

ClaimRow ==
  [status : {"NONE", "UNDER_REVIEW", "APPROVED", "REJECTED", "FULFILLED"},
   trips : Nat, required : Nat]

CampaignTypes ==
  /\ now \in Nat /\ milestone \in [Steps -> Nat] /\ claim \in [Steps -> ClaimRow]
  /\ served \in [RewardRides -> [at : Int, passengers : SUBSET UNION Served]]
  /\ trips \subseteq RewardRides

\* The trips that count for a milestone.
Counting(k) == {r \in trips : served[r].at < Window[k] /\ Cardinality(served[r].passengers) >= 2}

CampaignInv ==
  /\ CampaignTypes
  /\ \A r \in trips : served[r].at >= 0 /\ Cardinality(served[r].passengers) >= 2
  /\ \A k \in Steps : claim[k].status \in Campaign!Consuming =>
       /\ claim[k].required <= claim[k].trips
       /\ claim[k].trips <= Cardinality(Counting(k))

LEMMA CampaignInvEarned ==
  ASSUME CampaignInv PROVE Campaign!ClaimsAreEarned
BY CountsAgree DEF CampaignInv, Campaign!ClaimsAreEarned, Counting

LEMMA CampaignInitInv ==
  ASSUME Campaign!Init PROVE CampaignInv
BY DEF Campaign!Init, CampaignInv, CampaignTypes, ClaimRow, Campaign!NoClaim, Campaign!Consuming

\* Trips that were recorded stay as they were, so that no count of them shrinks.
LEMMA CountsGrow ==
  ASSUME Campaign!Parameters, trips' \subseteq RewardRides, trips \subseteq trips',
         \A r \in trips : served'[r] = served[r], NEW k \in Steps
  PROVE  /\ Cardinality(Counting(k)) \in Nat /\ Cardinality(Counting(k)') \in Nat
         /\ Cardinality(Counting(k)) <= Cardinality(Counting(k)')
<1>1. /\ IsFiniteSet(RewardRides) /\ Counting(k)' \subseteq RewardRides
      /\ Counting(k) \subseteq Counting(k)'
  BY CountsAgree DEF Campaign!Parameters, Counting
<1>2. IsFiniteSet(Counting(k)')
  BY <1>1, FS_Subset
<1> QED BY <1>1, <1>2, FS_Subset, FS_CardinalityType

LEMMA RideRecorded ==
  ASSUME Campaign!Parameters, CampaignInv, CampaignTypes', UNCHANGED claim,
         NEW r \in RewardRides, Campaign!recordQualifyingRide(r),
         \A s \in RewardRides : s # r \/ s \in trips => served'[s] = served[s]
  PROVE  CampaignInv'
<1>1. /\ trips \subseteq trips' /\ trips' \subseteq trips \cup {r}
      /\ r \notin trips /\ r \in trips' =>
           served'[r].at >= 0 /\ Cardinality(served'[r].passengers) >= 2
  BY CountsAgree DEF Campaign!recordQualifyingRide, Campaign!countDistinctQualifyingPassengers,
                     Campaign!InDates, CampaignTypes
<1>2. \A s \in trips' : served'[s].at >= 0 /\ Cardinality(served'[s].passengers) >= 2
  BY <1>1 DEF CampaignInv, CampaignTypes
<1>3. \A s \in trips : served'[s] = served[s]
  BY DEF CampaignInv, CampaignTypes
<1>4. ASSUME NEW k \in Steps, claim'[k].status \in Campaign!Consuming
      PROVE  /\ claim'[k].required <= claim'[k].trips
             /\ claim'[k].trips <= Cardinality(Counting(k)')
  <2>1. /\ Cardinality(Counting(k)) \in Nat /\ Cardinality(Counting(k)') \in Nat
        /\ Cardinality(Counting(k)) <= Cardinality(Counting(k)')
    BY <1>1, <1>3, CountsGrow DEF CampaignTypes
  <2>2. /\ claim[k].required <= claim[k].trips /\ claim[k].trips <= Cardinality(Counting(k))
        /\ claim[k].trips \in Nat
    BY <1>4 DEF CampaignInv, CampaignTypes, ClaimRow
  <2> QED BY <2>1, <2>2
<1> QED BY <1>2, <1>4 DEF CampaignInv, Campaign!Consuming

\* A step that leaves rides, trips and claims as they are.
LEMMA CampaignEdited ==
  ASSUME CampaignInv, CampaignTypes', UNCHANGED <<served, trips, claim>>
  PROVE  CampaignInv'
BY DEF CampaignInv, Counting, Campaign!Consuming

LEMMA StepKeepsCampaignInv ==
  ASSUME Campaign!Parameters, CampaignInv, [Campaign!Next]_(Campaign!rewardVars)
  PROVE  CampaignInv'
<1>t. CampaignTypes
  BY DEF CampaignInv
<1>0. CASE UNCHANGED Campaign!rewardVars
  <2>1. CampaignTypes' /\ UNCHANGED <<served, trips, claim>>
    BY <1>0, <1>t DEF Campaign!rewardVars, CampaignTypes
  <2> QED BY <2>1, CampaignEdited
<1>1. ASSUME NEW r \in RewardRides, Campaign!CompleteAgain(r)
      PROVE  CampaignInv'
  <2>1. /\ UNCHANGED <<now, milestone, served, claim>> /\ Campaign!recordQualifyingRide(r)
    BY <1>1 DEF Campaign!CompleteAgain
  <2>2. CampaignTypes'
    BY <1>t, <2>1 DEF CampaignTypes, Campaign!recordQualifyingRide
  <2> QED BY <2>1, <2>2, RideRecorded
<1>2. ASSUME NEW r \in RewardRides, NEW ps \in Served, Campaign!CompleteRide(r, ps)
      PROVE  CampaignInv'
  <2>1. /\ UNCHANGED <<now, milestone, claim>> /\ Campaign!recordQualifyingRide(r)
        /\ served' = [served EXCEPT ![r] = [at |-> now, passengers |-> ps]] /\ served[r].at = -1
    BY <1>2 DEF Campaign!CompleteRide
  <2>2. CampaignTypes'
    BY <1>t, <2>1 DEF CampaignTypes, Campaign!recordQualifyingRide
  <2>3. r \notin trips
    BY <2>1 DEF CampaignInv
  <2>4. \A s \in RewardRides : s # r \/ s \in trips => served'[s] = served[s]
    BY <1>t, <2>1, <2>3 DEF CampaignTypes
  <2> QED BY <2>1, <2>2, <2>4, RideRecorded
<1>3. ASSUME NEW k \in Steps, Campaign!claimMilestone(k)
      PROVE  CampaignInv'
  <2> DEFINE row == [status |-> "UNDER_REVIEW", trips |-> Campaign!countTripsInWindow(k),
                     required |-> milestone[k]]
  <2>1. /\ claim' = [claim EXCEPT ![k] = row] /\ UNCHANGED <<now, milestone, served, trips>>
        /\ Campaign!countTripsInWindow(k) >= milestone[k]
    BY <1>3 DEF Campaign!claimMilestone, Campaign!canClaim
  <2>2. Campaign!countTripsInWindow(k) = Cardinality(Counting(k))
    <3>1. Counting(k) = {r \in trips : served[r].at < Window[k]}
      BY DEF Counting, CampaignInv
    <3> QED BY <3>1, CountsAgree DEF Campaign!countTripsInWindow
  <2>3. Cardinality(Counting(k)) \in Nat /\ milestone[k] \in Nat
    <3>1. Counting(k) \subseteq RewardRides /\ IsFiniteSet(RewardRides)
      BY <1>t, CountsAgree DEF Counting, CampaignTypes, Campaign!Parameters
    <3> QED BY <1>t, <3>1, FS_Subset, FS_CardinalityType DEF CampaignTypes
  <2>4. /\ row \in ClaimRow /\ row.required <= row.trips /\ row.trips <= Cardinality(Counting(k))
    BY <2>1, <2>2, <2>3 DEF ClaimRow
  <2> HIDE DEF row
  <2>5. CampaignTypes'
    BY <1>t, <2>1, <2>4 DEF CampaignTypes
  <2>6. \A j \in Steps : claim'[j] = (IF j = k THEN row ELSE claim[j]) /\ Counting(j)' = Counting(j)
    BY <1>t, <2>1 DEF CampaignTypes, Counting
  <2> QED BY <2>1, <2>4, <2>5, <2>6 DEF CampaignInv, Campaign!Consuming
<1>4. ASSUME NEW k \in Steps, NEW from \in {"UNDER_REVIEW", "APPROVED"},
             NEW to \in {"APPROVED", "REJECTED", "FULFILLED"}, Campaign!SetClaim(k, from, to)
      PROVE  CampaignInv'
  <2>1. /\ claim[k].status = from /\ claim' = [claim EXCEPT ![k].status = to]
        /\ UNCHANGED <<now, milestone, served, trips>>
    BY <1>4 DEF Campaign!SetClaim
  <2>2. /\ claim[k] \in ClaimRow /\ claim[k].status \in Campaign!Consuming
    BY <1>t, <2>1 DEF CampaignTypes, Campaign!Consuming
  <2>3. \A j \in Steps :
          /\ claim'[j].trips = claim[j].trips /\ claim'[j].required = claim[j].required
          /\ claim'[j].status \in Campaign!Consuming => claim[j].status \in Campaign!Consuming
          /\ Counting(j)' = Counting(j)
    BY <1>t, <2>1, <2>2 DEF CampaignTypes, ClaimRow, Counting
  <2>4. CampaignTypes'
    BY <1>t, <2>1, <2>2 DEF CampaignTypes, ClaimRow
  <2> QED BY <2>1, <2>3, <2>4 DEF CampaignInv, Campaign!Consuming
<1>5. ASSUME NEW a \in RewardAdmins,
             \/ Campaign!requireCampaign(a) \/ Campaign!updateCampaign(a)
             \/ \E next \in {"ACTIVE", "PAUSED", "ENDED", "ARCHIVED"} :
                  Campaign!setCampaignStatus(a, next)
      PROVE  CampaignInv'
  <2>1. UNCHANGED <<now, milestone, served, trips, claim>>
    BY <1>5 DEF Campaign!requireCampaign, Campaign!updateCampaign, Campaign!setCampaignStatus
  <2>2. CampaignTypes'
    BY <1>t, <2>1 DEF CampaignTypes
  <2> QED BY <2>1, <2>2, CampaignEdited
<1>6. ASSUME NEW a \in RewardAdmins, NEW k \in Steps, NEW required \in Required,
             Campaign!addMilestone(a, k, required) \/ Campaign!updateMilestone(a, k, required)
      PROVE  CampaignInv'
  <2>1. /\ milestone' = [milestone EXCEPT ![k] = required]
        /\ UNCHANGED <<now, served, trips, claim>>
    BY <1>6 DEF Campaign!addMilestone, Campaign!updateMilestone, Campaign!SaveMilestone
  <2>2. CampaignTypes'
    BY <1>t, <2>1 DEF CampaignTypes, Campaign!Parameters
  <2> QED BY <2>1, <2>2, CampaignEdited
<1>7. ASSUME Campaign!Month
      PROVE  CampaignInv'
  <2>1. now' = now + 1 /\ UNCHANGED <<milestone, served, trips, claim>>
    BY <1>7 DEF Campaign!Month
  <2>2. CampaignTypes'
    BY <1>t, <2>1 DEF CampaignTypes
  <2> QED BY <2>1, <2>2, CampaignEdited
<1> QED
  BY <1>0, <1>1, <1>2, <1>3, <1>4, <1>5, <1>6, <1>7
  DEF Campaign!Next, Campaign!reviewClaim, Campaign!fulfilClaim

\* A claim is made when the milestones before are won, and a won one stays won.
Stays(k) ==
  /\ claim[k].status \in Campaign!Success => claim'[k].status \in Campaign!Success
  /\ claim[k].status \notin Campaign!Consuming /\ claim'[k].status \in Campaign!Consuming =>
       \A j \in Steps : j < k /\ milestone[j] > 0 => claim[j].status \in Campaign!Success

LEMMA WonStaysWon ==
  ASSUME CampaignInv, [Campaign!Next]_(Campaign!rewardVars), NEW k \in Steps
  PROVE  Stays(k)
<1>t. claim \in [Steps -> ClaimRow]
  BY DEF CampaignInv, CampaignTypes
<1>0. CASE claim' = claim
  BY <1>0 DEF Stays
<1>1. ASSUME NEW l \in Steps, Campaign!claimMilestone(l)
      PROVE  Stays(k)
  BY <1>1, <1>t
  DEF Campaign!claimMilestone, Campaign!canClaim, Stays, Campaign!Consuming, Campaign!Success,
      Campaign!arePrecedingMilestonesSuccessfullyClaimed
<1>2. ASSUME NEW l \in Steps, Campaign!reviewClaim(l) \/ Campaign!fulfilClaim(l)
      PROVE  Stays(k)
  BY <1>2, <1>t
  DEF Campaign!reviewClaim, Campaign!fulfilClaim, Campaign!SetClaim, Stays, ClaimRow,
      Campaign!Consuming, Campaign!Success
<1> QED
  BY <1>0, <1>1, <1>2
  DEF Campaign!Next, Campaign!rewardVars, Campaign!CompleteAgain, Campaign!CompleteRide,
      Campaign!requireCampaign, Campaign!updateCampaign, Campaign!setCampaignStatus,
      Campaign!addMilestone, Campaign!updateMilestone, Campaign!SaveMilestone, Campaign!Month

-----------------------------------------------------------------------------
(* Ways off a route in a search.                                           *)

Point == Int \X Int

Route == {route \in Seq(Point) : Len(route) >= 2}

PostedRide ==
  [type : PostedTypes \cup {"REGULAR"}, seats : Int, route : {Finding!Off} \cup Route,
   status : {"NONE", "PUBLISHED", "ASSURANCE_PENDING", "ASSURANCE_ACTIVE", "OVER"}]

PostedFit ==
  /\ posted \in [PostedRides -> PostedRide] /\ option \in {Finding!Off} \cup Route
  /\ \A r \in PostedRides : posted[r].status # "NONE" => posted[r].route \in Route

RoadsKnown == \A pair \in DOMAIN cache : cache[pair] \in Int

Judged(route, pickup, dropoff, backRoad, extendRoad) ==
  Finding!EvaluateRideRouteMatch(route, pickup, dropoff, backRoad, extendRoad)

\* f was judged as the crow flies, and needs a way off its route.
Candidate(f, pickup, dropoff) ==
  /\ f = [ride |-> f.ride, route |-> f.route, match |-> f.match]
  /\ f.match = Judged(f.route, pickup, dropoff, Finding!Unverified, Finding!Unverified)
  /\ f.match # Finding!NoMatch /\ ~Finding!IsForward(f)

\* A search that waits for roads has candidates and asks about points.
Waits ==
  search.step = "verify" =>
    /\ search = [step |-> "verify", pickup |-> search.pickup, dropoff |-> search.dropoff,
                 matched |-> search.matched, flexible |-> search.flexible,
                 asked |-> search.asked, roads |-> search.roads]
    /\ search.asked \subseteq Point \X Point
    /\ \A pair \in DOMAIN search.roads : search.roads[pair] \in Nat
    /\ \A f \in search.matched : Finding!IsForward(f)
    /\ \A f \in Finding!ToSet(search.flexible) : Candidate(f, search.pickup, search.dropoff)

SearchInv == PostedFit /\ RoadsKnown /\ Waits /\ Finding!WaysAreVerified

LEMMA SearchInitInv == Finding!Init => SearchInv
BY DEF Finding!Init, SearchInv, PostedFit, PostedRide, RoadsKnown, Waits, Finding!WaysAreVerified

\* The least of one number.
LEMMA LeastOfOne ==
  ASSUME NEW n \in Int PROVE Finding!Least({n}) = n
BY DEF Finding!Least

\* What each kind of match says of the ways there are.
LEMMA KindsOfMatch ==
  ASSUME NEW scores, NEW ups, NEW downs, NEW back, NEW on, NEW length,
         NEW m, m = Finding!Category(scores, ups, downs, back, on, length)
  PROVE  /\ m.category = "BACKWARD_PICKUP_MATCH" =>
              scores = {} /\ back # {} /\ downs # {} /\ m.toSource = Finding!Least(back)
         /\ m.category = "EXTENDED_DESTINATION_MATCH" =>
              /\ scores = {} /\ (back = {} \/ downs = {}) /\ on # {} /\ ups # {}
              /\ m.onward = Finding!Least(on)
         /\ m.category = "FLEXIBLE_PICKUP_AND_DESTINATION_MATCH" =>
              /\ scores = {} /\ back # {} /\ on # {} /\ ups = {} /\ downs = {}
              /\ m.toSource = Finding!Least(back) /\ m.onward = Finding!Least(on)
         /\ m.category = "NONE" => m = Finding!NoMatch
         /\ m.category \in {"FORWARD_ROUTE_MATCH", "BACKWARD_PICKUP_MATCH",
              "EXTENDED_DESTINATION_MATCH", "FLEXIBLE_PICKUP_AND_DESTINATION_MATCH", "NONE"}
         /\ scores # {} <=> m.category = "FORWARD_ROUTE_MATCH"
BY DEF Finding!Category, Finding!Match, Finding!NoMatch

\* Who waits behind the source is not picked up on the route.
LEMMA BehindIsNotOnRoute ==
  ASSUME NEW route, NEW pickup, NEW dropoff, NEW allowance, NEW road,
         Finding!BackwardPickupCandidate(pickup, dropoff, route, allowance, road)
  PROVE  Finding!EligiblePickups(pickup, route) = {}
BY DEF Finding!BackwardPickupCandidate, Finding!EligiblePickups, Finding!Pickups

\* How the parts of a match depend on the roads.
Ups(route, pickup) ==
  {c.distance : c \in {u \in Finding!EligiblePickups(pickup, route) :
                         u.position <= Finding!RouteLength(route) - Progress}}

Downs(route, dropoff) ==
  {c.distance : c \in {d \in Finding!EligibleDropoffs(dropoff, route) : d.position >= Progress}}

Scores(route, pickup, dropoff) ==
  Finding!PairScores(Finding!EligiblePickups(pickup, route),
                     Finding!EligibleDropoffs(dropoff, route))

WayBack(route, pickup, dropoff, road) ==
  IF Finding!BackwardPickupCandidate(pickup, dropoff, route, Backward, road)
  THEN {Finding!WayLength(road, Finding!Distance(pickup, route[1]))} ELSE {}

WayOn(route, pickup, dropoff, road) ==
  IF Finding!ExtendedDestinationCandidate(pickup, dropoff, route, Extension, road)
  THEN {Finding!WayLength(road, Finding!Distance(dropoff, Finding!Last(route)))} ELSE {}

LEMMA JudgedByParts ==
  ASSUME NEW route, NEW pickup, NEW dropoff, NEW b, NEW e
  PROVE  Judged(route, pickup, dropoff, b, e) =
           Finding!Category(Scores(route, pickup, dropoff), Ups(route, pickup),
             Downs(route, dropoff), WayBack(route, pickup, dropoff, b),
             WayOn(route, pickup, dropoff, e), Finding!RouteLength(route))
BY Zenon DEF Judged, Finding!EvaluateRideRouteMatch, Finding!FlexibleDriverRouteMatch,
  Finding!Judge, Scores, Ups, Downs, WayBack, WayOn

\* A way by a known road is as long as the road, and allowed.
LEMMA WayByRoad ==
  ASSUME NEW route, NEW pickup, NEW dropoff, NEW road \in Nat
  PROVE  /\ WayBack(route, pickup, dropoff, road) # {} =>
              /\ Finding!Least(WayBack(route, pickup, dropoff, road)) = road
              /\ road <= Backward
         /\ WayOn(route, pickup, dropoff, road) # {} =>
              /\ Finding!Least(WayOn(route, pickup, dropoff, road)) = road
              /\ road <= Extension
<1>1. Finding!Least({road}) = road
  BY LeastOfOne
<1>2. \A straight : Finding!WayLength(road, straight) = road
  BY DEF Finding!WayLength, Finding!Unverified
<1>3. WayBack(route, pickup, dropoff, road) # {} =>
        WayBack(route, pickup, dropoff, road) = {road} /\ road <= Backward
  BY <1>2 DEF WayBack, Finding!BackwardPickupCandidate
<1>4. WayOn(route, pickup, dropoff, road) # {} =>
        WayOn(route, pickup, dropoff, road) = {road} /\ road <= Extension
  BY <1>2 DEF WayOn, Finding!ExtendedDestinationCandidate
<1> QED BY <1>1, <1>3, <1>4

\* Who is picked up behind the source is found nowhere on the route.
LEMMA BackOrUp ==
  ASSUME NEW route, NEW pickup, NEW dropoff, NEW road,
         WayBack(route, pickup, dropoff, road) # {}
  PROVE  Ups(route, pickup) = {}
<1>1. Finding!BackwardPickupCandidate(pickup, dropoff, route, Backward, road)
  BY DEF WayBack
<1>2. Finding!EligiblePickups(pickup, route) = {}
  BY <1>1, BehindIsNotOnRoute
<1> QED BY <1>2 DEF Ups

\* The second look at a candidate, with its roads, keeps the kind of match or
\* finds none.
LEMMA SecondLook ==
  ASSUME NEW route, NEW pickup, NEW dropoff, NEW b \in Nat, NEW e \in Nat,
         NEW first,
         first = Judged(route, pickup, dropoff, Finding!Unverified, Finding!Unverified)
  PROVE  /\ first.category = "BACKWARD_PICKUP_MATCH" =>
              LET m == Judged(route, pickup, dropoff, b, Finding!Unverified)
              IN \/ m.category = "NONE"
                 \/ m.category = first.category /\ m.toSource = b /\ b <= Backward
         /\ first.category = "EXTENDED_DESTINATION_MATCH" =>
              LET m == Judged(route, pickup, dropoff, Finding!Unverified, e)
              IN \/ m.category = "NONE"
                 \/ m.category = first.category /\ m.onward = e /\ e <= Extension
         /\ first.category = "FLEXIBLE_PICKUP_AND_DESTINATION_MATCH" =>
              LET m == Judged(route, pickup, dropoff, b, e)
              IN \/ m.category = "NONE"
                 \/ /\ m.category = first.category /\ m.toSource = b /\ b <= Backward
                    /\ m.onward = e /\ e <= Extension
<1> DEFINE u == Finding!Unverified
           s == Scores(route, pickup, dropoff)
           ups == Ups(route, pickup)
           downs == Downs(route, dropoff)
           back(x) == WayBack(route, pickup, dropoff, x)
           on(x) == WayOn(route, pickup, dropoff, x)
           look(x, y) == Judged(route, pickup, dropoff, x, y)
<1>1. \A x, y : look(x, y) = Finding!Category(s, ups, downs, back(x), on(y),
                                               Finding!RouteLength(route))
  BY JudgedByParts
<1>2. \A x, y :
        /\ look(x, y).category = "BACKWARD_PICKUP_MATCH" =>
             s = {} /\ back(x) # {} /\ downs # {} /\ look(x, y).toSource = Finding!Least(back(x))
        /\ look(x, y).category = "EXTENDED_DESTINATION_MATCH" =>
             /\ s = {} /\ (back(x) = {} \/ downs = {}) /\ on(y) # {} /\ ups # {}
             /\ look(x, y).onward = Finding!Least(on(y))
        /\ look(x, y).category = "FLEXIBLE_PICKUP_AND_DESTINATION_MATCH" =>
             /\ s = {} /\ back(x) # {} /\ on(y) # {} /\ ups = {} /\ downs = {}
             /\ look(x, y).toSource = Finding!Least(back(x))
             /\ look(x, y).onward = Finding!Least(on(y))
        /\ look(x, y).category \in {"FORWARD_ROUTE_MATCH", "BACKWARD_PICKUP_MATCH",
             "EXTENDED_DESTINATION_MATCH", "FLEXIBLE_PICKUP_AND_DESTINATION_MATCH", "NONE"}
        /\ s # {} <=> look(x, y).category = "FORWARD_ROUTE_MATCH"
  BY <1>1, KindsOfMatch
<1>3. /\ back(b) # {} => Finding!Least(back(b)) = b /\ b <= Backward
      /\ on(e) # {} => Finding!Least(on(e)) = e /\ e <= Extension
  BY WayByRoad
<1>4. \A x : back(x) # {} => ups = {}
  BY BackOrUp
<1>5. first = look(u, u)
  OBVIOUS
<1> HIDE DEF u, s, ups, downs, back, on, look
<1>6. first.category = "BACKWARD_PICKUP_MATCH" =>
        \/ look(b, u).category = "NONE"
        \/ look(b, u).category = first.category /\ look(b, u).toSource = b /\ b <= Backward
  BY <1>2, <1>3, <1>4, <1>5
<1>7. first.category = "EXTENDED_DESTINATION_MATCH" =>
        \/ look(u, e).category = "NONE"
        \/ look(u, e).category = first.category /\ look(u, e).onward = e /\ e <= Extension
  BY <1>2, <1>3, <1>4, <1>5
<1>8. first.category = "FLEXIBLE_PICKUP_AND_DESTINATION_MATCH" =>
        \/ look(b, e).category = "NONE"
        \/ /\ look(b, e).category = first.category /\ look(b, e).toSource = b /\ b <= Backward
           /\ look(b, e).onward = e /\ e <= Extension
  BY <1>2, <1>3, <1>4, <1>5
<1> QED BY <1>6, <1>7, <1>8 DEF look, u

\* f's ways off its route are by roads that are known and allowed.
IsAllowed(m, route, pickup, dropoff, roads) ==
  /\ Finding!ToSource(m) =>
       /\ <<pickup, route[1]>> \in DOMAIN roads
       /\ roads[<<pickup, route[1]>>] = m.toSource /\ m.toSource <= Backward
  /\ Finding!FromDestination(m) =>
       /\ <<Finding!Last(route), dropoff>> \in DOMAIN roads
       /\ roads[<<Finding!Last(route), dropoff>>] = m.onward /\ m.onward <= Extension

LEMMA VerifiedIsAllowed ==
  ASSUME NEW f, NEW pickup, NEW dropoff, NEW roads, Candidate(f, pickup, dropoff),
         \A pair \in DOMAIN roads : roads[pair] \in Nat
  PROVE  IsAllowed(Finding!Verified(f, pickup, dropoff, roads), f.route, pickup, dropoff, roads)
<1> DEFINE back == <<pickup, f.route[1]>>
           extend == <<Finding!Last(f.route), dropoff>>
           first == f.match
           u == Finding!Unverified
           second == Finding!Verified(f, pickup, dropoff, roads)
           look(x, y) == Judged(f.route, pickup, dropoff, x, y)
<1>1. first = look(u, u) /\ first # Finding!NoMatch
      /\ first.category # "FORWARD_ROUTE_MATCH"
  BY DEF Candidate, Finding!IsForward
<1>2. first.category \in {"BACKWARD_PICKUP_MATCH", "EXTENDED_DESTINATION_MATCH",
                          "FLEXIBLE_PICKUP_AND_DESTINATION_MATCH"}
  BY <1>1, JudgedByParts, KindsOfMatch
<1>3. \A m : m.category = "NONE" => ~Finding!ToSource(m) /\ ~Finding!FromDestination(m)
  BY DEF Finding!ToSource, Finding!FromDestination
<1>4. Finding!NoMatch.category = "NONE"
  BY DEF Finding!NoMatch, Finding!Match
<1>9. \A b, e \in Nat :
        /\ first.category = "BACKWARD_PICKUP_MATCH" =>
             \/ look(b, u).category = "NONE"
             \/ look(b, u).category = first.category /\ look(b, u).toSource = b /\ b <= Backward
        /\ first.category = "EXTENDED_DESTINATION_MATCH" =>
             \/ look(u, e).category = "NONE"
             \/ look(u, e).category = first.category /\ look(u, e).onward = e /\ e <= Extension
        /\ first.category = "FLEXIBLE_PICKUP_AND_DESTINATION_MATCH" =>
             \/ look(b, e).category = "NONE"
             \/ /\ look(b, e).category = first.category /\ look(b, e).toSource = b
                /\ b <= Backward /\ look(b, e).onward = e /\ e <= Extension
  BY <1>1, SecondLook
<1>5. CASE first.category = "BACKWARD_PICKUP_MATCH"
  <2>1. second = IF back \in DOMAIN roads THEN look(roads[back], u) ELSE Finding!NoMatch
    BY <1>5 DEF Finding!Verified, Finding!ToSource, Finding!FromDestination, Judged
  <2>2. CASE back \notin DOMAIN roads
    BY <1>3, <1>4, <2>1, <2>2 DEF IsAllowed
  <2>3. CASE back \in DOMAIN roads
    <3>1. \/ second.category = "NONE"
          \/ /\ second.category = "BACKWARD_PICKUP_MATCH" /\ second.toSource = roads[back]
             /\ roads[back] <= Backward
      <4>1. roads[back] \in Nat /\ 0 \in Nat
        BY <2>3
      <4> HIDE DEF look, u, back, extend, second, first
      <4> QED BY <1>9, <1>5, <2>1, <2>3, <4>1
    <3> QED BY <1>3, <2>3, <3>1 DEF IsAllowed, Finding!ToSource, Finding!FromDestination
  <2> QED BY <2>2, <2>3
<1>6. CASE first.category = "EXTENDED_DESTINATION_MATCH"
  <2>1. second = IF extend \in DOMAIN roads THEN look(u, roads[extend]) ELSE Finding!NoMatch
    BY <1>6 DEF Finding!Verified, Finding!ToSource, Finding!FromDestination, Judged
  <2>2. CASE extend \notin DOMAIN roads
    BY <1>3, <1>4, <2>1, <2>2 DEF IsAllowed
  <2>3. CASE extend \in DOMAIN roads
    <3>1. \/ second.category = "NONE"
          \/ /\ second.category = "EXTENDED_DESTINATION_MATCH" /\ second.onward = roads[extend]
             /\ roads[extend] <= Extension
      <4>1. roads[extend] \in Nat /\ 0 \in Nat
        BY <2>3
      <4> HIDE DEF look, u, back, extend, second, first
      <4> QED BY <1>9, <1>6, <2>1, <2>3, <4>1
    <3> QED BY <1>3, <2>3, <3>1 DEF IsAllowed, Finding!ToSource, Finding!FromDestination
  <2> QED BY <2>2, <2>3
<1>7. CASE first.category = "FLEXIBLE_PICKUP_AND_DESTINATION_MATCH"
  <2>1. second = IF back \in DOMAIN roads /\ extend \in DOMAIN roads
                 THEN look(roads[back], roads[extend]) ELSE Finding!NoMatch
    BY <1>7 DEF Finding!Verified, Finding!ToSource, Finding!FromDestination, Judged
  <2>2. CASE back \notin DOMAIN roads \/ extend \notin DOMAIN roads
    BY <1>3, <1>4, <2>1, <2>2 DEF IsAllowed
  <2>3. CASE back \in DOMAIN roads /\ extend \in DOMAIN roads
    <3>1. \/ second.category = "NONE"
          \/ /\ second.category = "FLEXIBLE_PICKUP_AND_DESTINATION_MATCH"
             /\ second.toSource = roads[back] /\ roads[back] <= Backward
             /\ second.onward = roads[extend] /\ roads[extend] <= Extension
      <4>1. roads[back] \in Nat /\ roads[extend] \in Nat
        BY <2>3
      <4> HIDE DEF look, u, back, extend, second, first
      <4> QED BY <1>9, <1>7, <2>1, <2>3, <4>1
    <3> QED BY <1>3, <2>3, <3>1 DEF IsAllowed, Finding!ToSource, Finding!FromDestination
  <2> QED BY <2>2, <2>3
<1> QED BY <1>2, <1>5, <1>6, <1>7

\* Whoever lists a set lists only what is in it.
LEMMA ListsItsSet ==
  ASSUME NEW S, NEW list \in Finding!SetToSeqs(S)
  PROVE  Finding!ToSet(list) \subseteq S
BY DEF Finding!SetToSeqs, Finding!ToSet

\* The roads a search asks about lead between points.
LEMMA AsksAboutPoints ==
  ASSUME NEW pickup \in Point, NEW dropoff \in Point, NEW found,
         \A i \in DOMAIN found : found[i].route \in Route
  PROVE  Finding!PairsToVerify(pickup, dropoff, found) \subseteq Point \X Point
<1> SUFFICES ASSUME NEW pair \in Finding!PairsToVerify(pickup, dropoff, found)
             PROVE  pair \in Point \X Point
  OBVIOUS
<1>1. PICK i \in DOMAIN found :
        \/ pair = <<pickup, found[i].route[1]>>
        \/ pair = <<Finding!Last(found[i].route), dropoff>>
  BY DEF Finding!PairsToVerify
<1>2. /\ found[i].route[1] \in Point
      /\ Finding!Last(found[i].route) \in Point
  BY DEF Route, Finding!Last
<1> QED BY <1>1, <1>2

LEMMA SearchStarts ==
  ASSUME Finding!Parameters, SearchInv, NEW pickup \in Points, NEW dropoff \in Points,
         Finding!Search(pickup, dropoff)
  PROVE  SearchInv'
<1> DEFINE judge(r) ==
             [ride |-> r, route |-> posted[r].route,
              match |-> Judged(posted[r].route, pickup, dropoff, Finding!Unverified,
                               Finding!Unverified)]
           read == {r \in PostedRides : /\ Finding!IsPassengerVisibleRide(r) /\ posted[r].seats >= 1
                                        /\ Finding!InBox(posted[r].route, pickup, dropoff)}
           found == {f \in {judge(r) : r \in read} : f.match # Finding!NoMatch}
           off == {f \in found : ~Finding!IsForward(f)}
<1>1. /\ UNCHANGED <<posted, option, cache>>
      /\ \E flexible \in Finding!SetToSeqs(off) :
           search' = Finding!Await(pickup, dropoff, {f \in found : Finding!IsForward(f)}, flexible)
  BY DEF Finding!Search, Finding!InOrder, Judged
<1>2. PICK flexible \in Finding!SetToSeqs(off) :
        search' = Finding!Await(pickup, dropoff, {f \in found : Finding!IsForward(f)}, flexible)
  BY <1>1
<1>3. Finding!ToSet(flexible) \subseteq off
  BY ListsItsSet
<1>4. \A f \in off : Candidate(f, pickup, dropoff) /\ f.route \in Route
  <2> SUFFICES ASSUME NEW r \in read, judge(r).match # Finding!NoMatch,
                      ~Finding!IsForward(judge(r))
               PROVE  Candidate(judge(r), pickup, dropoff) /\ judge(r).route \in Route
    OBVIOUS
  <2>1. posted[r].status # "NONE" /\ r \in PostedRides
    BY DEF Finding!IsPassengerVisibleRide
  <2>2. posted[r].route \in Route
    BY <2>1 DEF SearchInv, PostedFit
  <2> QED BY <2>2 DEF Candidate
<1>5. \A i \in DOMAIN flexible : flexible[i].route \in Route
  <2> SUFFICES ASSUME NEW i \in DOMAIN flexible PROVE flexible[i] \in off
    BY <1>4
  <2>1. flexible \in [1 .. Finding!Cardinality(off) -> off]
    BY DEF Finding!SetToSeqs
  <2> QED BY <2>1
<1>6. Finding!PairsToVerify(pickup, dropoff, flexible) \subseteq Point \X Point
  <2>1. pickup \in Point /\ dropoff \in Point
    BY DEF Finding!Parameters, Point
  <2> QED BY <1>5, <2>1, AsksAboutPoints
<1> HIDE DEF found, off
<1>7. Waits'
  <2>1. search' = [step |-> "verify", pickup |-> pickup, dropoff |-> dropoff,
                   matched |-> {f \in found : Finding!IsForward(f)}, flexible |-> flexible,
                   asked |-> Finding!PairsToVerify(pickup, dropoff, flexible),
                   roads |-> [pair \in {} |-> 0]]
    BY <1>2 DEF Finding!Await
  <2> QED BY <1>3, <1>4, <1>6, <2>1 DEF Waits
<1>8. search'.step = "verify"
  BY <1>2 DEF Finding!Await
<1> QED BY <1>1, <1>7, <1>8
        DEF SearchInv, PostedFit, RoadsKnown, Finding!WaysAreVerified

\* A road that is answered is a number, and one that leads there a natural one.
LEMMA RoadComesIn ==
  ASSUME Finding!Parameters, SearchInv, search.step = "verify", NEW pair \in search.asked,
         Finding!GetDrivingDistance(pair)
  PROVE  SearchInv'
<1>1. pair \in Point \X Point
  BY DEF SearchInv, Waits
<1>2. Finding!Distance(pair[1], pair[2]) \in Int
  <2>1. /\ pair[1][1] \in Int /\ pair[1][2] \in Int /\ pair[2][1] \in Int /\ pair[2][2] \in Int
    BY <1>1 DEF Point
  <2> QED BY <2>1 DEF Finding!Distance, Finding!Size
<1>3. PICK answer \in IF pair \in DOMAIN cache THEN {cache[pair]}
                      ELSE Finding!CalculateDrivingDistance(pair) :
        /\ cache' = (IF answer = Finding!Failed THEN cache ELSE Finding!Learnt(cache, pair, answer))
        /\ search' = [search EXCEPT !.asked = @ \ {pair},
             !.roads = IF answer < 0 THEN @ ELSE Finding!Learnt(search.roads, pair, answer)]
        /\ UNCHANGED <<posted, option>>
  BY DEF Finding!GetDrivingDistance
<1>4. answer \in Int
  <2>1. CASE pair \in DOMAIN cache
    BY <1>3, <2>1 DEF SearchInv, RoadsKnown
  <2>2. CASE pair \notin DOMAIN cache
    <3>1. Finding!NoRoad \in Int /\ Finding!Failed \in Int
      BY DEF Finding!NoRoad, Finding!Failed
    <3>2. Finding!Distance(pair[1], pair[2]) + Detour \in Int
      BY <1>2 DEF Finding!Parameters
    <3> QED BY <1>2, <1>3, <2>2, <3>1, <3>2 DEF Finding!CalculateDrivingDistance
  <2> QED BY <2>1, <2>2
<1>5. RoadsKnown'
  <2>1. \A p \in DOMAIN Finding!Learnt(cache, pair, answer) :
          Finding!Learnt(cache, pair, answer)[p] \in Int
    BY <1>4 DEF Finding!Learnt, SearchInv, RoadsKnown
  <2> QED BY <1>3, <2>1 DEF SearchInv, RoadsKnown
<1>6. search = [step |-> "verify", pickup |-> search.pickup, dropoff |-> search.dropoff,
                matched |-> search.matched, flexible |-> search.flexible,
                asked |-> search.asked, roads |-> search.roads]
  BY DEF SearchInv, Waits
<1>7. /\ search'.step = "verify" /\ search'.pickup = search.pickup
      /\ search'.dropoff = search.dropoff /\ search'.matched = search.matched
      /\ search'.flexible = search.flexible /\ search'.asked = search.asked \ {pair}
      /\ search'.roads = (IF answer < 0 THEN search.roads
                          ELSE Finding!Learnt(search.roads, pair, answer))
      /\ search' = [step |-> "verify", pickup |-> search'.pickup, dropoff |-> search'.dropoff,
                    matched |-> search'.matched, flexible |-> search'.flexible,
                    asked |-> search'.asked, roads |-> search'.roads]
  BY <1>3, <1>6
<1>8. \A p \in DOMAIN search'.roads : search'.roads[p] \in Nat
  <2>1. \A p \in DOMAIN search.roads : search.roads[p] \in Nat
    BY DEF SearchInv, Waits
  <2>2. answer >= 0 => \A p \in DOMAIN Finding!Learnt(search.roads, pair, answer) :
                        Finding!Learnt(search.roads, pair, answer)[p] \in Nat
    BY <1>4, <2>1 DEF Finding!Learnt
  <2> QED BY <1>4, <1>7, <2>1, <2>2
<1>9. Waits'
  <2>1. /\ search.asked \subseteq Point \X Point
        /\ \A f \in search.matched : Finding!IsForward(f)
        /\ \A f \in Finding!ToSet(search.flexible) : Candidate(f, search.pickup, search.dropoff)
    BY DEF SearchInv, Waits
  <2>2. \A f : Candidate(f, search.pickup, search.dropoff)' <=>
              Candidate(f, search.pickup, search.dropoff)
    BY <1>7 DEF Candidate, Judged
  <2> QED BY <1>7, <1>8, <2>1, <2>2 DEF Waits
<1> QED BY <1>3, <1>5, <1>7, <1>9 DEF SearchInv, PostedFit, Finding!WaysAreVerified

\* What a search answers with fits along the route, or was looked at again.
LEMMA SearchAnswers ==
  ASSUME SearchInv, Finding!Finish
  PROVE  SearchInv'
<1> DEFINE again == {[f EXCEPT !.match = Finding!Verified(f, search.pickup, search.dropoff,
                                                          search.roads)] :
                       f \in Finding!ToSet(search.flexible)}
           listed == search.matched \cup {f \in again : f.match # Finding!NoMatch}
<1>1. /\ search.step = "verify" /\ UNCHANGED <<posted, option, cache>>
      /\ \E items \in Finding!SetToSeqs(listed) :
           search' = [step |-> "done", pickup |-> search.pickup, dropoff |-> search.dropoff,
                      items |-> items, roads |-> search.roads]
  BY DEF Finding!Finish, Finding!InOrder
<1>2. PICK items \in Finding!SetToSeqs(listed) :
        search' = [step |-> "done", pickup |-> search.pickup, dropoff |-> search.dropoff,
                   items |-> items, roads |-> search.roads]
  BY <1>1
<1>3. Finding!ToSet(items) \subseteq listed
  BY ListsItsSet
<1>4. \A f \in listed : IsAllowed(f.match, f.route, search.pickup, search.dropoff, search.roads)
  <2>1. ASSUME NEW f \in search.matched
        PROVE  IsAllowed(f.match, f.route, search.pickup, search.dropoff, search.roads)
    <3>1. f.match.category = "FORWARD_ROUTE_MATCH"
      BY <1>1, <2>1 DEF SearchInv, Waits, Finding!IsForward
    <3> QED BY <3>1 DEF IsAllowed, Finding!ToSource, Finding!FromDestination
  <2>2. ASSUME NEW g \in Finding!ToSet(search.flexible)
        PROVE  LET f == [g EXCEPT !.match = Finding!Verified(g, search.pickup, search.dropoff,
                                                             search.roads)]
               IN IsAllowed(f.match, f.route, search.pickup, search.dropoff, search.roads)
    <3> DEFINE v == Finding!Verified(g, search.pickup, search.dropoff, search.roads)
    <3>1. Candidate(g, search.pickup, search.dropoff)
          /\ \A pair \in DOMAIN search.roads : search.roads[pair] \in Nat
      BY <1>1, <2>2 DEF SearchInv, Waits
    <3>2. IsAllowed(v, g.route, search.pickup, search.dropoff, search.roads)
      BY <3>1, VerifiedIsAllowed
    <3>3. g = [ride |-> g.ride, route |-> g.route, match |-> g.match]
      BY <3>1 DEF Candidate
    <3> HIDE DEF v
    <3>4. [g EXCEPT !.match = v].match = v /\ [g EXCEPT !.match = v].route = g.route
      BY <3>3
    <3> QED BY <3>2, <3>4 DEF v
  <2> QED BY <2>1, <2>2
<1> HIDE DEF listed
<1>5. /\ search'.step = "done" /\ search'.pickup = search.pickup
      /\ search'.dropoff = search.dropoff /\ search'.items = items /\ search'.roads = search.roads
  BY <1>2
<1>6. Finding!WaysAreVerified'
  BY <1>3, <1>4, <1>5 DEF Finding!WaysAreVerified, IsAllowed
<1> QED BY <1>1, <1>5, <1>6 DEF SearchInv, PostedFit, RoadsKnown, Waits

\* What drivers post has a route that can be driven.
LEMMA PostedStaysFit ==
  ASSUME Finding!Parameters, SearchInv,
         \/ \E answer \in Answers : Finding!ListRouteOptions(answer)
         \/ Finding!OptionExpires
         \/ \E r \in PostedRides :
              \/ \E type \in PostedTypes, source, destination \in Points :
                   Finding!Publish(r, type, source, destination)
              \/ Finding!ApplyUnrestrictedRideFields(r)
              \/ Finding!RideChanges(r)
  PROVE  SearchInv'
<1>1. UNCHANGED <<search, cache>>
  BY DEF Finding!ListRouteOptions, Finding!OptionExpires, Finding!Publish,
         Finding!ApplyUnrestrictedRideFields, Finding!RideChanges
<1>2. PostedFit'
  <2>0. PostedFit
    BY DEF SearchInv
  <2>1. ASSUME NEW answer \in Answers, Finding!ListRouteOptions(answer) PROVE PostedFit'
    BY <2>0, <2>1 DEF PostedFit, Finding!ListRouteOptions, Finding!ParseDrivingOptions, Route,
                      Finding!Parameters, Point
  <2>2. CASE Finding!OptionExpires
    BY <2>0, <2>2 DEF PostedFit, Finding!OptionExpires
  <2>3. ASSUME NEW r \in PostedRides, NEW type \in PostedTypes, NEW source \in Points,
               NEW destination \in Points, Finding!Publish(r, type, source, destination)
        PROVE  PostedFit'
    BY <2>0, <2>3 DEF PostedFit, PostedRide, Finding!Publish, Finding!ResolveSelectedRoute
  <2>4. ASSUME NEW r \in PostedRides, Finding!ApplyUnrestrictedRideFields(r) PROVE PostedFit'
    <3>1. option # Finding!Off /\ posted' = [posted EXCEPT ![r].route = option]
          /\ UNCHANGED option
      BY <2>4 DEF Finding!ApplyUnrestrictedRideFields, Finding!ResolveSelectedRoute
    <3> QED BY <2>0, <3>1 DEF PostedFit, PostedRide
  <2>5. ASSUME NEW r \in PostedRides, Finding!RideChanges(r) PROVE PostedFit'
    BY <2>0, <2>5 DEF PostedFit, PostedRide, Finding!RideChanges
  <2> QED BY <2>1, <2>2, <2>3, <2>4, <2>5
<1> QED BY <1>1, <1>2 DEF SearchInv, RoadsKnown, Waits, Candidate, Judged,
                           Finding!WaysAreVerified

LEMMA StepKeepsSearchInv ==
  ASSUME Finding!Parameters, SearchInv, [Finding!Next]_(Finding!vars)
  PROVE  SearchInv'
<1>1. CASE UNCHANGED Finding!vars
  BY <1>1 DEF Finding!vars, SearchInv, PostedFit, RoadsKnown, Waits, Candidate, Judged,
              Finding!WaysAreVerified
<1>2. ASSUME NEW pickup \in Points, NEW dropoff \in Points, Finding!Search(pickup, dropoff)
      PROVE  SearchInv'
  BY <1>2, SearchStarts
<1>3. ASSUME search.step = "verify", NEW pair \in search.asked, Finding!GetDrivingDistance(pair)
      PROVE  SearchInv'
  BY <1>3, RoadComesIn
<1>4. CASE Finding!CacheExpires
  BY <1>4 DEF Finding!CacheExpires, SearchInv, PostedFit, RoadsKnown, Waits, Candidate, Judged,
              Finding!WaysAreVerified
<1>5. CASE Finding!Respond
  <2>1. search'.step = "idle" /\ UNCHANGED <<posted, option, cache>>
    BY <1>5 DEF Finding!Respond
  <2> QED BY <2>1 DEF SearchInv, PostedFit, RoadsKnown, Waits, Finding!WaysAreVerified
<1> QED BY <1>1, <1>2, <1>3, <1>4, <1>5, SearchAnswers, PostedStaysFit DEF Finding!Next

-----------------------------------------------------------------------------
(* The parts side by side.                                                 *)

ServicesInv == SeriesInv /\ GarageInv /\ CouponInv /\ CampaignInv /\ SearchInv

LEMMA ServicesSteps ==
  ASSUME [Next]_vars
  PROVE  /\ [Series!Next]_(Series!seriesVars) /\ [Garage!Next]_(Garage!vehicleVars)
         /\ [Offer!Next]_(Offer!couponVars) /\ [Campaign!Next]_(Campaign!rewardVars)
         /\ [Finding!Next]_(Finding!vars)
BY DEF Next, vars, seriesVars, garageVars, offerVars, campaignVars, findingVars, Finding!vars,
       Series!seriesVars, Garage!vehicleVars, Offer!couponVars, Campaign!rewardVars

LEMMA StepKeepsServicesInv ==
  ASSUME ServicesInv, [Next]_vars PROVE ServicesInv'
BY ServicesSteps, SeriesParameters, StepKeepsSeriesInv, GarageParameters, StepKeepsGarageInv,
   OfferParameters, StepKeepsCouponInv, CampaignParameters, StepKeepsCampaignInv,
   SearchParameters, StepKeepsSearchInv
DEF ServicesInv

\* All parts start and go on as they may.
THEOREM ServicesInvariant == Spec => []ServicesInv
<1>1. Init => ServicesInv
  BY SeriesInitInv, GarageInitInv, OfferParameters, CouponInitInv, CampaignInitInv,
     SearchInitInv
  DEF Init, ServicesInv
<1>2. ServicesInv /\ [Next]_vars => ServicesInv'
  BY StepKeepsServicesInv
<1> QED BY <1>1, <1>2, PTL DEF Spec

\* commute-ride-series.service.ts: however a driver's rides are published, moved
\* and cancelled, no two commutes leave at once, and a cancelled series is empty.
THEOREM SeriesAlwaysFit == Spec => []SeriesRidesFit
<1>1. ServicesInv => SeriesRidesFit
  BY SeriesInvFits DEF ServicesInv, SeriesRidesFit
<1> QED BY <1>1, ServicesInvariant, PTL

\* vehicles.service.ts, coupons.service.ts and commute-rewards.service.ts:
\* one attempt is in flight, uses of a coupon and trips of a claim are counted
\* right, whatever admins save from stale copies; rides.service.ts, search: every
\* way off a route in a result is by a road that is known and allowed.
THEOREM LimitsAreAlwaysKept == Spec => []LimitsAreKept
<1>1. ServicesInv => LimitsAreKept
  BY GarageParameters, GarageInvOneAttempt, CouponInvUses, CampaignInvEarned
  DEF ServicesInv, SearchInv, LimitsAreKept
<1> QED BY <1>1, ServicesInvariant, PTL

\* rides.service.ts, update, and commute-rewards.service.ts, claimMilestone: no
\* step moves a departure under a booking, takes back a milestone that was won,
\* or grants one out of order.
THEOREM PromisesAreAlwaysKept == Spec => PromisesAreKept
<1> DEFINE Booked == \A r \in Series!Rides :
                       seriesRide[r].booked /\ seriesRide'[r].booked
                       => seriesRide'[r].at = seriesRide[r].at
           Won == \A k \in Steps :
                    /\ claim[k].status \in Campaign!Success => claim'[k].status \in Campaign!Success
                    /\ claim[k].status \notin Campaign!Consuming
                       /\ claim'[k].status \in Campaign!Consuming =>
                         \A j \in Steps : j < k /\ milestone[j] > 0 =>
                           claim[j].status \in Campaign!Success
<1>1. ServicesInv /\ [Next]_vars => [Booked]_(Series!seriesVars) /\ [Won]_(Campaign!rewardVars)
  <2> SUFFICES ASSUME ServicesInv, [Next]_vars PROVE Booked /\ Won
    OBVIOUS
  <2>1. Booked
    BY ServicesSteps, StepKeepsBooked DEF ServicesInv
  <2>2. Won
    BY ServicesSteps, WonStaysWon DEF ServicesInv, Stays
  <2> QED BY <2>1, <2>2
<1> QED BY <1>1, ServicesInvariant, PTL
        DEF Spec, PromisesAreKept, Series!BookedDeparturesStay, Campaign!WonForGood

=============================================================================
