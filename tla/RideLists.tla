----------------------------- MODULE RideLists -----------------------------
(***************************************************************************)
(* What the users are shown of one driver's rides: findMine, findActive,   *)
(* findHistory and findHistoryDetail of src/src/rides/rides.service.ts,    *)
(* and findMine, findHistory, findForDriverRides and the pickup codes of   *)
(* src/src/bookings/bookings.service.ts.                                   *)
(*                                                                         *)
(* The lists are read while the rides go on.  A history is read page by    *)
(* page, and GET /bookings/my writes what it reads: a booking made before  *)
(* there were pickup codes is given one, in a transaction of its own, from *)
(* the row that was read before it.                                        *)
(***************************************************************************)
EXTENDS Naturals, FiniteSetsExt

CONSTANTS Rides,     \* the driver's rides
          DayOf,     \* ride |-> the day of its departure
          Trips,     \* bookings
          RideOf, PassengerOf, \* booking |-> its ride, its passenger
          Legacy,    \* the bookings made before there were pickup codes, one a ride
          PageSize,  \* items per page
          LastDay    \* bound: days that pass

Passengers == {PassengerOf[b] : b \in Trips}

VARIABLES ride,      \* ride |-> status, and its rank in the order of updated_at
          booking,   \* booking |-> its row; rank in created_at, 0 if there is none
          ledger,    \* driver's and platform's wallet_transactions about the rides
          today,
          mine,      \* GET /bookings/my under way: the passenger and the rows read
          shown,     \* booking |-> the code its passenger was last shown
          walk       \* somebody who turns the pages of a list

vars == <<ride, booking, ledger, today, mine, shown, walk>>

NoTrip == [status |-> "NONE", made |-> 0, pickup |-> "NULL", code |-> 0, place |-> 0]
Off == [by |-> "nobody", rows |-> <<>>]
Closed == [of |-> "none", by |-> "nobody", page |-> 0, had |-> {}, seen |-> {}, over |-> TRUE]

Init ==
  /\ ride = [r \in Rides |-> [status |-> "PUBLISHED", ended |-> 0]]
  /\ booking = [b \in Trips |->
       IF b \in Legacy THEN [NoTrip EXCEPT !.status = "CONFIRMED", !.made = 1] ELSE NoTrip]
  /\ ledger = {} /\ today = 1
  /\ mine = Off /\ shown = [b \in Trips |-> 0] /\ walk = Closed

-----------------------------------------------------------------------------
\* One more than what has been used: the next code, rank or place.
After(S) == 1 + Max(S \cup {0})

NewCode == After({booking[b].code : b \in Trips} \cup {shown[b] : b \in Trips})

On(r) == {b \in Trips : RideOf[b] = r /\ booking[b].status # "NONE"}
ConfirmedOn(r) == {b \in On(r) : booking[b].status = "CONFIRMED"}

buildRegularPickupFields(row, r) ==
  [row EXCEPT !.pickup = "WAITING_FOR_PICKUP", !.code = NewCode,
              !.place = After({booking[b].place : b \in On(r)})]

\* The row with its pickup code, given one if it has none and needs one.
ensurePickupOtpMaterial(row, r) ==
  IF row.status = "CONFIRMED" /\ row.pickup # "PICKED_UP" /\ row.code = 0
  THEN buildRegularPickupFields(row, r) ELSE row

\* Only a passenger who waits is shown a code.
visiblePickupOtp(row) == IF row.pickup = "WAITING_FOR_PICKUP" THEN row.code ELSE 0

-----------------------------------------------------------------------------
(* The rides go on.                                                        *)

Book(b) ==
  /\ booking[b].status = "NONE"
  /\ ride[RideOf[b]].status = "PUBLISHED" /\ today <= DayOf[RideOf[b]]
  /\ booking' = [booking EXCEPT ![b] = buildRegularPickupFields(
       [@ EXCEPT !.status = "CONFIRMED", !.made = After({booking[c].made : c \in Trips})], RideOf[b])]
  /\ UNCHANGED <<ride, ledger, today, mine, shown, walk>>

\* A rider who leaves late forfeits to driver and platform.
CancelByRider(b) ==
  /\ booking[b].status = "CONFIRMED" /\ ride[RideOf[b]].status = "PUBLISHED"
  /\ booking' = [booking EXCEPT ![b].status = "CANCELLED"]
  /\ \/ UNCHANGED ledger
     \/ ledger' = ledger \cup {[kind |-> "forfeit", ref |-> b, to |-> t] : t \in {"driver", "platform"}}
  /\ UNCHANGED <<ride, today, mine, shown, walk>>

Start(r) ==
  /\ ride[r].status = "PUBLISHED" /\ today = DayOf[r]
  /\ ride' = [ride EXCEPT ![r].status = "IN_PROGRESS"]
  /\ booking' = [b \in Trips |-> IF RideOf[b] = r
                                 THEN ensurePickupOtpMaterial(booking[b], r) ELSE booking[b]]
  /\ UNCHANGED <<ledger, today, mine, shown, walk>>

VerifyPickup(b) ==
  /\ ride[RideOf[b]].status = "IN_PROGRESS"
  /\ booking[b].status = "CONFIRMED" /\ booking[b].pickup = "WAITING_FOR_PICKUP"
  /\ booking' = [booking EXCEPT ![b].pickup = "PICKED_UP"]
  /\ UNCHANGED <<ride, ledger, today, mine, shown, walk>>

Ends(r, status) ==
  ride' = [ride EXCEPT ![r] = [status |-> status, ended |-> After({ride[q].ended : q \in Rides})]]

\* The driver is paid for seats of an Assured ride that stayed free.
Complete(r) ==
  /\ ride[r].status = "IN_PROGRESS"
  /\ \A b \in ConfirmedOn(r) : booking[b].pickup = "PICKED_UP"
  /\ Ends(r, "COMPLETED")
  /\ booking' = [b \in Trips |-> IF b \in ConfirmedOn(r)
                                 THEN [booking[b] EXCEPT !.status = "COMPLETED"] ELSE booking[b]]
  /\ \/ UNCHANGED ledger
     \/ ledger' = ledger \cup {[kind |-> "fill", ref |-> r, to |-> "driver"]}
  /\ UNCHANGED <<today, mine, shown, walk>>

CallOff(r) ==
  /\ ride[r].status = "PUBLISHED"
  /\ Ends(r, "CANCELLED")
  /\ booking' = [b \in Trips |-> IF b \in ConfirmedOn(r)
                                 THEN [booking[b] EXCEPT !.status = "CANCELLED"] ELSE booking[b]]
  /\ UNCHANGED <<ledger, today, mine, shown, walk>>

NextDay ==
  /\ today < LastDay /\ today' = today + 1
  /\ UNCHANGED <<ride, booking, ledger, mine, shown, walk>>

-----------------------------------------------------------------------------
(* GET /bookings/my.                                                       *)

MyTrips(p) == {b \in Trips : PassengerOf[b] = p /\ booking[b].status \notin {"NONE", "CANCELLED"}}

ReadMine(p) ==
  /\ mine = Off /\ MyTrips(p) # {}
  /\ mine' = [by |-> p, rows |-> [b \in MyTrips(p) |-> booking[b]]]
  /\ UNCHANGED <<ride, booking, ledger, today, shown, walk>>

\* A row that is given a code is written back as it was read.
Ensure(b) ==
  /\ mine # Off /\ b \in DOMAIN mine.rows
  /\ ensurePickupOtpMaterial(mine.rows[b], RideOf[b]) # mine.rows[b]
  /\ booking' = [booking EXCEPT ![b] = ensurePickupOtpMaterial(mine.rows[b], RideOf[b])]
  /\ mine' = [mine EXCEPT !.rows[b] = booking'[b]]
  /\ UNCHANGED <<ride, ledger, today, shown, walk>>

ShowMine ==
  /\ mine # Off
  /\ \A b \in DOMAIN mine.rows : ensurePickupOtpMaterial(mine.rows[b], RideOf[b]) = mine.rows[b]
  /\ shown' = [b \in Trips |-> IF b \in DOMAIN mine.rows
                               THEN visiblePickupOtp(mine.rows[b]) ELSE shown[b]]
  /\ mine' = Off
  /\ UNCHANGED <<ride, booking, ledger, today, walk>>

-----------------------------------------------------------------------------
(* What is listed.                                                         *)

MyRides == {r \in Rides : /\ ride[r].status # "CANCELLED"
                          /\ ride[r].status = "PUBLISHED" => today <= DayOf[r]}

PastRides == {r \in Rides : ride[r].status \in {"COMPLETED", "CANCELLED"}}

PastTrips(p) ==
  {b \in Trips : PassengerOf[b] = p /\ booking[b].status \in {"COMPLETED", "CANCELLED"}}

ForDriver == {b \in Trips : booking[b].status # "NONE"}

Driven == {r \in Rides : ride[r].status = "IN_PROGRESS"}

DriverItem(r) == {PassengerOf[b] : b \in ConfirmedOn(r)}

Riding(p) == {b \in Trips : /\ PassengerOf[b] = p /\ booking[b].status = "CONFIRMED"
                            /\ ride[RideOf[b]].status = "IN_PROGRESS"}

CoPassengers(b) == {PassengerOf[c] : c \in ConfirmedOn(RideOf[b])} \ {PassengerOf[b]}

Earnings(r) == {b \in On(r) : booking[b].status = "COMPLETED"}

BookedOn(r) == {b \in On(r) : booking[b].status \in {"CONFIRMED", "COMPLETED"}}

\* The rows of the ledger that are counted for ride r of a page of rides.
Bonuses(page, r) ==
  LET rows == {t \in ledger : /\ t.to = "driver"
                              /\ IF t.kind = "fill" THEN t.ref \in page ELSE RideOf[t.ref] \in page}
  IN  {t \in rows : IF t.kind = "fill" THEN t.ref = r ELSE RideOf[t.ref] = r}

HistoryItem(page, r) ==
  [status |-> ride[r].status, seats |-> BookedOn(r), passengers |-> On(r),
   earned |-> Earnings(r), bonuses |-> Bonuses(page, r)]

\* The detail of one past ride is a page of its own.
HistoryDetail(r) == HistoryItem({r}, r)

-----------------------------------------------------------------------------
(* Pages.                                                                  *)

Listed(of, p) ==
  CASE of = "rides" -> PastRides
    [] of = "trips" -> PastTrips(p)
    [] of = "taken" -> ForDriver
    [] OTHER -> {}

Before(of, x, y) ==
  IF of = "rides"
  THEN DayOf[x] > DayOf[y] \/ (DayOf[x] = DayOf[y] /\ ride[x].ended > ride[y].ended)
  ELSE booking[x].made > booking[y].made

PageOf(of, p, n) ==
  {x \in Listed(of, p) :
     Cardinality({y \in Listed(of, p) : Before(of, y, x)}) \div PageSize = n - 1}

\* The next page; the last one is where the answer's total is reached.
Turn(n) ==
  walk' = [walk EXCEPT !.page = n, !.seen = @ \cup PageOf(walk.of, walk.by, n),
                       !.over = n * PageSize >= Cardinality(Listed(walk.of, walk.by))]

Opens(of, p) ==
  walk' = [of |-> of, by |-> p, page |-> 1, had |-> Listed(of, p), seen |-> PageOf(of, p, 1),
           over |-> PageSize >= Cardinality(Listed(of, p))]

OpenList ==
  /\ walk.of = "none"
  /\ \/ \E of \in {"rides", "taken"} : Opens(of, "driver")
     \/ \E p \in Passengers : Opens("trips", p)
  /\ UNCHANGED <<ride, booking, ledger, today, mine, shown>>

TurnPage ==
  /\ ~walk.over /\ Turn(walk.page + 1)
  /\ UNCHANGED <<ride, booking, ledger, today, mine, shown>>

-----------------------------------------------------------------------------
Next ==
  \/ NextDay \/ ShowMine \/ OpenList \/ TurnPage
  \/ \E r \in Rides : Start(r) \/ Complete(r) \/ CallOff(r)
  \/ \E b \in Trips : Book(b) \/ CancelByRider(b) \/ VerifyPickup(b) \/ Ensure(b)
  \/ \E p \in Passengers : ReadMine(p)

Spec == Init /\ [][Next]_vars

-----------------------------------------------------------------------------
\* Who turns the pages of a history while rides end and bookings are made or
\* cancelled sees everything that was in it when the first page was read.  (A
\* passenger's history may lose a booking to the listing that gives it a code.)
PagesMissNothing ==
  walk.over => \/ walk.had \subseteq walk.seen
               \/ walk.of = "trips" /\ \E b \in Legacy : PassengerOf[b] = walk.by

\* The list and the detail of a driver's history reckon a ride alike, and
\* everything the driver's wallet was credited for it beyond the fares is there.
HistoriesAgree ==
  \A r \in PastRides :
    /\ \A page \in SUBSET PastRides : r \in page => HistoryItem(page, r) = HistoryDetail(r)
    /\ HistoryDetail(r).bonuses =
         {t \in ledger : t.to = "driver" /\ r = IF t.kind = "fill" THEN t.ref ELSE RideOf[t.ref]}

\* The driver of a ride on its way is shown who is shown that ride as hers, and
\* each of them who else is.
LiveListsAgree ==
  /\ \A r \in Driven : r \in MyRides /\ DriverItem(r) = {p \in Passengers : \E b \in Riding(p) : RideOf[b] = r}
  /\ \A p \in Passengers : \A b \in Riding(p) :
       b \in MyTrips(p) /\ CoPassengers(b) = DriverItem(RideOf[b]) \ {p}

\* The passenger who waits at a ride on its way reads the code the driver has to
\* enter, or none, on a screen no older than the booking's only code.
ShownCodesOpen ==
  \A b \in Trips \ Legacy :
    shown[b] # 0 /\ booking[b].pickup = "WAITING_FOR_PICKUP" => shown[b] = booking[b].code

\* Listing what one has booked never takes a pickup back.
PickedUpStays ==
  [][\A b \in Trips \ Legacy : booking[b].pickup = "PICKED_UP" => booking'[b].pickup = "PICKED_UP"]_vars

=============================================================================
