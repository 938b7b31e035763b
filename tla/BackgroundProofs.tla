-------------------------- MODULE BackgroundProofs --------------------------
(***************************************************************************)
(* The background work, proved for any bounds, numbers of bookings,        *)
(* workers and handlers, tax rules and fares: each part's invariant is     *)
(* inductive, and the parts keep out of each other's way.  What makes the  *)
(* steps possible: a claim is decided under locks after a look at the trip *)
(* (Borne, Apart), the number sequence is locked while a number is out     *)
(* (SequenceHeld), what is in flight is still pending (OutboxInv), a rule  *)
(* is compared with rules that do not change before it is saved            *)
(* (Untangled), a stale copy says no more than is known (MailInv).         *)
(***************************************************************************)
EXTENDS MCBackground, Sequences, FiniteSetTheorems, TLAPS

-----------------------------------------------------------------------------
(* No-show claims.                                                         *)

Claim == [kind : {"DRIVER", "PASSENGER"}, booking : Passengers,
          status : {"PENDING", "APPROVED", "REJECTED", "SUPERSEDED"}, due : BOOLEAN,
          ticket : BOOLEAN]

Reasons == {"none", "RIDER_CANCELLED", "DRIVER_CANCELLED", "RIDE_CANCELLED", "DRIVER_NO_SHOW",
            "RIDER_NO_SHOW"}

Seat == [status : {"CONFIRMED", "CANCELLED", "COMPLETED"}, reason : Reasons, picked : BOOLEAN]

Trip == [type : {"REGULAR", "ASSURED"}, status : {"PUBLISHED", "IN_PROGRESS", "COMPLETED", "CANCELLED"},
         reason : Reasons]

TripTypes == ride \in Trip /\ bookings \in [Passengers -> Seat]

\* The trip says what the verdict on claim c says.
Borne(c) ==
  claims[c].status = "APPROVED" =>
    /\ ~bookings[claims[c].booking].picked
    /\ claims[c].kind = "DRIVER" => ride.status = "CANCELLED" /\ ride.reason = "DRIVER_NO_SHOW"
    /\ claims[c].kind = "PASSENGER" =>
         /\ bookings[claims[c].booking].status = "CANCELLED"
         /\ bookings[claims[c].booking].reason = "RIDER_NO_SHOW"

SameNoShow(c, d) ==
  /\ claims[d].kind = claims[c].kind
  /\ claims[c].kind = "PASSENGER" => claims[d].booking = claims[c].booking

\* Two claims about one no-show are not both open and not both approved.
Apart(c, d) ==
  SameNoShow(c, d) =>
    /\ claims[c].status = "PENDING" => claims[d].status # "PENDING"
    /\ claims[c].status = "APPROVED" => claims[d].status # "APPROVED"

ClaimsInv ==
  /\ TripTypes /\ claims \in Seq(Claim)
  /\ \A c \in DOMAIN claims : Borne(c)
  /\ \A c, d \in DOMAIN claims : c # d => Apart(c, d)

\* A list of claims is typed, and a list whose rows changed is a list again.
LEMMA ClaimsTyped ==
  ASSUME claims \in Seq(Claim)
  PROVE  /\ Len(claims) \in Nat /\ DOMAIN claims = 1..Len(claims)
         /\ \A c \in DOMAIN claims :
              /\ claims[c] \in Claim /\ claims[c].kind \in {"DRIVER", "PASSENGER"}
              /\ claims[c].booking \in Passengers
              /\ claims[c].status \in {"PENDING", "APPROVED", "REJECTED", "SUPERSEDED"}
<1>1. Len(claims) \in Nat /\ DOMAIN claims = 1..Len(claims)
  OBVIOUS
<1>2. \A c \in DOMAIN claims : claims[c] \in Claim
  BY <1>1
<1> QED BY <1>1, <1>2 DEF Claim

LEMMA RowsMakeClaims ==
  ASSUME claims \in Seq(Claim), NEW new, new \in [DOMAIN claims -> Claim]
  PROVE  new \in Seq(Claim) /\ DOMAIN new = DOMAIN claims
<1>1. Len(claims) \in Nat /\ DOMAIN claims = 1..Len(claims)
  OBVIOUS
<1> QED BY <1>1

\* What a cancellation writes.
LEMMA CancelledSeats ==
  ASSUME TripTypes, NEW S, NEW reason \in Reasons
  PROVE  /\ NoShow!Cancelled(S, reason) \in [Passengers -> Seat]
         /\ \A b \in Passengers :
              IF b \in S /\ NoShow!Confirmed(b)
              THEN /\ NoShow!Cancelled(S, reason)[b].status = "CANCELLED"
                   /\ NoShow!Cancelled(S, reason)[b].reason = reason
                   /\ NoShow!Cancelled(S, reason)[b].picked = bookings[b].picked
              ELSE NoShow!Cancelled(S, reason)[b] = bookings[b]
         /\ NoShow!CancelledRide(reason) \in Trip
         /\ NoShow!CancelledRide(reason).status = "CANCELLED"
         /\ NoShow!CancelledRide(reason).reason = reason
<1>1. ASSUME NEW b \in Passengers
      PROVE  LET seat == [bookings[b] EXCEPT !.status = "CANCELLED", !.reason = reason] IN
             /\ seat \in Seat /\ seat.status = "CANCELLED" /\ seat.reason = reason
             /\ seat.picked = bookings[b].picked
  <2>1. bookings[b] \in Seat
    BY DEF TripTypes
  <2> QED BY <2>1 DEF Seat
<1>2. \A b \in Passengers : bookings[b] \in Seat
  BY DEF TripTypes
<1>3. ride \in Trip
  BY DEF TripTypes
<1>4. /\ NoShow!CancelledRide(reason) \in Trip
      /\ NoShow!CancelledRide(reason).status = "CANCELLED"
      /\ NoShow!CancelledRide(reason).reason = reason
  BY <1>3 DEF NoShow!CancelledRide, Trip
<1> QED BY <1>1, <1>2, <1>4 DEF NoShow!Cancelled

LEMMA InitClaimsInv == NoShow!Init => ClaimsInv
<1> SUFFICES ASSUME NoShow!Init PROVE ClaimsInv
  OBVIOUS
<1>1. ride \in Trip
  BY DEF NoShow!Init, Trip, Reasons
<1>2. bookings \in [Passengers -> Seat]
  BY DEF NoShow!Init, Seat, Reasons
<1>3. claims \in Seq(Claim) /\ DOMAIN claims = {}
  BY DEF NoShow!Init
<1> QED BY <1>1, <1>2, <1>3 DEF ClaimsInv, TripTypes

\* A verdict is borne by the trip as it ends: what the trip goes through besides.
LEMMA RideMovesKeepClaimsInv == ClaimsInv /\ NoShow!RideMoves => ClaimsInv'
<1> SUFFICES ASSUME ClaimsInv, NoShow!RideMoves PROVE ClaimsInv'
  OBVIOUS
<1>1. TripTypes /\ claims \in Seq(Claim) /\ UNCHANGED claims
  BY DEF ClaimsInv, NoShow!RideMoves
<1> DEFINE Ends ==
      /\ TripTypes'
      /\ ride.status = "CANCELLED" =>
           UNCHANGED ride /\ \A b \in Passengers : UNCHANGED bookings[b].picked
      /\ \A b \in Passengers : bookings[b].status = "CANCELLED" => UNCHANGED bookings[b]
<1>2. Ends
  <2>t. /\ ride \in Trip /\ bookings \in [Passengers -> Seat]
        /\ \A b \in Passengers : bookings[b] \in Seat
    BY <1>1 DEF TripTypes
  <2>1. CASE NoShow!Start
    <3>1. ride' \in Trip
      BY <2>t, <2>1 DEF NoShow!Start, Trip
    <3> QED BY <2>t, <2>1, <3>1 DEF NoShow!Start, TripTypes
  <2>2. CASE NoShow!CancelByDriver
    <3>1. /\ ride' \in Trip /\ bookings' = NoShow!Cancelled(Passengers, "RIDE_CANCELLED")
          /\ ride.status = "PUBLISHED"
      BY <1>1, <2>2, CancelledSeats DEF NoShow!CancelByDriver, Reasons
    <3> QED BY <1>1, <3>1, CancelledSeats DEF TripTypes, NoShow!Confirmed, Reasons
  <2>3. CASE NoShow!Complete
    <3>1. \A b \in Passengers : [bookings[b] EXCEPT !.status = "COMPLETED"] \in Seat
      BY <2>t DEF Seat
    <3>2. ride' \in Trip /\ ride.status = "IN_PROGRESS"
      BY <2>t, <2>3 DEF NoShow!Complete, Trip
    <3> QED BY <2>t, <2>3, <3>1, <3>2 DEF NoShow!Complete, NoShow!Confirmed, TripTypes
  <2>4. ASSUME NEW b \in Passengers, NoShow!VerifyPickup(b) PROVE Ends
    <3>1. [bookings[b] EXCEPT !.picked = TRUE] \in Seat
      BY <2>t DEF Seat
    <3>2. bookings' = [bookings EXCEPT ![b] = [bookings[b] EXCEPT !.picked = TRUE]]
      BY <2>4 DEF NoShow!VerifyPickup
    <3> QED BY <2>t, <2>4, <3>1, <3>2 DEF NoShow!VerifyPickup, NoShow!Confirmed, TripTypes
  <2>5. ASSUME NEW b \in Passengers, NoShow!Leave(b) PROVE Ends
    <3>1. /\ bookings' = NoShow!Cancelled({b}, "RIDER_CANCELLED") /\ UNCHANGED ride
          /\ ride.status # "CANCELLED"
      BY <2>5 DEF NoShow!Leave, NoShow!OnOffer
    <3> QED BY <1>1, <3>1, CancelledSeats DEF TripTypes, NoShow!Confirmed, Reasons
  <2> QED BY <2>1, <2>2, <2>3, <2>4, <2>5 DEF NoShow!RideMoves
<1>3. ASSUME NEW c \in DOMAIN claims PROVE Borne(c)'
  <2> DEFINE b == claims[c].booking
  <2>1. Borne(c) /\ b \in Passengers /\ claims[c].kind \in {"DRIVER", "PASSENGER"}
    BY <1>1, ClaimsTyped DEF ClaimsInv
  <2>2. bookings[b].status = "CANCELLED" => UNCHANGED bookings[b]
    BY <1>1, <1>2, <2>1
  <2>3. ride.status = "CANCELLED" => UNCHANGED ride /\ UNCHANGED bookings[b].picked
    BY <1>1, <1>2, <2>1
  <2> QED BY <1>1, <2>1, <2>2, <2>3 DEF Borne
<1> QED BY <1>1, <1>2, <1>3 DEF ClaimsInv, Apart, SameNoShow

\* A list whose rows keep kind and booking, of which one may be decided.
LEMMA DecidingKeepsClaimsInv ==
  ASSUME ClaimsInv, UNCHANGED NoShow!trip, NEW c \in DOMAIN claims,
         claims[c].status \in {"PENDING", "REJECTED"},
         NEW decision \in {"REJECTED", "SUPERSEDED"}, claims' = NoShow!Decided(c, decision)
  PROVE  ClaimsInv'
<1> DEFINE row == [claims[c] EXCEPT !.status = decision]
<1>1. TripTypes /\ claims \in Seq(Claim) /\ claims[c] \in Claim
  BY ClaimsTyped DEF ClaimsInv
<1>2. /\ row \in Claim /\ row.status = decision /\ row.kind = claims[c].kind
      /\ row.booking = claims[c].booking
  BY <1>1 DEF Claim
<1>3. claims' = [claims EXCEPT ![c] = row]
  BY DEF NoShow!Decided
<1> HIDE DEF row
<1>4. claims' \in [DOMAIN claims -> Claim]
  BY <1>1, <1>2, <1>3, ClaimsTyped
<1>5. claims' \in Seq(Claim) /\ DOMAIN claims' = DOMAIN claims
  BY <1>1, <1>4, RowsMakeClaims
<1>6. \A d \in DOMAIN claims : claims'[d] = IF d = c THEN row ELSE claims[d]
  BY <1>1, <1>3, ClaimsTyped
<1>7. TripTypes' /\ UNCHANGED <<ride, bookings>>
  BY <1>1 DEF NoShow!trip, TripTypes
<1>8. ASSUME NEW d \in DOMAIN claims PROVE Borne(d)'
  <2>1. CASE d = c
    BY <1>2, <1>6, <2>1 DEF Borne
  <2>2. CASE d # c
    BY <1>6, <1>7, <2>2 DEF Borne, ClaimsInv
  <2> QED BY <2>1, <2>2
<1>9. ASSUME NEW d \in DOMAIN claims, NEW e \in DOMAIN claims, d # e PROVE Apart(d, e)'
  <2>1. Apart(d, e)
    BY <1>9 DEF ClaimsInv
  <2>2. claims'[d].kind = claims[d].kind /\ claims'[d].booking = claims[d].booking
    BY <1>2, <1>6
  <2>3. claims'[e].kind = claims[e].kind /\ claims'[e].booking = claims[e].booking
    BY <1>2, <1>6
  <2>4. \A k \in {d, e} : claims'[k].status \in {claims[k].status, "REJECTED", "SUPERSEDED"}
    BY <1>2, <1>6
  <2> QED BY <2>1, <2>2, <2>3, <2>4 DEF Apart, SameNoShow
<1> QED BY <1>5, <1>7, <1>8, <1>9 DEF ClaimsInv

\* An approval: the guard saw that nobody was picked up and the trip goes on.
LEMMA ApprovingKeepsClaimsInv ==
  ASSUME ClaimsInv, NEW c \in DOMAIN claims, claims[c].status = "PENDING",
         NoShow!settlementGuard(c) = "none", ~NoShow!Refused(c), NoShow!settleApproved(c), claims' = NoShow!Approved(c)
  PROVE  ClaimsInv'
<1>1. TripTypes /\ claims \in Seq(Claim) /\ \A d \in DOMAIN claims : claims[d] \in Claim
  BY ClaimsTyped DEF ClaimsInv
<1> DEFINE b == claims[c].booking
<1>2. b \in Passengers /\ claims[c].kind \in {"DRIVER", "PASSENGER"}
  BY <1>1 DEF Claim
<1>3. ~bookings[b].picked /\ ride.status # "CANCELLED"
  BY <1>2 DEF NoShow!settlementGuard, NoShow!OnOffer
<1>4. claims[c].kind = "PASSENGER" => NoShow!Confirmed(b)
  BY <1>2 DEF NoShow!Refused, NoShow!settlementGuard
<1>5. ASSUME NEW d \in DOMAIN claims
      PROVE  /\ claims'[d] \in Claim /\ claims'[d].kind = claims[d].kind
             /\ claims'[d].booking = claims[d].booking
             /\ d = c => claims'[d].status = "APPROVED"
             /\ d # c => claims'[d].status \in {claims[d].status, "SUPERSEDED"}
  <2>1. claims[d] \in Claim
    BY <1>1
  <2>2. \A decision \in {"APPROVED", "SUPERSEDED"} :
          LET row == [claims[d] EXCEPT !.status = decision] IN
          /\ row \in Claim /\ row.status = decision /\ row.kind = claims[d].kind
          /\ row.booking = claims[d].booking
    BY <2>1 DEF Claim
  <2> QED BY <2>1, <2>2 DEF NoShow!Approved
<1>6. claims' \in [DOMAIN claims -> Claim]
  BY <1>5 DEF NoShow!Approved
<1>7. claims' \in Seq(Claim) /\ DOMAIN claims' = DOMAIN claims
  BY <1>1, <1>6, RowsMakeClaims
<1>8. /\ TripTypes'
      /\ \A d \in Passengers : /\ bookings'[d].picked = bookings[d].picked
                               /\ bookings[d].status = "CANCELLED" => UNCHANGED bookings[d]
      /\ claims[c].kind = "DRIVER" => ride'.status = "CANCELLED" /\ ride'.reason = "DRIVER_NO_SHOW"
      /\ claims[c].kind = "PASSENGER" => bookings'[b].status = "CANCELLED" /\ bookings'[b].reason = "RIDER_NO_SHOW"
  <2> HIDE DEF b
  <2>1. CASE claims[c].kind = "DRIVER"
    <3>1. /\ ride' = NoShow!CancelledRide("DRIVER_NO_SHOW")
          /\ bookings' = NoShow!Cancelled(Passengers, "DRIVER_NO_SHOW")
      BY <2>1 DEF NoShow!settleApproved
    <3> QED BY <1>1, <2>1, <3>1, CancelledSeats DEF TripTypes, Reasons, NoShow!Confirmed
  <2>2. CASE claims[c].kind = "PASSENGER"
    <3>1. bookings' = NoShow!Cancelled({b}, "RIDER_NO_SHOW") /\ UNCHANGED ride
      BY <2>2 DEF NoShow!settleApproved, b
    <3> QED BY <1>1, <1>2, <1>4, <2>2, <3>1, CancelledSeats DEF TripTypes, Reasons, NoShow!Confirmed
  <2> QED BY <1>2, <2>1, <2>2
<1>9. ASSUME NEW d \in DOMAIN claims PROVE Borne(d)'
  <2>1. CASE d = c
    BY <1>2, <1>3, <1>5, <1>8, <2>1 DEF Borne
  <2>2. CASE d # c
    <3> DEFINE e == claims[d].booking
    <3>1. e \in Passengers /\ claims[d].kind \in {"DRIVER", "PASSENGER"} /\ Borne(d)
      BY <1>1 DEF Claim, ClaimsInv
    <3>2. /\ claims'[d].kind = claims[d].kind /\ claims'[d].booking = e
          /\ claims'[d].status = "APPROVED" => claims[d].status = "APPROVED"
      BY <1>5, <2>2
    <3>3. /\ bookings'[e].picked = bookings[e].picked
          /\ bookings[e].status = "CANCELLED" => bookings'[e] = bookings[e]
      BY <1>8, <3>1
    <3> HIDE DEF e
    <3> QED BY <1>3, <3>1, <3>2, <3>3 DEF Borne, e
  <2> QED BY <2>1, <2>2
<1>10. ASSUME NEW d \in DOMAIN claims, SameNoShow(c, d) \/ SameNoShow(d, c), d # c
       PROVE  claims[d].status # "APPROVED"
  <2>1. Borne(d) /\ claims[d].kind = claims[c].kind
    BY <1>10 DEF ClaimsInv, SameNoShow
  <2>2. CASE claims[c].kind = "DRIVER"
    BY <1>3, <2>1, <2>2 DEF Borne
  <2>3. CASE claims[c].kind = "PASSENGER"
    <3>1. claims[d].booking = b
      BY <1>10, <2>1, <2>3 DEF SameNoShow
    <3> QED BY <1>4, <2>1, <2>3, <3>1 DEF Borne, NoShow!Confirmed
  <2> QED BY <1>2, <2>2, <2>3
<1>11. ASSUME NEW d \in DOMAIN claims, NEW e \in DOMAIN claims, d # e PROVE Apart(d, e)'
  <2>1. Apart(d, e) /\ (SameNoShow(d, e)' <=> SameNoShow(d, e))
    BY <1>5, <1>11 DEF ClaimsInv, SameNoShow
  <2>2. SUFFICES ASSUME SameNoShow(d, e)
                 PROVE  /\ claims'[d].status = "PENDING" => claims'[e].status # "PENDING"
                        /\ claims'[d].status = "APPROVED" => claims'[e].status # "APPROVED"
    BY <2>1 DEF Apart
  <2>3. CASE d = c
    BY <1>5, <1>10, <1>11, <2>2, <2>3
  <2>4. CASE e = c
    BY <1>5, <1>10, <1>11, <2>2, <2>4
  <2>5. CASE d # c /\ e # c
    BY <1>5, <2>1, <2>2, <2>5 DEF Apart
  <2> QED BY <2>3, <2>4, <2>5
<1> QED BY <1>7, <1>8, <1>9, <1>11 DEF ClaimsInv

\* A claim filed anew: no other about the same no-show is open.
LEMMA ReportingKeepsClaimsInv ==
  ASSUME ClaimsInv, NEW b \in Passengers, NEW kind \in {"DRIVER", "PASSENGER"}, NoShow!Report(kind, b)
  PROVE  ClaimsInv'
<1> DEFINE row == [kind |-> kind, booking |-> b, status |-> "PENDING", due |-> FALSE, ticket |-> FALSE]
<1>0. PICK n \in Nat : n = Len(claims)
  BY ClaimsTyped DEF ClaimsInv
<1>1. TripTypes /\ claims \in Seq(Claim) /\ DOMAIN claims = 1..n
  BY <1>0, ClaimsTyped DEF ClaimsInv
<1>2. row \in Claim /\ row.status = "PENDING" /\ row.kind = kind /\ row.booking = b
  BY DEF Claim
<1>3. claims' = Append(claims, row) /\ UNCHANGED <<ride, bookings>>
  BY DEF NoShow!Report, NoShow!trip
<1> HIDE DEF row
<1>4. /\ claims' \in Seq(Claim) /\ DOMAIN claims' = 1..(n + 1) /\ claims'[n + 1] = row
      /\ \A d \in 1..n : claims'[d] = claims[d]
  BY <1>0, <1>1, <1>2, <1>3
<1>5. \A d \in 1..n : SameNoShow(n + 1, d)' \/ SameNoShow(d, n + 1)' => claims[d].status # "PENDING"
  BY <1>1, <1>2, <1>4 DEF NoShow!Report, NoShow!About, SameNoShow
<1>6. TripTypes'
  BY <1>1, <1>3 DEF TripTypes
<1>7. ASSUME NEW d \in 1..(n + 1) PROVE Borne(d)'
  <2>1. CASE d = n + 1
    BY <1>2, <1>4, <2>1 DEF Borne
  <2>2. CASE d \in 1..n
    BY <1>1, <1>3, <1>4, <2>2 DEF Borne, ClaimsInv
  <2> QED BY <1>1, <2>1, <2>2
<1>8. ASSUME NEW d \in 1..(n + 1), NEW e \in 1..(n + 1), d # e PROVE Apart(d, e)'
  <2>1. CASE d = n + 1
    <3>1. e \in 1..n
      BY <1>1, <1>8, <2>1
    <3> QED BY <1>2, <1>4, <1>5, <2>1, <3>1 DEF Apart
  <2>2. CASE e = n + 1
    <3>1. d \in 1..n
      BY <1>1, <1>8, <2>2
    <3> QED BY <1>2, <1>4, <1>5, <2>2, <3>1 DEF Apart
  <2>3. CASE d \in 1..n /\ e \in 1..n
    BY <1>1, <1>4, <1>8, <2>3 DEF Apart, SameNoShow, ClaimsInv
  <2> QED BY <1>1, <2>1, <2>2, <2>3
<1> QED BY <1>4, <1>6, <1>7, <1>8 DEF ClaimsInv

\* What touches neither status, kind nor booking of a claim: a deadline, a ticket.
LEMMA MarkingKeepsClaimsInv ==
  ASSUME ClaimsInv, UNCHANGED NoShow!trip, claims' \in [DOMAIN claims -> Claim],
         \A d \in DOMAIN claims : /\ claims'[d].status = claims[d].status
                                  /\ claims'[d].kind = claims[d].kind
                                  /\ claims'[d].booking = claims[d].booking
  PROVE  ClaimsInv'
<1>1. claims' \in Seq(Claim) /\ DOMAIN claims' = DOMAIN claims
  BY RowsMakeClaims DEF ClaimsInv
<1>2. TripTypes' /\ UNCHANGED <<ride, bookings>>
  BY DEF ClaimsInv, TripTypes, NoShow!trip
<1>3. ASSUME NEW d \in DOMAIN claims PROVE Borne(d)'
  BY <1>2 DEF Borne, ClaimsInv
<1>4. ASSUME NEW d \in DOMAIN claims, NEW e \in DOMAIN claims, d # e PROVE Apart(d, e)'
  BY <1>4 DEF Apart, SameNoShow, ClaimsInv
<1> QED BY <1>1, <1>2, <1>3, <1>4 DEF ClaimsInv

\* A decision of either side or of the worker.
LEMMA ApproveKeepsClaimsInv ==
  ASSUME ClaimsInv, NEW c \in DOMAIN claims, NoShow!Approve(c)
  PROVE  ClaimsInv'
<1>1. CASE /\ claims[c].status = "PENDING" /\ NoShow!settlementGuard(c) = "none" /\ ~NoShow!Refused(c)
           /\ NoShow!settleApproved(c) /\ claims' = NoShow!Approved(c)
  BY <1>1, ApprovingKeepsClaimsInv
<1>2. CASE /\ claims[c].status = "PENDING" /\ NoShow!settlementGuard(c) # "none"
           /\ claims' = NoShow!Decided(c, NoShow!settlementGuard(c)) /\ UNCHANGED NoShow!trip
  <2>1. NoShow!settlementGuard(c) \in {"REJECTED", "SUPERSEDED"}
    BY <1>2 DEF NoShow!settlementGuard
  <2> QED BY <1>2, <2>1, DecidingKeepsClaimsInv
<1>3. CASE UNCHANGED <<NoShow!trip, claims>>
  BY <1>3 DEF ClaimsInv, TripTypes, Borne, Apart, SameNoShow, NoShow!trip
<1> QED BY <1>1, <1>2, <1>3 DEF NoShow!Approve

\* One case per action.  Faults are counted apart: other work counts them too.
LEMMA StepKeepsClaimsInv ==
  ClaimsInv /\ (NoShow!Next \/ UNCHANGED <<ride, bookings, claims>>) => ClaimsInv'
<1> SUFFICES ASSUME ClaimsInv, NoShow!Next \/ UNCHANGED <<ride, bookings, claims>> PROVE ClaimsInv'
  OBVIOUS
<1>t. claims \in Seq(Claim) /\ \A c \in DOMAIN claims : claims[c] \in Claim
  BY ClaimsTyped DEF ClaimsInv
<1>1. CASE UNCHANGED <<NoShow!trip, claims>>
  BY <1>1 DEF ClaimsInv, TripTypes, Borne, Apart, SameNoShow, NoShow!trip
<1>2. CASE NoShow!RideMoves
  BY <1>2, RideMovesKeepClaimsInv
<1>3. ASSUME NEW b \in Passengers, NEW kind \in {"DRIVER", "PASSENGER"}, NoShow!Report(kind, b)
      PROVE  ClaimsInv'
  BY <1>3, ReportingKeepsClaimsInv
<1>4. ASSUME NEW c, NoShow!Respond(c) PROVE ClaimsInv'
  <2>1. c \in DOMAIN claims
    BY <1>4 DEF NoShow!Respond
  <2>2. CASE NoShow!Reject(c)
    BY <2>1, <2>2, DecidingKeepsClaimsInv DEF NoShow!Reject
  <2> QED BY <1>4, <2>1, <2>2, ApproveKeepsClaimsInv DEF NoShow!Respond
<1>5. ASSUME NEW c, NoShow!Expire(c) PROVE ClaimsInv'
  <2>1. c \in DOMAIN claims /\ claims' = [claims EXCEPT ![c] = [claims[c] EXCEPT !.due = TRUE]]
        /\ UNCHANGED NoShow!trip
    BY <1>5 DEF NoShow!Expire
  <2>2. LET row == [claims[c] EXCEPT !.due = TRUE] IN
        /\ row \in Claim /\ row.status = claims[c].status /\ row.kind = claims[c].kind
        /\ row.booking = claims[c].booking
    BY <1>t, <2>1 DEF Claim
  <2>3. claims' \in [DOMAIN claims -> Claim]
    BY <1>t, <2>1, <2>2, ClaimsTyped
  <2>4. \A d \in DOMAIN claims : /\ claims'[d].status = claims[d].status
                                 /\ claims'[d].kind = claims[d].kind
                                 /\ claims'[d].booking = claims[d].booking
    BY <1>t, <2>1, <2>2, ClaimsTyped
  <2> QED BY <2>1, <2>3, <2>4, MarkingKeepsClaimsInv
<1>6. ASSUME NEW c, NoShow!FinishEffect(c) PROVE ClaimsInv'
  <2>1. c \in DOMAIN claims /\ claims' = [claims EXCEPT ![c] = [claims[c] EXCEPT !.ticket = TRUE]]
        /\ UNCHANGED NoShow!trip
    BY <1>6 DEF NoShow!FinishEffect
  <2>2. LET row == [claims[c] EXCEPT !.ticket = TRUE] IN
        /\ row \in Claim /\ row.status = claims[c].status /\ row.kind = claims[c].kind
        /\ row.booking = claims[c].booking
    BY <1>t, <2>1 DEF Claim
  <2>3. claims' \in [DOMAIN claims -> Claim]
    BY <1>t, <2>1, <2>2, ClaimsTyped
  <2>4. \A d \in DOMAIN claims : /\ claims'[d].status = claims[d].status
                                 /\ claims'[d].kind = claims[d].kind
                                 /\ claims'[d].booking = claims[d].booking
    BY <1>t, <2>1, <2>2, ClaimsTyped
  <2> QED BY <2>1, <2>3, <2>4, MarkingKeepsClaimsInv
<1>7. ASSUME NEW c, NoShow!OpenTicket(c) \/ NoShow!FailEffect(c) \/ NoShow!LoseEffect(c)
      PROVE  ClaimsInv'
  BY <1>1, <1>7 DEF NoShow!OpenTicket, NoShow!FailEffect, NoShow!LoseEffect
<1>8. ASSUME NEW w \in Workers, NoShow!Poll(w) \/ NoShow!Fault(w) PROVE ClaimsInv'
  BY <1>1, <1>8 DEF NoShow!Poll, NoShow!Fault
<1>9. ASSUME NEW w \in Workers, NoShow!SettleNext(w) PROVE ClaimsInv'
  <2>1. Head(queue[w]) \in DOMAIN claims
    BY <1>9 DEF NoShow!SettleNext
  <2>2. CASE NoShow!Approve(Head(queue[w]))
    BY <2>1, <2>2, ApproveKeepsClaimsInv
  <2> QED BY <1>1, <1>9, <2>2 DEF NoShow!SettleNext
<1>10. CASE UNCHANGED <<ride, bookings, claims>>
  BY <1>1, <1>10 DEF NoShow!trip
<1> QED BY <1>2, <1>3, <1>4, <1>5, <1>6, <1>7, <1>8, <1>9, <1>10 DEF NoShow!Next, NoShow!RunEffect,
NoShow!Work

LEMMA VerdictsAreBorne == ClaimsInv => NoShow!VerdictsFit
<1> SUFFICES ASSUME ClaimsInv, NEW c \in DOMAIN claims
             PROVE  /\ claims[c].status = "APPROVED" =>
                         LET row == bookings[claims[c].booking] IN
                         IF claims[c].kind = "DRIVER"
                         THEN ride.status = "CANCELLED" /\ ride.reason = "DRIVER_NO_SHOW" /\ ~row.picked
                         ELSE row.status = "CANCELLED" /\ row.reason = "RIDER_NO_SHOW" /\ ~row.picked
                    /\ \A d \in NoShow!About(claims[c].kind, claims[c].booking) \ {c} :
                         {claims[c].status, claims[d].status} \notin {{"PENDING"}, {"APPROVED"}}
  BY DEF NoShow!VerdictsFit
<1>1. Borne(c) /\ claims[c].kind \in {"DRIVER", "PASSENGER"}
  BY ClaimsTyped DEF ClaimsInv
<1>2. ASSUME NEW d \in NoShow!About(claims[c].kind, claims[c].booking) \ {c}
      PROVE  {claims[c].status, claims[d].status} \notin {{"PENDING"}, {"APPROVED"}}
  <2>1. d \in DOMAIN claims /\ c # d /\ Apart(c, d) /\ SameNoShow(c, d)
    BY DEF NoShow!About, ClaimsInv, SameNoShow
  <2> QED BY <2>1 DEF Apart
<1> QED BY <1>1, <1>2 DEF Borne

-----------------------------------------------------------------------------
(* Invoices and their numbers.                                             *)

\* The parts count alike.
LEMMA CountsAgree ==
  \A S : /\ Invoicing!Cardinality(S) = Cardinality(S)
         /\ Taxes!Cardinality(S) = Cardinality(S) /\ Taxes!IsFiniteSet(S) = IsFiniteSet(S)
BY DEF Invoicing!Cardinality, Taxes!Cardinality, Cardinality, Taxes!IsFiniteSet, IsFiniteSet

JobRow == [status : {"NONE", "PENDING", "PROCESSING", "FAILED", "ISSUED"}, attempts : Nat,
           retry : BOOLEAN]

Run == [phase : {"read", "claimed", "unnumbered", "numbered", "issued"}, booking : Bookings,
        number : Nat, attempts : Nat, retry : BOOLEAN]

Invoiced == {b \in Bookings : invoices[b] # 0}

JobTypes ==
  /\ last \in Nat /\ invoices \in [Bookings -> Nat]
  /\ jobs \in [Bookings -> JobRow] /\ runs \in [Invoicing!Handlers -> {Invoicing!Resting} \cup Run]

\* The lock of the sequence row: one transaction at a time has a number, the next.
SequenceHeld ==
  \A h \in Invoicing!Handlers : runs[h].phase = "numbered" =>
    /\ runs[h].number = last + 1
    /\ \A g \in Invoicing!Handlers : runs[g].phase = "numbered" => g = h

JobsInv == JobTypes /\ SequenceHeld /\ IsFiniteSet(Invoiced) /\ Invoicing!NumbersAreGapless

LEMMA InitJobsInv == Invoicing!Init => JobsInv
<1> SUFFICES ASSUME Invoicing!Init PROVE JobsInv
  OBVIOUS
<1>1. JobTypes
  BY DEF Invoicing!Init, JobTypes, JobRow
<1>2. SequenceHeld
  BY DEF Invoicing!Init, SequenceHeld, Invoicing!Resting
<1>3. Invoiced = {} /\ last = 0
  BY DEF Invoicing!Init, Invoiced
<1>4. IsFiniteSet(Invoiced) /\ Cardinality(Invoiced) = 0
  BY <1>3, FS_EmptySet
<1>5. {invoices[b] : b \in Bookings} \ {0} = 1..last
  BY DEF Invoicing!Init
<1> QED BY <1>1, <1>2, <1>3, <1>4, <1>5, CountsAgree
        DEF JobsInv, Invoicing!NumbersAreGapless, Invoiced

\* A handler at work has a row, its copy of a job.
LEMMA WorkIsARun ==
  ASSUME JobTypes, NEW h \in Invoicing!Handlers, runs[h].phase # "idle"
  PROVE  runs[h] \in Run
BY DEF JobTypes, Invoicing!Resting

\* Steps that number and insert nothing: a handler reads, moves on or ends.
LEMMA RunningKeepsJobsInv ==
  ASSUME JobsInv, JobTypes', UNCHANGED <<invoices, last>>,
         \A h \in Invoicing!Handlers : runs'[h].phase = "numbered" => runs'[h] = runs[h]
  PROVE  JobsInv'
<1>1. SequenceHeld'
  BY DEF JobsInv, SequenceHeld
<1>2. Invoiced' = Invoiced /\ (Invoicing!NumbersAreGapless <=> Invoicing!NumbersAreGapless')
  BY DEF Invoiced, Invoicing!NumbersAreGapless
<1> QED BY <1>1, <1>2 DEF JobsInv

\* A handler that moves on without a number.
LEMMA AdvanceKeepsJobsInv ==
  ASSUME JobsInv, NEW h \in Invoicing!Handlers, runs[h].phase # "idle",
         NEW phase \in {"claimed", "unnumbered", "issued"}, Invoicing!Advance(h, phase),
         jobs' \in [Bookings -> JobRow], UNCHANGED <<invoices, last>>
  PROVE  JobsInv'
<1>1. runs[h] \in Run /\ JobTypes
  BY WorkIsARun DEF JobsInv
<1>2. runs' = [runs EXCEPT ![h] = [runs[h] EXCEPT !.phase = phase]]
  BY DEF Invoicing!Advance
<1>3. [runs[h] EXCEPT !.phase = phase] \in Run /\ [runs[h] EXCEPT !.phase = phase].phase = phase
  BY <1>1 DEF Run
<1>4. JobTypes'
  BY <1>1, <1>2, <1>3 DEF JobTypes
<1>5. \A g \in Invoicing!Handlers : runs'[g].phase = "numbered" => runs'[g] = runs[g]
  BY <1>1, <1>2, <1>3 DEF JobTypes
<1> QED BY <1>4, <1>5, RunningKeepsJobsInv

\* A copy that is saved is a row again.
LEMMA SavingKeepsRows ==
  ASSUME JobTypes, NEW h \in Invoicing!Handlers, runs[h].phase # "idle",
         NEW outcome \in {"PENDING", "PROCESSING", "FAILED", "ISSUED"}, NEW retry \in BOOLEAN
  PROVE  Invoicing!Saved(h, outcome, retry) \in [Bookings -> JobRow]
<1>1. runs[h] \in Run
  BY WorkIsARun
<1> QED BY <1>1 DEF Invoicing!Saved, JobTypes, Run, JobRow

\* A handler that ends.
LEMMA FinishKeepsJobsInv ==
  ASSUME JobsInv, NEW h \in Invoicing!Handlers, Invoicing!Finish(h), jobs' \in [Bookings -> JobRow],
         UNCHANGED <<invoices, last>>
  PROVE  JobsInv'
<1>1. JobTypes'
  BY DEF JobsInv, JobTypes, Invoicing!Finish
<1>2. \A g \in Invoicing!Handlers : runs'[g].phase = "numbered" => runs'[g] = runs[g]
  BY DEF JobsInv, JobTypes, Invoicing!Finish, Invoicing!Resting
<1> QED BY <1>1, <1>2, RunningKeepsJobsInv

LEMMA GivingBackKeepsJobsInv ==
  ASSUME JobsInv, NEW h \in Invoicing!Handlers, runs[h].phase # "idle", Invoicing!GiveBack(h)
  PROVE  JobsInv'
<1> DEFINE outcome == IF runs[h].attempts >= MaxAttempts THEN "FAILED" ELSE "PENDING"
<1>1. /\ jobs' = Invoicing!Saved(h, outcome, TRUE) /\ Invoicing!Finish(h)
      /\ UNCHANGED <<invoices, last>>
  BY DEF Invoicing!GiveBack
<1>2. Invoicing!Saved(h, outcome, TRUE) \in [Bookings -> JobRow]
  BY SavingKeepsRows DEF JobsInv
<1> QED BY <1>1, <1>2, FinishKeepsJobsInv

\* The next number while nobody else has one.
LEMMA NumberingKeepsJobsInv ==
  ASSUME JobsInv, NEW h \in Invoicing!Handlers, Invoicing!TakeNumber(h)
  PROVE  JobsInv'
<1> DEFINE numbered == [runs[h] EXCEPT !.phase = "numbered", !.number = last + 1]
<1>1. runs[h] \in Run /\ JobTypes
  BY WorkIsARun DEF JobsInv, Invoicing!TakeNumber
<1>2. runs' = [runs EXCEPT ![h] = numbered] /\ UNCHANGED <<jobs, invoices, last>>
  BY DEF Invoicing!TakeNumber, Invoicing!nextInvoiceNumber
<1>3. numbered \in Run /\ numbered.number = last + 1
  <2>1. last + 1 \in Nat
    BY <1>1 DEF JobTypes
  <2> QED BY <1>1, <2>1 DEF Run
<1> HIDE DEF numbered
<1>4. \A g \in Invoicing!Handlers \ {h} : runs'[g].phase # "numbered"
  BY <1>1, <1>2 DEF Invoicing!TakeNumber, Invoicing!nextInvoiceNumber, Invoicing!SequenceFree,
     JobTypes
<1>5. SequenceHeld'
  <2>1. ASSUME NEW g \in Invoicing!Handlers, runs'[g].phase = "numbered"
        PROVE  g = h
    BY <1>4, <2>1
  <2>2. runs'[h].number = last' + 1
    BY <1>1, <1>2, <1>3 DEF JobTypes
  <2> QED BY <2>1, <2>2 DEF SequenceHeld
<1>6. JobTypes'
  BY <1>1, <1>2, <1>3 DEF JobTypes
<1>7. Invoiced' = Invoiced /\ (Invoicing!NumbersAreGapless <=> Invoicing!NumbersAreGapless')
  BY <1>2 DEF Invoiced, Invoicing!NumbersAreGapless
<1> QED BY <1>5, <1>6, <1>7 DEF JobsInv

\* The invoice is inserted: its booking had none and gets the next number.
LEMMA InsertKeepsJobsInv ==
  ASSUME JobsInv, NEW h \in Invoicing!Handlers, Invoicing!Insert(h)
  PROVE  JobsInv'
<1> DEFINE b == runs[h].booking
<1>1. runs[h] \in Run /\ JobTypes /\ b \in Bookings
  BY WorkIsARun DEF JobsInv, Invoicing!Insert, Run
<1>2. /\ runs[h].number = last + 1 /\ last \in Nat
      /\ \A g \in Invoicing!Handlers \ {h} : runs[g].phase # "numbered"
  BY DEF JobsInv, JobTypes, SequenceHeld, Invoicing!Insert
<1>3. /\ invoices' = [invoices EXCEPT ![b] = last + 1] /\ invoices[b] = 0
      /\ last' = last + 1 /\ UNCHANGED jobs
      /\ runs' = [runs EXCEPT ![h] = [runs[h] EXCEPT !.phase = "issued"]]
  BY <1>2 DEF Invoicing!Insert, Invoicing!Advance
<1>4. [runs[h] EXCEPT !.phase = "issued"] \in Run
  BY <1>1 DEF Run
<1> HIDE DEF b
<1>5. JobTypes'
  BY <1>1, <1>2, <1>3, <1>4 DEF JobTypes
<1>6. \A g \in Invoicing!Handlers : runs'[g].phase # "numbered"
  <2>1. [runs[h] EXCEPT !.phase = "issued"].phase = "issued"
    BY <1>1 DEF Run
  <2> QED BY <1>1, <1>2, <1>3, <2>1 DEF JobTypes
<1>7. Invoiced' = Invoiced \cup {b} /\ b \notin Invoiced
  BY <1>1, <1>2, <1>3 DEF Invoiced, JobTypes
<1>8. IsFiniteSet(Invoiced) /\ Cardinality(Invoiced) = last
  BY CountsAgree DEF JobsInv, Invoicing!NumbersAreGapless, Invoiced
<1>9. IsFiniteSet(Invoiced') /\ Cardinality(Invoiced') = last'
  BY <1>3, <1>7, <1>8, FS_AddElement
<1>10. {invoices'[d] : d \in Bookings} \ {0} = 1..last'
  <2>1. {invoices[d] : d \in Bookings} \ {0} = 1..last
    BY DEF JobsInv, Invoicing!NumbersAreGapless
  <2>2. \A d \in Bookings : invoices'[d] = IF d = b THEN last + 1 ELSE invoices[d]
    BY <1>1, <1>3 DEF JobTypes
  <2>3. {invoices'[d] : d \in Bookings} \ {0} = ({invoices[d] : d \in Bookings} \ {0}) \cup {last + 1}
    BY <1>1, <1>2, <1>3, <2>2
  <2>4. 1..(last + 1) = (1..last) \cup {last + 1}
    BY <1>2
  <2> QED BY <1>3, <2>1, <2>3, <2>4
<1> QED BY <1>5, <1>6, <1>9, <1>10, CountsAgree
        DEF JobsInv, SequenceHeld, Invoicing!NumbersAreGapless, Invoiced

\* One case per action.  Faults are counted apart: other work counts them too.
LEMMA StepKeepsJobsInv ==
  JobsInv /\ (Invoicing!Next \/ UNCHANGED <<jobs, invoices, last, runs>>) => JobsInv'
<1> SUFFICES ASSUME JobsInv, Invoicing!Next \/ UNCHANGED <<jobs, invoices, last, runs>> PROVE JobsInv'
  OBVIOUS
<1>t. JobTypes
  BY DEF JobsInv
<1>1. CASE UNCHANGED <<jobs, invoices, last, runs>>
  BY <1>1, <1>t, RunningKeepsJobsInv DEF JobTypes
<1>2. ASSUME NEW b \in Bookings, Invoicing!enqueueJob(b) PROVE JobsInv'
  BY <1>2, <1>t, RunningKeepsJobsInv DEF JobTypes, Invoicing!enqueueJob, JobRow
<1>3. ASSUME NEW b \in Bookings, NEW h \in Invoicing!Handlers, Invoicing!Read(h, b) PROVE JobsInv'
  <2> DEFINE copy == [phase |-> "read", booking |-> b, number |-> 0,
                      attempts |-> Invoicing!Incremented(jobs[b].attempts), retry |-> jobs[b].retry]
  <2>1. runs' = [runs EXCEPT ![h] = copy] /\ UNCHANGED <<jobs, invoices, last>>
    BY <1>3 DEF Invoicing!Read
  <2>2. copy \in Run /\ copy.phase # "numbered"
    BY <1>t DEF Run, Invoicing!Incremented, JobTypes, JobRow
  <2> HIDE DEF copy
  <2>3. JobTypes'
    BY <1>t, <2>1, <2>2 DEF JobTypes
  <2>4. \A g \in Invoicing!Handlers : runs'[g].phase = "numbered" => runs'[g] = runs[g]
    BY <1>t, <2>1, <2>2 DEF JobTypes
  <2> QED BY <2>1, <2>3, <2>4, RunningKeepsJobsInv
<1>4. ASSUME NEW h \in Invoicing!Handlers, Invoicing!Claim(h) PROVE JobsInv'
  <2>1. runs[h].phase # "idle" /\ runs[h].retry \in BOOLEAN
    BY <1>4, <1>t, WorkIsARun DEF Invoicing!Claim, Run
  <2>2. jobs' \in [Bookings -> JobRow]
    BY <1>4, <1>t, <2>1, SavingKeepsRows DEF Invoicing!Claim
  <2> QED BY <1>4, <2>1, <2>2, AdvanceKeepsJobsInv DEF Invoicing!Claim
<1>5. ASSUME NEW h \in Invoicing!Handlers, Invoicing!FindExisting(h) PROVE JobsInv'
  <2>1. jobs' \in [Bookings -> JobRow]
    BY <1>5, <1>t DEF Invoicing!FindExisting, JobTypes
  <2> QED BY <1>5, <2>1, AdvanceKeepsJobsInv DEF Invoicing!FindExisting
<1>6. ASSUME NEW h \in Invoicing!Handlers, Invoicing!TakeNumber(h) PROVE JobsInv'
  BY <1>6, NumberingKeepsJobsInv
<1>7. ASSUME NEW h \in Invoicing!Handlers, Invoicing!Insert(h) PROVE JobsInv'
  BY <1>7, InsertKeepsJobsInv
<1>8. ASSUME NEW h \in Invoicing!Handlers, Invoicing!LoseRace(h) \/ Invoicing!FailIssue(h)
      PROVE  JobsInv'
  BY <1>8, GivingBackKeepsJobsInv DEF Invoicing!LoseRace, Invoicing!FailIssue
<1>9. ASSUME NEW h \in Invoicing!Handlers, Invoicing!SaveIssued(h) PROVE JobsInv'
  <2>1. jobs' \in [Bookings -> JobRow]
    BY <1>9, <1>t, SavingKeepsRows DEF Invoicing!SaveIssued
  <2> QED BY <1>9, <2>1, FinishKeepsJobsInv DEF Invoicing!SaveIssued
<1>10. CASE Invoicing!Crash
  <2>1. /\ runs' = [h \in Invoicing!Handlers |-> Invoicing!Resting]
        /\ UNCHANGED <<jobs, invoices, last>>
    BY <1>10 DEF Invoicing!Crash
  <2>2. JobTypes'
    BY <1>t, <2>1 DEF JobTypes
  <2> QED BY <2>1, <2>2, RunningKeepsJobsInv DEF Invoicing!Resting
<1> QED BY <1>1, <1>2, <1>3, <1>4, <1>5, <1>6, <1>7, <1>8, <1>9, <1>10
        DEF Invoicing!Next, Invoicing!processDue, Invoicing!processJobsForBookings,
            Invoicing!processJob, Invoicing!Handlers

-----------------------------------------------------------------------------
(* Notifications.                                                          *)

\* What a delivery may have come to.
Phases == {"idle", "sending", "absent", "skipped", "sent", "failed", "invalid"}

\* A message counts as one too many only between its sending and its saving: what
\* is in flight is pending or has failed, and what is so and not just sent came
\* out no more often than the process stopped.
OutboxInv ==
  /\ crashes \in Nat
  /\ tries \in [Outbox!Channels -> Nat] /\ sent \in [Outbox!Channels -> Nat]
  /\ flight \in [Outbox!Channels -> Phases]
  /\ status \in [Outbox!Channels -> {"NONE", "PENDING", "SENT", "FAILED", "SKIPPED"}]
  /\ event = "none" => status["push"] = "NONE"
  /\ \A c \in Outbox!Channels :
       /\ flight[c] # "idle" => status[c] \in {"PENDING", "FAILED"}
       /\ sent[c] <= 1 + crashes
       /\ status[c] \in {"NONE", "PENDING", "FAILED"} /\ flight[c] # "sent" => sent[c] <= crashes

LEMMA InitOutboxInv == Outbox!Init => OutboxInv
BY DEF Outbox!Init, OutboxInv, Outbox!Channels, Phases

\* One case per action.
LEMMA StepKeepsOutboxInv == OutboxInv /\ [Outbox!Next]_(Outbox!vars) => OutboxInv'
<1> SUFFICES ASSUME OutboxInv, [Outbox!Next]_(Outbox!vars) PROVE OutboxInv'
  OBVIOUS
<1> USE DEF OutboxInv
<1>1. CASE UNCHANGED Outbox!vars
  BY <1>1 DEF Outbox!vars
<1>2. CASE Outbox!Enqueue
  BY <1>2 DEF Outbox!Enqueue, Outbox!Channels
<1>3. CASE Outbox!EnqueueAgain
  BY <1>3 DEF Outbox!EnqueueAgain
<1>4. CASE Outbox!EndTransaction
  BY <1>4 DEF Outbox!EndTransaction
<1>5. CASE Outbox!ensureDeliveryQueued
  BY <1>5 DEF Outbox!ensureDeliveryQueued, Outbox!Channels
<1>6. CASE Outbox!OlderMailIsGivenUp
  BY <1>6 DEF Outbox!OlderMailIsGivenUp
<1>7. CASE Outbox!Crash
  <2>1. crashes' = crashes + 1 /\ UNCHANGED <<status, tries, sent>>
        /\ flight' = [c \in Outbox!Channels |-> "idle"] /\ (event' = "none" => event = "none")
    BY <1>7 DEF Outbox!Crash
  <2>2. \A c \in Outbox!Channels : sent'[c] <= crashes'
    BY <2>1
  <2>3. flight' \in [Outbox!Channels -> Phases] /\ \A c \in Outbox!Channels : flight'[c] = "idle"
    BY <2>1 DEF Phases
  <2>4. \A c \in Outbox!Channels : sent'[c] <= 1 + crashes'
    BY <2>1
  <2> QED BY <2>1, <2>2, <2>3, <2>4
<1>8. ASSUME NEW c \in Outbox!Channels, Outbox!Deliver(c) \/ Outbox!DeliverAtOnce(c)
      PROVE  OutboxInv'
  <2>1. UNCHANGED <<event, tries, status, sent, crashes>>
    BY <1>8 DEF Outbox!Deliver, Outbox!DeliverAtOnce
  <2>2. CASE UNCHANGED flight
    BY <2>1, <2>2
  <2>3. ASSUME NEW phase \in Phases \ {"sent"}, flight' = [flight EXCEPT ![c] = phase],
               flight[c] = "idle", status[c] \in {"PENDING", "FAILED"}
        PROVE  OutboxInv'
    BY <2>1, <2>3
  <2>4. Outbox!Found(c) \subseteq Phases \ {"sent"}
    BY DEF Outbox!Found, Phases
  <2>5. CASE Outbox!Deliver(c)
    BY <2>3, <2>4, <2>5 DEF Outbox!Deliver, Outbox!Start, Outbox!NotInFlight,
       Outbox!PushIsPolled, Outbox!MailIsPolled, Outbox!Channels
  <2>6. CASE Outbox!DeliverAtOnce(c)
    BY <2>2, <2>3, <2>4, <2>6 DEF Outbox!DeliverAtOnce, Outbox!Start, Outbox!NotInFlight,
       Outbox!Deliverable
  <2> QED BY <1>8, <2>5, <2>6
<1>9. ASSUME NEW c \in Outbox!Channels, Outbox!Send(c) PROVE OutboxInv'
  <2>1. status[c] \in {"PENDING", "FAILED"} /\ sent[c] <= crashes
    BY <1>9 DEF Outbox!Send
  <2>2. UNCHANGED <<event, tries, status, crashes>>
    BY <1>9 DEF Outbox!Send
  <2>3. CASE flight' = [flight EXCEPT ![c] = "sent"] /\ sent' = [sent EXCEPT ![c] = @ + 1]
    <3>1. sent[c] + 1 \in Nat
      OBVIOUS
    <3>2. sent' \in [Outbox!Channels -> Nat] /\ flight' \in [Outbox!Channels -> Phases]
      BY <2>3, <3>1 DEF Phases
    <3>3. ASSUME NEW d \in Outbox!Channels PROVE sent'[d] <= 1 + crashes
      BY <2>1, <2>3
    <3>4. ASSUME NEW d \in Outbox!Channels, flight'[d] # "idle"
          PROVE  status[d] \in {"PENDING", "FAILED"}
      BY <2>1, <2>3, <3>4
    <3>5. ASSUME NEW d \in Outbox!Channels, status[d] \in {"NONE", "PENDING", "FAILED"},
                 flight'[d] # "sent"
          PROVE  sent'[d] <= crashes
      BY <2>3, <3>5
    <3> QED BY <2>2, <3>2, <3>3, <3>4, <3>5
  <2>4. ASSUME NEW phase \in {"failed", "invalid"},
               flight' = [flight EXCEPT ![c] = phase], UNCHANGED sent
        PROVE  OutboxInv'
    BY <2>1, <2>2, <2>4 DEF Phases
  <2> QED BY <1>9, <2>3, <2>4 DEF Outbox!Send
<1>10. ASSUME NEW c \in Outbox!Channels, Outbox!Save(c) PROVE OutboxInv'
  <2> DEFINE n == IF flight[c] = "skipped" THEN tries[c] ELSE tries[c] + 1
             outcome == Outbox!Outcome(c, n)
  <2>1. n \in Nat
    OBVIOUS
  <2>2. status[c] \in {"PENDING", "FAILED"} /\ (event = "none" => c # "push")
    BY <1>10 DEF Outbox!Save
  <2>3. /\ status' = [status EXCEPT ![c] = outcome]
        /\ tries' = [tries EXCEPT ![c] = n] /\ flight' = [flight EXCEPT ![c] = "idle"]
        /\ UNCHANGED <<event, sent, crashes>>
    BY <1>10 DEF Outbox!Save
  <2>4. /\ outcome \in {"PENDING", "SENT", "FAILED", "SKIPPED"}
        /\ flight[c] = "sent" => outcome = "SENT"
    BY <1>10 DEF Outbox!Outcome, Outbox!Save
  <2> HIDE DEF n, outcome
  <2>5. "push" \in Outbox!Channels
    BY DEF Outbox!Channels
  <2> QED BY <2>1, <2>2, <2>3, <2>4, <2>5 DEF Phases
<1> QED BY <1>1, <1>2, <1>3, <1>4, <1>5, <1>6, <1>7, <1>8, <1>9, <1>10 DEF Outbox!Next, Outbox!Work

LEMMA OutboxSends == OutboxInv => Outbox!SentOncePerRun
BY DEF OutboxInv, Outbox!SentOncePerRun

-----------------------------------------------------------------------------
(* The tax on an invoice.                                                  *)

\* Division by a positive number and its remainder.
LEMMA DivBounds ==
  ASSUME NEW n \in Nat, NEW d \in Nat \ {0}
  PROVE  /\ n \div d \in Nat
         /\ d * (n \div d) <= n /\ n < d * (n \div d) + d
OBVIOUS

\* invoice-tax.math.ts: a quotient rounded to the nearest whole number.
LEMMA RoundsToNearest ==
  ASSUME NEW n \in Nat, NEW d \in Nat \ {0}
  PROVE  /\ Taxes!RoundPaiseHalfUp(n, d) \in Nat
         /\ 2 * (n - d * Taxes!RoundPaiseHalfUp(n, d)) \in -d .. d
<1> DEFINE m == 2 * n + d  e == 2 * d  q == m \div e
<1>1. m \in Nat /\ e \in Nat \ {0}
  OBVIOUS
<1>2. q \in Nat /\ e * q <= m /\ m < e * q + e
  <2> HIDE DEF m, e
  <2> QED BY <1>1, DivBounds
<1>3. e * q = 2 * (d * q)
  <2> HIDE DEF q
  <2> QED BY <1>2
<1>4. d * q \in Nat
  <2> HIDE DEF q
  <2> QED BY <1>2
<1>5. 2 * (d * q) <= 2 * n + d /\ 2 * n + d < 2 * (d * q) + 2 * d
  BY <1>2, <1>3
<1> HIDE DEF q
<1>6. 2 * (n - d * q) \in -d .. d
  BY <1>4, <1>5
<1> QED BY <1>2, <1>6 DEF Taxes!RoundPaiseHalfUp, q

\* Half of a tax and the other half.
LEMMA HalvesAddUp ==
  ASSUME NEW tax \in Nat
  PROVE  tax \div 2 \in Nat /\ (tax - tax \div 2) - tax \div 2 \in {0, 1}
BY DivBounds

\* invoice-tax.math.ts, calculateInvoiceTax: what an inclusive price contains.
LEMMA TaxableFitsIn ==
  ASSUME NEW paid \in Nat, NEW rate \in Nat
  PROVE  /\ Taxes!TaxableValue(paid, rate) \in 0..paid
         /\ 2 * ((paid - Taxes!TaxableValue(paid, rate)) * Taxes!BasisPoints - Taxes!TaxableValue(paid, rate) * rate)
              \in -(Taxes!BasisPoints + rate) .. Taxes!BasisPoints + rate
<1> DEFINE d == Taxes!BasisPoints + rate  t == Taxes!TaxableValue(paid, rate)
<1>1. d \in Nat \ {0} /\ paid * Taxes!BasisPoints \in Nat
  BY DEF Taxes!BasisPoints
<1>2. t \in Nat /\ 2 * (paid * Taxes!BasisPoints - d * t) \in -d .. d
  <2> HIDE DEF d
  <2>1. t = Taxes!RoundPaiseHalfUp(paid * Taxes!BasisPoints, d)
    BY DEF Taxes!TaxableValue, d
  <2> HIDE DEF t
  <2> QED BY <1>1, <2>1, RoundsToNearest
<1> HIDE DEF t
<1>3. d * t = Taxes!BasisPoints * t + t * rate /\ t * rate \in Nat
  BY <1>2 DEF Taxes!BasisPoints
<1>4. paid * Taxes!BasisPoints - d * t = (paid - t) * Taxes!BasisPoints - t * rate
  BY <1>2, <1>3 DEF Taxes!BasisPoints
<1>5. t <= paid
  <2> SUFFICES ASSUME t >= paid + 1 PROVE FALSE
    BY <1>2
  <2>1. t * rate >= (paid + 1) * rate
    BY <1>2
  <2>2. (paid + 1) * rate >= rate
    OBVIOUS
  <2>3. (paid - t) * Taxes!BasisPoints - t * rate <= -Taxes!BasisPoints - rate
    BY <1>2, <1>3, <2>1, <2>2 DEF Taxes!BasisPoints
  <2> QED BY <1>2, <1>3, <1>4, <2>3 DEF Taxes!BasisPoints
<1> QED BY <1>2, <1>4, <1>5 DEF t

Active(i) == rule[i].status = "ACTIVE"

Untangled ==
  /\ \A i, j \in Ids : i # j /\ Active(i) /\ Active(j) => ~Taxes!Overlaps(rule[i], rule[j])
  /\ \A a \in TaxAdmins : editing[a] # <<>> => Taxes!AssertNoOverlap(editing[a][1], editing[a][2])

\* One administrator keeps active rules apart: what is about to be saved was
\* compared with rules that have not changed since.
TaxInv ==
  /\ clock \in Int
  /\ rule \in [Ids -> {Taxes!NoRule} \cup TaxRows]
  /\ editing \in [TaxAdmins -> {<<>>} \cup Ids \X TaxRows]
  /\ Cardinality(TaxAdmins) = 1 => Untangled
  /\ Taxes!InvoiceFitsRule

LEMMA InitTaxInv == Taxes!Init => TaxInv
BY DEF Taxes!Init, TaxInv, Untangled, Active, Taxes!NoRule, Taxes!InvoiceFitsRule

\* An edit is compared with the rules as they are.
LEMMA EditKeepsTaxInv ==
  ASSUME TaxInv, NEW a \in TaxAdmins, NEW i \in Ids, NEW row \in TaxRows, Taxes!Edit(a, i, row)
  PROVE  TaxInv'
<1>1. editing' = [editing EXCEPT ![a] = <<i, row>>] /\ UNCHANGED <<rule, clock, invoice>>
  BY DEF Taxes!Edit
<1>2. editing' \in [TaxAdmins -> {<<>>} \cup Ids \X TaxRows]
  BY <1>1 DEF TaxInv
<1>3. Taxes!InvoiceFitsRule'
  BY <1>1 DEF TaxInv, Taxes!InvoiceFitsRule, Taxes!AddsUp
<1>4. ASSUME Untangled PROVE Untangled'
  <2>1. ASSUME NEW b \in TaxAdmins, editing'[b] # <<>>
        PROVE  Taxes!AssertNoOverlap(editing'[b][1], editing'[b][2])
    <3>1. CASE b = a
      BY <1>1, <3>1 DEF TaxInv, Taxes!Edit
    <3>2. CASE b # a
      BY <1>1, <1>4, <2>1, <3>2 DEF TaxInv, Untangled
    <3> QED BY <3>1, <3>2
  <2> QED BY <1>1, <1>4, <2>1 DEF Untangled, Active, Taxes!AssertNoOverlap
<1> QED BY <1>1, <1>2, <1>3, <1>4 DEF TaxInv

\* The only administrator saves: nothing moved since the comparison.
LEMMA SaveKeepsTaxInv ==
  ASSUME TaxInv, IsFiniteSet(TaxAdmins), NEW a \in TaxAdmins, Taxes!SaveTaxConfig(a)
  PROVE  TaxInv'
<1> DEFINE i == editing[a][1]  row == editing[a][2]
<1>1. /\ editing' = [editing EXCEPT ![a] = <<>>] /\ rule' = [rule EXCEPT ![i] = row]
      /\ UNCHANGED <<clock, invoice>>
  BY DEF Taxes!SaveTaxConfig
<1>2. i \in Ids /\ row \in TaxRows
  BY DEF Taxes!SaveTaxConfig, TaxInv
<1>3. /\ rule' \in [Ids -> {Taxes!NoRule} \cup TaxRows]
      /\ editing' \in [TaxAdmins -> {<<>>} \cup Ids \X TaxRows]
  <2> HIDE DEF i, row
  <2> QED BY <1>1, <1>2 DEF TaxInv
<1>4. Taxes!InvoiceFitsRule'
  BY <1>1 DEF TaxInv, Taxes!InvoiceFitsRule, Taxes!AddsUp
<1>5. ASSUME Cardinality(TaxAdmins) = 1, Untangled PROVE Untangled'
  <2>1. PICK b : TaxAdmins = {b}
    BY <1>5, FS_Singleton
  <2>2. \A e \in TaxAdmins : editing'[e] = <<>>
    BY <1>1, <2>1 DEF TaxInv
  <2>3. Taxes!AssertNoOverlap(i, row)
    BY <1>5 DEF Untangled, Taxes!SaveTaxConfig
  <2> HIDE DEF i, row
  <2>4. ASSUME NEW j \in Ids, NEW k \in Ids, j # k,
               rule'[j].status = "ACTIVE", rule'[k].status = "ACTIVE"
        PROVE  ~Taxes!Overlaps(rule'[j], rule'[k])
    <3>1. CASE j = i
      BY <1>1, <1>2, <2>3, <2>4, <3>1 DEF TaxInv, Taxes!AssertNoOverlap
    <3>2. CASE k = i
      <4>1. ~Taxes!Overlaps(row, rule[j])
        BY <1>1, <1>2, <2>3, <2>4, <3>2 DEF TaxInv, Taxes!AssertNoOverlap
      <4> QED BY <1>1, <1>2, <2>4, <3>2, <4>1 DEF TaxInv, Taxes!Overlaps
    <3>3. CASE j # i /\ k # i
      BY <1>1, <1>2, <1>5, <2>4, <3>3 DEF TaxInv, Untangled, Active
    <3> QED BY <3>1, <3>2, <3>3
  <2> QED BY <2>2, <2>4 DEF Untangled, Active
<1> QED BY <1>1, <1>3, <1>4, <1>5 DEF TaxInv

\* invoice-tax.math.ts: an invoice without tax, with tax in the price, on top of it.
LEMMA UntaxedAddsUp ==
  ASSUME NEW paid \in Nat
  PROVE  /\ Taxes!AddsUp(Taxes!UntaxedInvoiceResult(paid)) /\ Taxes!UntaxedInvoiceResult(paid).tax = 0
         /\ Taxes!UntaxedInvoiceResult(paid).total = paid
<1>1. 0 \div 2 = 0
  OBVIOUS
<1> QED BY <1>1 DEF Taxes!AddsUp, Taxes!UntaxedInvoiceResult, Taxes!Amounts

LEMMA SplitAddsUp ==
  ASSUME NEW taxable \in Nat, NEW tax \in Nat, NEW place
  PROVE  Taxes!AddsUp(Taxes!Amounts(taxable, tax, taxable + tax, "CGST_SGST", place))
<1> DEFINE half == tax \div 2
<1>1. half \in Nat /\ (tax - half) - half \in {0, 1}
  BY HalvesAddUp
<1> HIDE DEF half
<1> DEFINE amounts == Taxes!Amounts(taxable, tax, taxable + tax, "CGST_SGST", place)
<1>2. /\ amounts.taxable = taxable /\ amounts.tax = tax /\ amounts.total = taxable + tax
      /\ amounts.cgst = half /\ amounts.sgst = tax - half /\ amounts.igst = 0
  BY DEF Taxes!Amounts, half
<1> HIDE DEF amounts
<1>3. Taxes!AddsUp(amounts)
  BY <1>1, <1>2 DEF Taxes!AddsUp
<1> QED BY <1>3 DEF amounts

LEMMA IncludedTaxFits ==
  ASSUME NEW paid \in Nat, NEW row, row.rate \in Nat, row.mode = "TAX_INCLUSIVE"
  PROVE  LET amounts == Taxes!CalculateInvoiceTax(paid, row) IN
         /\ Taxes!AddsUp(amounts) /\ amounts.total = paid
         /\ 2 * (amounts.tax * Taxes!BasisPoints - amounts.taxable * row.rate)
              \in -(Taxes!BasisPoints + row.rate) .. Taxes!BasisPoints + row.rate
<1> DEFINE t == Taxes!TaxableValue(paid, row.rate)
<1>1. /\ t \in 0..paid
      /\ 2 * ((paid - t) * Taxes!BasisPoints - t * row.rate) \in -(Taxes!BasisPoints + row.rate) .. Taxes!BasisPoints + row.rate
  BY TaxableFitsIn
<1>2. Taxes!CalculateInvoiceTax(paid, row) = Taxes!Amounts(t, paid - t, paid, "CGST_SGST", issuer)
  BY DEF Taxes!CalculateInvoiceTax
<1> HIDE DEF t
<1>3. t \in Nat /\ paid - t \in Nat /\ t + (paid - t) = paid
  BY <1>1
<1>4. Taxes!AddsUp(Taxes!CalculateInvoiceTax(paid, row))
  BY <1>2, <1>3, SplitAddsUp
<1>5. /\ Taxes!CalculateInvoiceTax(paid, row).total = paid
      /\ Taxes!CalculateInvoiceTax(paid, row).taxable = t
      /\ Taxes!CalculateInvoiceTax(paid, row).tax = paid - t
  BY <1>2 DEF Taxes!Amounts
<1> QED BY <1>1, <1>4, <1>5

LEMMA AddedTaxFits ==
  ASSUME NEW paid \in Nat, NEW row, row.rate \in Nat, row.mode # "TAX_INCLUSIVE"
  PROVE  LET amounts == Taxes!CalculateInvoiceTax(paid, row) IN
         /\ Taxes!AddsUp(amounts) /\ amounts.taxable = paid
         /\ 2 * (amounts.tax * Taxes!BasisPoints - amounts.taxable * row.rate) \in -Taxes!BasisPoints .. Taxes!BasisPoints
<1> DEFINE exact == paid * row.rate  t == Taxes!RoundPaiseHalfUp(exact, Taxes!BasisPoints)
<1>1. exact \in Nat /\ Taxes!BasisPoints \in Nat \ {0}
  BY DEF Taxes!BasisPoints
<1>2. t \in Nat /\ 2 * (exact - Taxes!BasisPoints * t) \in -Taxes!BasisPoints .. Taxes!BasisPoints
  <2> HIDE DEF exact
  <2> QED BY <1>1, RoundsToNearest
<1>3. Taxes!CalculateInvoiceTax(paid, row) = Taxes!Amounts(paid, t, paid + t, "CGST_SGST", issuer)
  BY DEF Taxes!CalculateInvoiceTax
<1> HIDE DEF t
<1>4. Taxes!AddsUp(Taxes!CalculateInvoiceTax(paid, row))
  BY <1>2, <1>3, SplitAddsUp
<1>5. /\ Taxes!CalculateInvoiceTax(paid, row).taxable = paid
      /\ Taxes!CalculateInvoiceTax(paid, row).tax = t
  BY <1>3 DEF Taxes!Amounts
<1>6. 2 * (t * Taxes!BasisPoints - exact) \in -Taxes!BasisPoints .. Taxes!BasisPoints
  <2> HIDE DEF exact
  <2>1. Taxes!BasisPoints * t = t * Taxes!BasisPoints /\ t * Taxes!BasisPoints \in Nat
    BY <1>1, <1>2
  <2> QED BY <1>1, <1>2, <2>1
<1> QED BY <1>4, <1>5, <1>6

\* invoice-issuance.service.ts: an invoice keeps the rule it was reckoned with.
LEMMA IssueFitsRule ==
  ASSUME TaxInv, Taxes!Parameters, NEW type \in Types, NEW fare \in Fares, Taxes!IssueForJob(type, fare)
  PROVE  Taxes!InvoiceFitsRule'
<1> DEFINE paid == 100 * fare
           Issued(amounts, row) ==
             [fare |-> paid, total |-> amounts.total, amounts |-> amounts, snapshot |-> row]
<1>1. paid \in Nat
  BY DEF Taxes!Parameters
<1>2. CASE invoice' = Issued(Taxes!UntaxedInvoiceResult(paid), Taxes!NoRule)
  <2> DEFINE amounts == Taxes!UntaxedInvoiceResult(paid)
  <2>1. Taxes!AddsUp(amounts) /\ amounts.tax = 0 /\ amounts.total = paid
    BY <1>1, UntaxedAddsUp
  <2>2. /\ invoice'.snapshot = Taxes!NoRule /\ invoice'.amounts = amounts
        /\ invoice'.total = paid /\ invoice'.fare = paid
    BY <1>2, <2>1
  <2> HIDE DEF amounts, paid
  <2> QED BY <2>1, <2>2 DEF Taxes!InvoiceFitsRule, Taxes!AddsUp
<1>3. ASSUME NEW i \in Ids, Taxes!FindActiveTaxConfig(type) = {i},
             invoice' = Issued(Taxes!CalculateInvoiceTax(paid, rule[i]), rule[i])
      PROVE  Taxes!InvoiceFitsRule'
  <2> DEFINE row == rule[i]  amounts == Taxes!CalculateInvoiceTax(paid, row)
  <2>1. row \in TaxRows /\ row # Taxes!NoRule
    BY <1>3 DEF Taxes!FindActiveTaxConfig, TaxInv, Taxes!NoRule
  <2>2. row.rate \in Nat
    BY <2>1 DEF Taxes!Parameters
  <2>3. /\ invoice'.snapshot = row /\ invoice'.amounts = amounts
        /\ invoice'.total = amounts.total /\ invoice'.fare = paid
    BY <1>3
  <2> HIDE DEF paid, row
  <2>4. CASE row.mode = "TAX_INCLUSIVE"
    <3>1. /\ Taxes!AddsUp(amounts) /\ amounts.total = paid
          /\ 2 * (amounts.tax * Taxes!BasisPoints - amounts.taxable * row.rate)
               \in -(Taxes!BasisPoints + row.rate) .. Taxes!BasisPoints + row.rate
      BY <1>1, <2>2, <2>4, IncludedTaxFits
    <3> HIDE DEF amounts
    <3> QED BY <2>1, <2>3, <2>4, <3>1 DEF Taxes!InvoiceFitsRule, Taxes!AddsUp
  <2>5. CASE row.mode # "TAX_INCLUSIVE"
    <3>1. /\ Taxes!AddsUp(amounts) /\ amounts.taxable = paid
          /\ 2 * (amounts.tax * Taxes!BasisPoints - amounts.taxable * row.rate)
               \in -Taxes!BasisPoints .. Taxes!BasisPoints
      BY <1>1, <2>2, <2>5, AddedTaxFits
    <3> HIDE DEF amounts
    <3> QED BY <2>1, <2>3, <2>5, <3>1 DEF Taxes!InvoiceFitsRule, Taxes!AddsUp
  <2> QED BY <2>4, <2>5
<1> QED BY <1>2, <1>3 DEF Taxes!IssueForJob

\* One case per action.
LEMMA StepKeepsTaxInv ==
  ASSUME Taxes!Parameters PROVE TaxInv /\ [Taxes!Next]_(Taxes!vars) => TaxInv'
<1> SUFFICES ASSUME TaxInv, [Taxes!Next]_(Taxes!vars) PROVE TaxInv'
  OBVIOUS
<1>1. ASSUME UNCHANGED <<rule, editing, invoice>>, clock' \in Int PROVE TaxInv'
  BY <1>1 DEF TaxInv, Untangled, Active, Taxes!AssertNoOverlap, Taxes!InvoiceFitsRule, Taxes!AddsUp
<1>2. CASE UNCHANGED Taxes!vars
  BY <1>1, <1>2 DEF Taxes!vars, TaxInv
<1>3. ASSUME NEW a \in TaxAdmins, NEW i \in Ids, NEW row \in TaxRows, Taxes!Edit(a, i, row)
      PROVE  TaxInv'
  BY <1>3, EditKeepsTaxInv
<1>4. ASSUME NEW a \in TaxAdmins, Taxes!SaveTaxConfig(a) PROVE TaxInv'
  BY <1>4, SaveKeepsTaxInv, CountsAgree DEF Taxes!Parameters
<1>5. ASSUME NEW state \in States, Taxes!UpsertIssuer(state) PROVE TaxInv'
  BY <1>1, <1>5 DEF Taxes!UpsertIssuer, TaxInv
<1>6. CASE Taxes!Tick
  BY <1>1, <1>6 DEF Taxes!Tick, TaxInv
<1>7. ASSUME NEW type \in Types, NEW fare \in Fares, Taxes!IssueForJob(type, fare) PROVE TaxInv'
  <2>1. UNCHANGED <<rule, editing, clock>>
    BY <1>7 DEF Taxes!IssueForJob
  <2>2. Taxes!InvoiceFitsRule'
    BY <1>7, IssueFitsRule
  <2> QED BY <2>1, <2>2 DEF TaxInv, Untangled, Active, Taxes!AssertNoOverlap
<1> QED BY <1>2, <1>3, <1>4, <1>5, <1>6, <1>7 DEF Taxes!Next, Taxes!CreateTaxConfig,
Taxes!UpdateTaxConfig

\* Rules whose windows are apart are in force one at a time.
LEMMA OneInForce ==
  ASSUME Taxes!Parameters, TaxInv PROVE Taxes!OneRuleInForce
<1> SUFFICES ASSUME Cardinality(TaxAdmins) = 1, NEW type \in Types
             PROVE  Cardinality(Taxes!FindActiveTaxConfig(type)) <= 1
  BY CountsAgree DEF Taxes!OneRuleInForce
<1> DEFINE found == Taxes!FindActiveTaxConfig(type)
<1>1. ASSUME NEW i \in found, NEW j \in found, i # j PROVE FALSE
  <2>1. /\ i \in Ids /\ j \in Ids /\ rule[i] \in TaxRows /\ rule[j] \in TaxRows
        /\ Active(i) /\ Active(j) /\ type \in rule[i].types /\ type \in rule[j].types
    BY DEF Taxes!FindActiveTaxConfig, TaxInv, Taxes!NoRule, Active
  <2>2. /\ rule[i].window[1] \in Int /\ rule[i].window[2] \in Int
        /\ rule[j].window[1] \in Int /\ rule[j].window[2] \in Int /\ clock \in Int
    BY <2>1 DEF Taxes!Parameters, TaxInv
  <2>3. Taxes!Overlaps(rule[i], rule[j])
    BY <2>1, <2>2 DEF Taxes!Overlaps, Taxes!FindActiveTaxConfig
  <2> QED BY <1>1, <2>1, <2>3 DEF TaxInv, Untangled
<1>2. CASE found = {}
  BY <1>2, FS_EmptySet
<1>3. CASE found # {}
  <2>1. PICK i : found = {i}
    BY <1>1, <1>3
  <2> QED BY <2>1, FS_Singleton
<1> QED BY <1>2, <1>3

-----------------------------------------------------------------------------
(* Invoices by mail.                                                       *)

\* The row and every task's copy of it are rows.
Mail == [status : {"NONE", "PENDING", "SENT", "FAILED", "SKIPPED"}, attempts : Nat, pdf : BOOLEAN]

\* Whoever counts an invoice as mailed knows of a mail, the copies among them.
MailInv ==
  /\ mailed \in Nat
  /\ letter \in Mail
  /\ task \in [Tasks -> {Mailing!Off} \cup [kind : {"read", "mail", "retry"},
                                    step : {"pdf", "find", "address", "send", "save"}, copy : Mail]]
  /\ Mailing!SentIsMailed

LEMMA InitMailInv == Mailing!Init => MailInv
BY DEF Mailing!Init, MailInv, Mail, Mailing!SentIsMailed, Mailing!Off

\* A task's copy is a row, and off is no task at work.
LEMMA CopiesAreRows ==
  ASSUME MailInv, NEW t \in Tasks, task[t] # Mailing!Off
  PROVE  /\ task[t].copy \in Mail /\ task[t].kind \in {"read", "mail", "retry"}
         /\ task[t].copy.status = "SENT" => mailed > 0
BY DEF MailInv, Mailing!SentIsMailed

\* A task that moves on with a row that says no more than is known.
LEMMA MovingKeepsMailInv ==
  ASSUME MailInv, NEW t \in Tasks, NEW k \in {"read", "mail", "retry"},
         NEW s \in {"pdf", "find", "address", "send", "save"}, NEW copy \in Mail,
         Mailing!Moves(t, k, s, copy), copy.status = "SENT" => mailed' > 0,
         letter' \in Mail, letter'.status = "SENT" => mailed' > 0,
         mailed' \in {mailed, mailed + 1}
  PROVE  MailInv'
<1>1. task' \in [Tasks -> {Mailing!Off} \cup [kind : {"read", "mail", "retry"},
                                    step : {"pdf", "find", "address", "send", "save"}, copy : Mail]]
  BY DEF MailInv, Mailing!Moves
<1>2. mailed' \in Nat /\ (mailed > 0 => mailed' > 0)
  BY DEF MailInv
<1>3. ASSUME NEW u \in Tasks, task'[u] # Mailing!Off, task'[u].copy.status = "SENT"
      PROVE  mailed' > 0
  <2>1. CASE u = t
    BY <1>3, <2>1 DEF Mailing!Moves, MailInv
  <2>2. CASE u # t
    BY <1>3, <1>2, <2>2 DEF Mailing!Moves, MailInv, Mailing!SentIsMailed
  <2> QED BY <2>1, <2>2
<1> QED BY <1>1, <1>2, <1>3 DEF MailInv, Mailing!SentIsMailed

\* A task that ends.
LEMMA EndingKeepsMailInv ==
  ASSUME MailInv, NEW t \in Tasks, Mailing!Ends(t), UNCHANGED mailed,
         letter' \in Mail, letter'.status = "SENT" => mailed > 0
  PROVE  MailInv'
BY DEF MailInv, Mailing!Ends, Mailing!SentIsMailed, Mailing!Off

\* One case per action.
LEMMA StepKeepsMailInv == MailInv /\ [Mailing!Next]_(Mailing!vars) => MailInv'
<1> SUFFICES ASSUME MailInv, [Mailing!Next]_(Mailing!vars) PROVE MailInv'
  OBVIOUS
<1>i. mailed \in Nat /\ letter \in Mail /\ (letter.status = "SENT" => mailed > 0)
  BY DEF MailInv, Mailing!SentIsMailed
<1>1. CASE UNCHANGED Mailing!vars \/ Mailing!VerifyEmail
  BY <1>1 DEF Mailing!vars, Mailing!VerifyEmail, MailInv, Mailing!SentIsMailed
<1>2. CASE Mailing!Issue
  BY <1>2 DEF Mailing!Issue, MailInv, Mailing!SentIsMailed, Mail
<1>3. CASE Mailing!Crash
  BY <1>3 DEF Mailing!Crash, MailInv, Mailing!SentIsMailed, Mailing!Off
<1>4. ASSUME NEW t \in Tasks, Mailing!ReadPdf(t) \/ Mailing!DeliverEmail(t) \/ Mailing!ReadForRetry(t)
      PROVE  MailInv'
  BY <1>4, <1>i, MovingKeepsMailInv DEF Mailing!ReadPdf, Mailing!DeliverEmail, Mailing!ReadForRetry
<1>5. ASSUME NEW t \in Tasks, Mailing!FindInvoice(t) PROVE MailInv'
  <2>1. CASE Mailing!Ends(t)
    BY <1>5, <1>i, <2>1, EndingKeepsMailInv DEF Mailing!FindInvoice
  <2>2. CASE Mailing!Moves(t, "mail", "pdf", letter)
    BY <1>5, <1>i, <2>2, MovingKeepsMailInv DEF Mailing!FindInvoice
  <2> QED BY <1>5, <2>1, <2>2 DEF Mailing!FindInvoice
<1>6. ASSUME NEW t \in Tasks, Mailing!ServePdf(t) \/ Mailing!RenderPdf(t) PROVE MailInv'
  <2>1. /\ task[t].copy \in Mail /\ (task[t].copy.status = "SENT" => mailed > 0)
        /\ UNCHANGED mailed
    BY <1>6, CopiesAreRows DEF Mailing!ServePdf, Mailing!RenderPdf
  <2>2. letter' \in Mail /\ (letter'.status = "SENT" => mailed > 0)
    BY <1>6, <1>i, <2>1 DEF Mailing!ServePdf, Mailing!RenderPdf, Mail
  <2>3. \E copy \in Mail : Mailing!After(t, copy) /\ (copy.status = "SENT" => mailed > 0)
    BY <1>6, <2>1, <2>2 DEF Mailing!ServePdf, Mailing!RenderPdf, Mail
  <2>4. PICK copy \in Mail : Mailing!After(t, copy) /\ (copy.status = "SENT" => mailed > 0)
    BY <2>3
  <2>5. CASE Mailing!Ends(t)
    BY <2>5, <2>1, <2>2, EndingKeepsMailInv
  <2>6. CASE Mailing!Moves(t, "mail", "address", copy)
    BY <2>6, <2>1, <2>2, <2>4, MovingKeepsMailInv
  <2> QED BY <2>4, <2>5, <2>6 DEF Mailing!After
<1>7. ASSUME NEW t \in Tasks, Mailing!Address(t) PROVE MailInv'
  <2>1. task[t].copy \in Mail /\ (task[t].copy.status = "SENT" => mailed > 0) /\ UNCHANGED mailed
    BY <1>7, CopiesAreRows DEF Mailing!Address
  <2> DEFINE copy == [task[t].copy EXCEPT !.attempts = @ + 1]
  <2>2. copy \in Mail /\ copy.status = task[t].copy.status
    BY <2>1 DEF Mail
  <2>3. CASE Mailing!Moves(t, "mail", "send", copy) /\ UNCHANGED letter
    <3> HIDE DEF copy
    <3> QED BY <1>i, <2>1, <2>2, <2>3, MovingKeepsMailInv
  <2>4. CASE Mailing!Skip(t) /\ Mailing!Ends(t)
    <3>1. letter' \in Mail /\ letter'.status # "SENT"
      BY <2>1, <2>4 DEF Mailing!Skip, Mail
    <3> QED BY <2>1, <2>4, <3>1, EndingKeepsMailInv
  <2> QED BY <1>7, <2>3, <2>4 DEF Mailing!Address
<1>8. ASSUME NEW t \in Tasks, Mailing!SendEmail(t) PROVE MailInv'
  <2>1. task[t].copy \in Mail /\ UNCHANGED letter
    BY <1>8, CopiesAreRows DEF Mailing!SendEmail
  <2> DEFINE copy(mark) == [task[t].copy EXCEPT !.status = mark]
  <2>2. \A mark \in {"PENDING", "FAILED", "SENT"} :
          copy(mark) \in Mail /\ copy(mark).status = mark
    BY <2>1 DEF Mail
  <2>3. CASE Mailing!Moves(t, "mail", "save", copy("SENT")) /\ mailed' = mailed + 1
    <3> DEFINE posted == copy("SENT")
    <3>1. posted \in Mail /\ mailed' > 0
      BY <1>i, <2>2, <2>3
    <3> HIDE DEF copy
    <3> HIDE DEF posted
    <3>2. Mailing!Moves(t, "mail", "save", posted)
      BY <2>3 DEF posted
    <3> QED BY <1>i, <2>1, <2>3, <3>1, <3>2, MovingKeepsMailInv
  <2>4. ASSUME NEW mark \in {"PENDING", "FAILED"},
               Mailing!Moves(t, "mail", "save", copy(mark)), UNCHANGED mailed
        PROVE  MailInv'
    <3> DEFINE unsent == copy(mark)
    <3>1. unsent \in Mail /\ unsent.status # "SENT"
      BY <2>2
    <3>2. Mailing!Moves(t, "mail", "save", unsent)
      BY <2>4
    <3> HIDE DEF unsent
    <3> QED BY <1>i, <2>1, <2>4, <3>1, <3>2, MovingKeepsMailInv
  <2> QED BY <1>8, <2>3, <2>4 DEF Mailing!SendEmail
<1>9. ASSUME NEW t \in Tasks, Mailing!SaveEmail(t) PROVE MailInv'
  BY <1>9, CopiesAreRows, EndingKeepsMailInv DEF Mailing!SaveEmail
<1>10. ASSUME NEW t \in Tasks, Mailing!RetryEmail(t) PROVE MailInv'
  <2>1. task[t].copy \in Mail /\ UNCHANGED mailed
    BY <1>10, CopiesAreRows DEF Mailing!RetryEmail
  <2>2. letter' \in Mail /\ letter'.status # "SENT"
    BY <1>10, <2>1 DEF Mailing!RetryEmail, Mail
  <2> QED BY <1>10, <2>1, <2>2, MovingKeepsMailInv DEF Mailing!RetryEmail
<1> QED BY <1>1, <1>2, <1>3, <1>4, <1>5, <1>6, <1>7, <1>8, <1>9, <1>10 DEF Mailing!Next,
Mailing!Works

-----------------------------------------------------------------------------
(* The parts side by side.                                                 *)

\* The five parts keep their invariants.
BackgroundInv == ClaimsInv /\ JobsInv /\ OutboxInv /\ TaxInv /\ MailInv

\* A step of one part is one or none of the others'; faults are counted for two.
LEMMA BackgroundSteps ==
  [Next]_vars =>
    /\ NoShow!Next \/ UNCHANGED <<ride, bookings, claims>>
    /\ Invoicing!Next \/ UNCHANGED <<jobs, invoices, last, runs>>
    /\ [Outbox!Next]_(Outbox!vars) /\ [Taxes!Next]_(Taxes!vars) /\ [Mailing!Next]_(Mailing!vars)
BY DEF Next, vars, noShowVars, invoicingVars, outboxVars, taxVars, mailVars,
       Outbox!vars, Taxes!vars, Mailing!vars

\* All parts start and go on as they may.
THEOREM BackgroundInvariant == Spec => []BackgroundInv
<1>1. Init => BackgroundInv
  BY InitClaimsInv, InitJobsInv, InitOutboxInv, InitTaxInv, InitMailInv DEF Init, BackgroundInv
<1>2. BackgroundInv /\ [Next]_vars => BackgroundInv'
  <2> SUFFICES ASSUME BackgroundInv, [Next]_vars PROVE BackgroundInv'
    OBVIOUS
  <2> USE DEF BackgroundInv
  <2>1. /\ NoShow!Next \/ UNCHANGED <<ride, bookings, claims>>
        /\ Invoicing!Next \/ UNCHANGED <<jobs, invoices, last, runs>>
        /\ [Outbox!Next]_(Outbox!vars) /\ [Taxes!Next]_(Taxes!vars)
        /\ [Mailing!Next]_(Mailing!vars)
    BY BackgroundSteps
  <2>2. ClaimsInv'
    BY <2>1, StepKeepsClaimsInv
  <2>3. JobsInv'
    BY <2>1, StepKeepsJobsInv
  <2>4. OutboxInv'
    BY <2>1, StepKeepsOutboxInv
  <2>5. TaxInv'
    BY <2>1, TaxParameters, StepKeepsTaxInv
  <2>6. MailInv'
    BY <2>1, StepKeepsMailInv
  <2> QED BY <2>2, <2>3, <2>4, <2>5, <2>6
<1> QED BY <1>1, <1>2, PTL DEF Spec

\* no-show-claims.service.ts, resolveClaim: only someone who was not picked up is
\* judged a no-show, and the trip says the same as the verdict.
THEOREM VerdictsAlwaysFit == Spec => []VerdictsFit
<1>1. BackgroundInv => VerdictsFit
  BY VerdictsAreBorne DEF BackgroundInv, VerdictsFit
<1> QED BY <1>1, BackgroundInvariant, PTL

\* invoice-issuance.service.ts, nextInvoiceNumber, and notifications.dispatcher.ts:
\* invoice numbers are consecutive and used once, and a message arrives at most
\* once, or once more per crash.
THEOREM NothingIsDoneTwice == Spec => []NothingTwice
<1>1. BackgroundInv => NothingTwice
  BY OutboxSends DEF BackgroundInv, JobsInv, NothingTwice
<1> QED BY <1>1, BackgroundInvariant, PTL

\* invoice-tax.math.ts, invoice-config.service.ts and invoice-worker.service.ts: an
\* invoice adds up and bears the tax of the only rule in force, to the nearest
\* paisa, and counts as mailed only if it was.
THEOREM InvoicesAreAlwaysRight == Spec => []InvoicesAreRight
<1>1. BackgroundInv => InvoicesAreRight
  BY TaxParameters, OneInForce DEF BackgroundInv, TaxInv, MailInv, InvoicesAreRight
<1> QED BY <1>1, BackgroundInvariant, PTL

=============================================================================
