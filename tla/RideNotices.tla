---------------------------- MODULE RideNotices ----------------------------
(***************************************************************************)
(* Who is told what about a ride and its bookings: the safeNotify helpers  *)
(* of src/src/notifications/notifications.service.ts and their callers in  *)
(* bookings, commute cancellation, assured lifecycle, rides, the admin's   *)
(* cancellation and no-show claims.                                        *)
(*                                                                         *)
(* Every operation commits first and tells people afterwards, one after    *)
(* the other, from a list it made in its transaction.  A notice that       *)
(* cannot be stored is logged and forgotten, and a process that dies takes *)
(* the rest of its list with it: only a repeated request can make up for   *)
(* what was lost.  Left out: texts, money, seats of more than one, trips   *)
(* under way, the ride an Assured queue promotes; delivery of a stored     *)
(* notice is NotificationOutbox.                                           *)
(***************************************************************************)
EXTENDS Naturals, Sequences, FiniteSets

CONSTANTS Processes, \* application processes
          Bookings,  \* 1 .. n in the order of created_at, each of its own passenger
          Seats,     \* of the ride
          MaxFaults  \* bound: processes that die and notices that cannot be stored

VARIABLES kind,    \* the ride's type
          ride,  \* the ride: status and the reason it was cancelled for
          booking,    \* booking |-> status, reason, and whether it was ever confirmed
          claim,   \* a passenger's claim that the driver did not come
          work, \* process |-> operation, its booking (0: the ride), notices left, one failed
          notices, \* the rows stored, each by its idempotency key
          answers, \* cancellations and refusals answered after all their notices were stored
          faults

vars == <<kind, ride, booking, claim, work, notices, answers, faults>>

Quiet == [op |-> "none", of |-> 0, left |-> <<>>, failed |-> FALSE]

Init ==
  /\ kind \in {"COMMUTE", "REGULAR", "ASSURED"}
  /\ ride = [status |-> "PUBLISHED", reason |-> "NULL"]
  /\ booking = [b \in Bookings |-> [status |-> "NONE", reason |-> "NULL", took |-> FALSE]]
  /\ claim = "none"
  /\ work = [p \in Processes |-> Quiet]
  /\ notices = {} /\ answers = {} /\ faults = 0

-----------------------------------------------------------------------------
(* The notices and their keys.                                             *)

Notice(what, b, to) == [what |-> what, of |-> b, to |-> to]

safeNotifyCommuteRequested(b) == Notice("commute-requested", b, "driver")
safeNotifyCommuteConfirmed(b) == Notice("commute-confirmed", b, "passenger")
safeNotifyBookingReceived(b) == Notice("booking-received", b, "driver")
safeNotifyBookingConfirmed(b) == Notice("booking-confirmed", b, "passenger")
safeNotifyCommuteCancelled(b, to) == Notice("commute-cancelled", b, to)
safeNotifyBookingCancelled(b, to) == Notice("booking-cancelled", b, to)
safeNotifyAdminRideCancelled(b, to) == Notice("admin-ops-cancel", b, to)
safeNotifyNoShowClaimOpened == Notice("no-show-opened", 0, "driver")

Cancelled(b, to) ==
  IF kind = "COMMUTE" THEN safeNotifyCommuteCancelled(b, to) ELSE safeNotifyBookingCancelled(b, to)

\* The bookings of S, in order.
InOrder(S) ==
  CHOOSE s \in [1..Cardinality(S) -> S] : \A i, j \in 1..Cardinality(S) : i < j => s[i] < s[j]

notifyRideCancelledPassengers(S) ==
  [i \in DOMAIN InOrder(S) |-> Cancelled(InOrder(S)[i], "passenger")]

notifyPassengerCancelledDriver(b) == <<Cancelled(b, "driver")>>

dispatchSideEffects(S) ==
  <<safeNotifyAdminRideCancelled(0, "driver")>> \o
  [i \in DOMAIN InOrder(S) |-> safeNotifyAdminRideCancelled(InOrder(S)[i], "passenger")]

afterBookingPersisted(b) ==
  IF kind = "COMMUTE"
  THEN <<safeNotifyCommuteRequested(b)>>
  ELSE <<safeNotifyBookingReceived(b), safeNotifyBookingConfirmed(b)>>

-----------------------------------------------------------------------------
(* Bookings.                                                               *)

Active(b) == booking[b].status \in {"PENDING", "CONFIRMED"}
CancelledFor(why) == {b \in Bookings : booking[b].status = "CANCELLED" /\ booking[b].reason = why}
Free(s) == Seats - Cardinality({b \in Bookings : s[b].status = "CONFIRMED"})

Cancel(s, S, why) ==
  [b \in Bookings |-> IF b \in S THEN [s[b] EXCEPT !.status = "CANCELLED",
      !.reason = why] ELSE s[b]]

Take(s, b) == [s EXCEPT ![b] = [@ EXCEPT !.status = "CONFIRMED", !.took = TRUE]]

\* The operations that end bookings and may be repeated.
Ends(op, b) == {<<op, b>>} \cap ({"reject", "leave", "cancel", "admin"} \X {0, b})

\* The process has committed, or found nothing to commit, and goes on to tell.
Tell(p, op, b, list) ==
  /\ work[p].op = "none"
  /\ IF list = <<>>
     THEN answers' = answers \cup Ends(op, b) /\ UNCHANGED work
     ELSE /\ work' = [work EXCEPT ![p] = [op |-> op, of |-> b, left |-> list, failed |-> FALSE]]
          /\ UNCHANGED answers
  /\ UNCHANGED <<kind, notices, faults>>

Book(p, b) ==
  /\ booking[b].status = "NONE" /\ ride.status = "PUBLISHED"
  /\ kind = "COMMUTE" \/ Free(booking) > 0
  /\ booking' = IF kind = "COMMUTE" THEN [booking EXCEPT ![b].status =
         "PENDING"] ELSE Take(booking, b)
  /\ Tell(p, "book", b, afterBookingPersisted(b))
  /\ UNCHANGED <<ride, claim>>

\* The last seat cancels the others; a repeated acceptance tells nobody.
acceptCommuteBookingByDriver(p, b) ==
  /\ kind = "COMMUTE"
  /\ \/ /\ booking[b].status = "CONFIRMED"
        /\ Tell(p, "accept", b, <<>>)
        /\ UNCHANGED booking
     \/ /\ booking[b].status = "PENDING" /\ ride.status = "PUBLISHED" /\ Free(booking) > 0
        /\ LET taken == Take(booking, b)
               late == IF Free(taken) > 0 THEN {}
                       ELSE {c \in Bookings : taken[c].status = "PENDING"}
           IN  /\ booking' = Cancel(taken, late, "COMMUTE_RIDE_FULL")
               /\ Tell(p, "accept", b,
                       Append(notifyRideCancelledPassengers(late), safeNotifyCommuteConfirmed(b)))
  /\ UNCHANGED <<ride, claim>>

rejectCommuteBookingByDriver(p, b) ==
  /\ kind = "COMMUTE"
  /\ booking[b].status = "PENDING" \/ b \in CancelledFor("DRIVER_REJECTED")
  /\ booking' = Cancel(booking, {b}, "DRIVER_REJECTED")
  /\ Tell(p, "reject", b, notifyRideCancelledPassengers({b}))
  /\ UNCHANGED <<ride, claim>>

cancelByPassenger(p, b) ==
  /\ Active(b) \/ b \in CancelledFor("RIDER_CANCELLED")
  /\ booking' = Cancel(booking, {b}, "RIDER_CANCELLED")
  /\ Tell(p, "leave", b, notifyPassengerCancelledDriver(b))
  /\ UNCHANGED <<ride, claim>>

-----------------------------------------------------------------------------
(* The ride.                                                               *)

CancelRide(why, bookingWhy) ==
  /\ ride.status = "PUBLISHED"
  /\ ride' = [status |-> "CANCELLED", reason |-> why]
  /\ booking' = Cancel(booking, {b \in Bookings : Active(b)}, bookingWhy)

\* Whom a repeated cancellation tells: the bookings that ended for its reason.
ToldAgain(why) == CancelledFor(why)

cancelRideByDriver(p) ==
  /\ \/ /\ CancelRide("DRIVER_CANCELLED", "RIDE_CANCELLED")
        /\ Tell(p, "cancel", 0, notifyRideCancelledPassengers({b \in Bookings : Active(b)}))
     \/ /\ ride.reason = "DRIVER_CANCELLED"
        /\ Tell(p, "cancel", 0, notifyRideCancelledPassengers(ToldAgain("RIDE_CANCELLED")))
        /\ UNCHANGED <<ride, booking>>
  /\ UNCHANGED claim

\* A repeated one reads its list from the audit row of the first.
cancelByAdmin(p) ==
  /\ \/ /\ CancelRide("ADMIN_CANCELLED", "ADMIN_CANCELLED")
        /\ Tell(p, "admin", 0, dispatchSideEffects({b \in Bookings : Active(b)}))
     \/ /\ ride.reason = "ADMIN_CANCELLED"
        /\ Tell(p, "admin", 0, dispatchSideEffects(CancelledFor("ADMIN_CANCELLED")))
        /\ UNCHANGED <<ride, booking>>
  /\ UNCHANGED claim

\* Only the report that opens the claim tells the driver.
reportDriverDidNotCome(p, b) ==
  /\ claim \in {"none", "open"} /\ booking[b].status = "CONFIRMED"
  /\ claim' = "open"
  /\ Tell(p, "report", b, IF claim = "none" THEN <<safeNotifyNoShowClaimOpened>> ELSE <<>>)
  /\ UNCHANGED <<ride, booking>>

\* Approved by the driver or by the time that passed; never repeated.
SettleDriverNoShow(p) ==
  /\ claim = "open" /\ claim' = "settled"
  /\ CancelRide("DRIVER_NO_SHOW", "DRIVER_NO_SHOW")
  /\ Tell(p, "settle", 0, notifyRideCancelledPassengers({b \in Bookings : Active(b)}))

-----------------------------------------------------------------------------
(* The notices one after the other.                                        *)

\* After the last one the caller is answered, the same whether or not one failed.
Told(p, failed) ==
  IF Len(work[p].left) > 1
  THEN /\ work' = [work EXCEPT ![p].left = Tail(@), ![p].failed = failed]
       /\ UNCHANGED answers
  ELSE /\ work' = [work EXCEPT ![p] = Quiet]
       /\ answers' = IF failed THEN answers ELSE answers \cup Ends(work[p].op, work[p].of)

safeEnqueue(p) ==
  /\ work[p].left # <<>>
  /\ \/ /\ notices' = notices \cup {Head(work[p].left)}
        /\ Told(p, work[p].failed)
        /\ UNCHANGED faults
     \/ /\ faults < MaxFaults /\ faults' = faults + 1
        /\ Told(p, TRUE)
        /\ UNCHANGED notices
  /\ UNCHANGED <<kind, ride, booking, claim>>

Crash(p) ==
  /\ work[p].left # <<>> /\ faults < MaxFaults
  /\ faults' = faults + 1
  /\ work' = [work EXCEPT ![p] = Quiet]
  /\ UNCHANGED <<kind, ride, booking, claim, notices, answers>>

Next ==
  \E p \in Processes :
    \/ \E b \in Bookings :
         \/ Book(p, b) \/ acceptCommuteBookingByDriver(p, b) \/ rejectCommuteBookingByDriver(p, b)
         \/ cancelByPassenger(p, b) \/ reportDriverDidNotCome(p, b)
    \/ cancelRideByDriver(p) \/ cancelByAdmin(p) \/ SettleDriverNoShow(p)
    \/ safeEnqueue(p) \/ Crash(p)

Spec == Init /\ [][Next]_vars

-----------------------------------------------------------------------------
Knows(b, to) == \E n \in notices : n \in {Cancelled(b, to), safeNotifyAdminRideCancelled(b, to)}

\* Once a cancellation or refusal, the first or a repeated one, was answered with
\* none of its notices lost, everybody whose booking ended by it has been told,
\* whichever process died before: repeating makes up for what was lost.
ToldOrToldAgain ==
  /\ <<"cancel", 0>> \in answers => \A b \in CancelledFor("RIDE_CANCELLED") : Knows(b, "passenger")
  /\ <<"admin", 0>> \in answers =>
       /\ \A b \in CancelledFor("ADMIN_CANCELLED") : Knows(b, "passenger")
       /\ Knows(0, "driver")
  /\ \A b \in Bookings :
       /\ <<"reject", b>> \in answers => Knows(b, "passenger")
       /\ <<"leave", b>> \in answers => Knows(b, "driver")

\* What a notice says has happened, and in the end's own way: a passenger hears
\* of the end of the booking only when somebody else ended it, from Operations
\* only when Operations did, the driver only when the passenger left.
TrueOf(n) ==
  CASE n.what \in {"commute-requested", "booking-received"} -> booking[n.of].status # "NONE"
    [] n.what \in {"commute-confirmed", "booking-confirmed"} -> booking[n.of].took
    [] n.what = "no-show-opened" -> claim # "none"
    [] n.what = "admin-ops-cancel" ->
         IF n.to = "driver" THEN ride.reason = "ADMIN_CANCELLED"
         ELSE booking[n.of].reason = "ADMIN_CANCELLED"
    [] OTHER -> IF n.to = "driver" THEN booking[n.of].reason = "RIDER_CANCELLED"
                ELSE booking[n.of].reason \in {"DRIVER_REJECTED", "COMMUTE_RIDE_FULL",
                                            "RIDE_CANCELLED", "DRIVER_NO_SHOW"}

\* Every stored notice is true, however late it was stored.
NoticesAreTrue == \A n \in notices : TrueOf(n)
=============================================================================
