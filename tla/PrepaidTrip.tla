---------------------------- MODULE PrepaidTrip ----------------------------
(***************************************************************************)
(* What a Daily Office Commute promises about money: a fare is taken when  *)
(* the seat is asked for and goes exactly one way, back to the rider or on *)
(* to driver and platform; fares are earned at the one moment the trip is  *)
(* completed, and no fare stays behind on a trip that was called off.      *)
(* CommuteRide is shown to implement this specification.                   *)
(***************************************************************************)
CONSTANT Bookings

VARIABLES fare,  \* booking |-> where its fare is
          trip   \* "open", "done" or "off"

vars == <<fare, trip>>

Init == fare = [b \in Bookings |-> "none"] /\ trip = "open"

Held == {b \in Bookings : fare[b] = "held"}
Move(S, where) == fare' = [b \in Bookings |-> IF b \in S THEN where ELSE fare[b]]

Take(b) ==
  /\ trip = "open" /\ fare[b] = "none"
  /\ Move({b}, "held")
  /\ UNCHANGED trip

Return(S) == S # {} /\ Move(S, "returned") /\ UNCHANGED trip

Earn(S) == trip = "open" /\ trip' = "done" /\ Move(S, "earned")

\* A trip is called off with its fares returned, or kept for support to settle.
CallOff(where) == trip = "open" /\ trip' = "off" /\ Move(Held, where)

Next ==
  \/ \E b \in Bookings : Take(b)
  \/ \E S \in SUBSET Held : Return(S) \/ Earn(S)
  \/ \E where \in {"returned", "kept"} : CallOff(where)

Spec == Init /\ [][Next]_vars

=============================================================================
