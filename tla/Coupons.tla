------------------------------- MODULE Coupons -------------------------------
(***************************************************************************)
(* One coupon, its counters and its redemptions: src/src/coupons/.         *)
(*                                                                         *)
(* A booking, or the publication of an assured ride, reserves and          *)
(* finalizes its redemption in one transaction that locks the coupon; a    *)
(* failure in between rolls both back.  Admins lock nothing: they read the *)
(* coupon, change a field and save the copy, counters included.  Left out: *)
(* lists and previews, which change nothing, titles and validity dates     *)
(* (the coupon is valid all the time), and releaseReservedInTransaction,   *)
(* as no reservation outlives its transaction.                             *)
(***************************************************************************)
EXTENDS Naturals, FiniteSets

CONSTANTS Users, Admins,
          Keys,     \* idempotency keys of bookings and publications
          Audience, \* "PUBLIC" or "USER_SPECIFIC"
          Scope,    \* what the coupon is charged on
          Benefit,  \* type, value, max, with 0 for no maximum, and min
          Limit,    \* totalRedemptionLimit
          Each,     \* perUserRedemptionLimit
          Amounts   \* amounts charged

VARIABLES coupon,      \* counters and the fields admins change
          assigned,    \* users with a coupon_assignments row
          redemptions, \* user, key, discount and points of each redemption
          copy         \* admin |-> the coupon as it was read

couponVars == <<coupon, assigned, redemptions, copy>>

Nothing == [active |-> FALSE, for |-> "none", reserved |-> 0, redeemed |-> 0]

\* dto/admin-coupon.dto.ts: values and limits are not negative.
Parameters ==
  /\ Each \in Nat /\ Amounts \subseteq Nat
  /\ Benefit.value \in Nat /\ Benefit.max \in Nat

Init ==
  /\ coupon = [active |-> TRUE, for |-> "ALL", reserved |-> 0, redeemed |-> 0]
  /\ assigned = {} /\ redemptions = {}
  /\ copy = [a \in Admins |-> Nothing]

-----------------------------------------------------------------------------
(* Discounts.                                                              *)

Least(a, b) == IF a < b THEN a ELSE b

\* calculateCouponDiscount; percentages are rounded half up.
Discount(amount) ==
  LET share == (amount * Benefit.value + 50) \div 100
      capped == IF Benefit.max = 0 THEN share ELSE Least(share, Benefit.max)
  IN IF Benefit.type = "POINTS_CREDIT" THEN 0
     ELSE Least(amount, IF Benefit.type = "FIXED_DISCOUNT" THEN Benefit.value ELSE capped)

PointsCredit == IF Benefit.type = "POINTS_CREDIT" THEN Benefit.value ELSE 0

-----------------------------------------------------------------------------
(* Redemptions.                                                            *)

chargeScopeMatches(charge) ==
  Scope = charge \/ (Scope = "BOTH" /\ charge \in {"RIDE_FARE", "ASSURED_SECURITY_DEPOSIT"})

\* What is charged decides on whether the user acts as driver or as rider.
Actor(charge) == IF charge = "DRIVER_ASSURED_DEPOSIT" THEN "DRIVERS_ONLY" ELSE "RIDERS_ONLY"

\* Mutant: redemptions of the user are not counted.
AnyTimes(u) == TRUE

WithinUserLimit(u) == Cardinality({r \in redemptions : r.user = u}) < Each

assertEligible(u, charge, amount) ==
  /\ coupon.active
  /\ chargeScopeMatches(charge) /\ coupon.for \in {"ALL", Actor(charge)}
  /\ Audience = "USER_SPECIFIC" => u \in assigned
  /\ WithinUserLimit(u)
  /\ coupon.redeemed + coupon.reserved < Limit
  /\ PointsCredit = 0 => amount >= Benefit.min

\* reserveInTransaction and finalizeReservedInTransaction; a key that is known
\* gets its redemption again.
Redeem(u, key, charge, amount) ==
  /\ \A r \in redemptions : r.key # key
  /\ assertEligible(u, charge, amount)
  /\ coupon' = [coupon EXCEPT !.redeemed = @ + 1]
  /\ redemptions' = redemptions \cup
       {[user |-> u, key |-> key, amount |-> amount,
         discount |-> Discount(amount), points |-> PointsCredit]}
  /\ UNCHANGED <<assigned, copy>>

-----------------------------------------------------------------------------
(* Admins.                                                                 *)

assignUsers(users) ==
  /\ Audience = "USER_SPECIFIC" /\ assigned' = assigned \cup users
  /\ UNCHANGED <<coupon, redemptions, copy>>

FindCoupon(a) ==
  /\ copy[a] = Nothing /\ copy' = [copy EXCEPT ![a] = coupon]
  /\ UNCHANGED <<coupon, assigned, redemptions>>

\* All columns that differ from the row are written, stale counters with them.
Save(a, changed) ==
  /\ coupon' = changed /\ copy' = [copy EXCEPT ![a] = Nothing]
  /\ UNCHANGED <<assigned, redemptions>>

updateAdmin(a, to) == copy[a] # Nothing /\ Save(a, [copy[a] EXCEPT !.for = to])

setActive(a, isActive) == copy[a] # Nothing /\ Save(a, [copy[a] EXCEPT !.active = isActive])

Next ==
  \/ \E u \in Users, key \in Keys, amount \in Amounts :
       \E charge \in {"RIDE_FARE", "ASSURED_SECURITY_DEPOSIT", "DRIVER_ASSURED_DEPOSIT"} :
         Redeem(u, key, charge, amount)
  \/ \E users \in SUBSET Users : assignUsers(users)
  \/ \E a \in Admins :
       \/ FindCoupon(a)
       \/ \E to \in {"ALL", "DRIVERS_ONLY", "RIDERS_ONLY"} : updateAdmin(a, to)
       \/ \E isActive \in BOOLEAN : setActive(a, isActive)

Spec == Init /\ [][Next]_couponVars

-----------------------------------------------------------------------------
(* Properties.                                                             *)

\* Whatever admins save: no user redeems more often than allowed, the counter
\* is never ahead of the redemptions, so that nobody is refused a use that is
\* left, and a discount leaves a charge that is not negative.
CouponUses ==
  /\ \A u \in Users : Cardinality({r \in redemptions : r.user = u}) <= Each
  /\ coupon.redeemed + coupon.reserved <= Cardinality(redemptions)
  /\ \A r \in redemptions : r.discount <= r.amount

\* The uses of all users together stay within the limit.  An edit that saves old
\* counters breaks it, no run checks it (README, section 6).
CouponLimit == Cardinality(redemptions) <= Limit

=============================================================================
