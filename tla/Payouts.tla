------------------------------ MODULE Payouts ------------------------------
(***************************************************************************)
(* What a withdrawal promises, without transactions, holds or payment      *)
(* methods: under one key a user has at most one payout; its points leave  *)
(* the earnings when it is requested and come back at most once, and only  *)
(* when it is not paid.  Withdrawals is shown to implement this.           *)
(***************************************************************************)
EXTENDS Integers

CONSTANTS Users, Keys,
          Amounts  \* the amounts users ask for

VARIABLES earned,  \* user |-> withdrawable points
          payouts  \* <<user, key>> |-> the payout's stage and its points

vars == <<earned, payouts>>

NoPayout == [stage |-> "NONE", amount |-> 0]

Init ==
  /\ earned = [u \in Users |-> 0]
  /\ payouts = [p \in Users \X Keys |-> NoPayout]

Earn(u) == earned' = [earned EXCEPT ![u] = @ + 1] /\ UNCHANGED payouts
Spend(u) == earned[u] > 0 /\ earned' = [earned EXCEPT ![u] = @ - 1] /\ UNCHANGED payouts

Reserve(u, k, a) ==
  /\ payouts[<<u, k>>] = NoPayout
  /\ a <= earned[u]
  /\ earned' = [earned EXCEPT ![u] = @ - a]
  /\ payouts' = [payouts EXCEPT ![<<u, k>>] = [stage |-> "INITIATED", amount |-> a]]

Process(u, k) ==
  /\ payouts[<<u, k>>].stage = "INITIATED"
  /\ payouts' = [payouts EXCEPT ![<<u, k>>].stage = "PROCESSING"]
  /\ UNCHANGED earned

Pay(u, k) ==
  /\ payouts[<<u, k>>].stage = "PROCESSING"
  /\ payouts' = [payouts EXCEPT ![<<u, k>>].stage = "COMPLETED"]
  /\ UNCHANGED earned

GiveBack(u, k) ==
  /\ payouts[<<u, k>>].stage \in {"INITIATED", "PROCESSING"}
  /\ \E s \in {"FAILED", "CANCELLED"} :
       payouts' = [payouts EXCEPT ![<<u, k>>].stage = s]
  /\ earned' = [earned EXCEPT ![u] = @ + payouts[<<u, k>>].amount]

Next ==
  \E u \in Users :
    \/ Earn(u) \/ Spend(u)
    \/ \E k \in Keys :
         \/ \E a \in Amounts : Reserve(u, k, a)
         \/ Process(u, k) \/ Pay(u, k) \/ GiveBack(u, k)

Spec == Init /\ [][Next]_vars

=============================================================================
