------------------------------ MODULE MCMoney ------------------------------
(***************************************************************************)
(* How points become money and money points, and where the platform's own  *)
(* come from: withdrawals, top-ups and the seed of the platform's wallet.  *)
(* They share no state; the initial states choose the one that runs.       *)
(***************************************************************************)
EXTENDS Withdrawals

CONSTANTS Directions,                        \* which of "in", "out" and "seed" are checked
          TopUpKeys, Creates, KeyOf, Verifies, Handlers, MaxCalls, MaxCrashes, \* of TopUp
          Startups, Credits, Float           \* of PlatformSeed

VARIABLES direction,
          orders, credits, gateway, known, emitted, events, create, verify, handler, crashes,
          platform, writes, transactions, sees

(***************************************************************************)
(* Withdrawals: a driver sends one key twice, once more with another       *)
(* amount, and a second key, while another driver uses the same key.  Two  *)
(* admins and the removal of the payout method interfere, with two of the  *)
(* requests only: a retry is answered the same way whatever the admins do  *)
(* later.                                                                  *)
(***************************************************************************)
Ask(user, key, amount, method) ==
  [user |-> user, key |-> key, amount |-> amount, method |-> method]

Repeated ==
  [r \in {"first", "again", "other", "changed", "theirs"} |->
     CASE r = "first" -> Ask("u", "k1", 1, "m")
       [] r = "again" -> Ask("u", "k1", 1, "m")
       [] r = "changed" -> Ask("u", "k1", 2, "m")
       [] r = "theirs" -> Ask("v", "k1", 1, "m")
       [] r = "other" -> Ask("u", "k2", 1, "m")]

\* Admins and removals act while only the requests "first" and "other" were sent.
RetriesBeforeAdmins ==
  \/ \A r \in {"again", "changed", "theirs"} : pc[r] = "idle"
  \/ /\ admin = [a \in Admins |-> NoUpdate] /\ removal = [d \in Removals |-> NoRemoval]
     /\ \A w \in DOMAIN withdrawals : withdrawals[w].status = "INITIATED"
     /\ methods["m"] = "ACTIVE" /\ pc["other"] = "idle"

(***************************************************************************)
(* A top-up request sent twice under one key.  Both gateway orders exist   *)
(* only while the second webhook handler is idle and none has crashed,     *)
(* which is what keeps two orders, two racing handlers and a crash in one  *)
(* small run.                                                              *)
(***************************************************************************)
TopUps == INSTANCE TopUp WITH Keys <- TopUpKeys

KeyOfBoth == [c1 |-> "k1", c2 |-> "k1"]

TwoOrdersOneHandler == Len(gateway) = 2 => handler["h2"] = TopUps!Idle /\ crashes = 0

topUpVars == <<orders, credits, gateway, known, emitted, events, create, verify, handler, crashes>>

(***************************************************************************)
(* One process starts while two transactions credit the platform.          *)
(***************************************************************************)
Seed == INSTANCE PlatformSeed WITH db <- platform, own <- writes, tx <- transactions

\* What the theorems about top-ups and the seed assume holds here.
ASSUME MoneyParameters == TopUps!Parameters /\ Seed!Parameters

seedVars == <<platform, writes, transactions, sees>>

MoneyInit ==
  /\ direction \in Directions
  /\ Init /\ TopUps!Init /\ Seed!Init
  /\ direction # "seed" => platform = Seed!NoRows

MoneyNext ==
  /\ UNCHANGED direction
  /\ \/ direction = "out" /\ Next /\ UNCHANGED <<topUpVars, seedVars>>
     \/ direction = "in" /\ TopUps!Next /\ UNCHANGED <<vars, seedVars>>
     \/ direction = "seed" /\ Seed!Next /\ UNCHANGED <<vars, topUpVars>>

MoneySpec ==
  /\ MoneyInit /\ [][MoneyNext]_<<direction, vars, topUpVars, seedVars>>
  /\ TopUps!Fairness

Small == RetriesBeforeAdmins /\ TwoOrdersOneHandler

-----------------------------------------------------------------------------
\* Points are credited only for money the gateway captured for the same order;
\* the platform's opening float once, and only to a wallet without a history.
CreditIsPaidFor == TopUps!CreditIsPaidFor /\ Seed!FloatIsNotInvented

\* A captured event is acknowledged for good only when its order was credited.
AcknowledgedIsCredited == TopUps!AcknowledgedIsCredited

\* A captured payment is eventually credited, or its order failed or moved on.
CapturedIsCredited == TopUps!CapturedIsCredited

\* payment-order.state-machine.ts:27, "terminal -> different terminal (rejected)":
\* a payment order that has succeeded or failed stays as it is.
TerminalIsFinal == TopUps!TerminalIsFinal

=============================================================================
