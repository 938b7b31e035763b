--------------------------- MODULE PointsAccount ---------------------------
(***************************************************************************)
(* What a wallet promises to the rest of the backend, without lots,        *)
(* buckets, locks or transactions: each wallet has spendable and held      *)
(* points; a request identified by an idempotency key takes effect at once *)
(* and at most once; a hold moves points aside and ends exactly one way.   *)
(* WalletLedger is shown to implement this specification.                  *)
(***************************************************************************)
EXTENDS Integers, Sequences

CONSTANTS Wallets, Keys,
          Amounts   \* the amounts requests are about

VARIABLES spendable, \* wallet |-> points that can be spent
          reserved,  \* wallet |-> points under an active hold
          holds,     \* the holds ever placed, in order
          done       \* the keys that have taken effect

vars == <<spendable, reserved, holds, done>>

Init == /\ spendable = [w \in Wallets |-> 0]
        /\ reserved = [w \in Wallets |-> 0]
        /\ holds = <<>>
        /\ done = {}

Fresh(k) == k \notin done /\ done' = done \cup {k}

Credit(w, a) ==
  /\ spendable' = [spendable EXCEPT ![w] = @ + a]
  /\ UNCHANGED <<reserved, holds>>

Debit(w, a) ==
  /\ a <= spendable[w]
  /\ spendable' = [spendable EXCEPT ![w] = @ - a]
  /\ UNCHANGED <<reserved, holds>>

Hold(w, a) ==
  /\ a <= spendable[w]
  /\ spendable' = [spendable EXCEPT ![w] = @ - a]
  /\ reserved' = [reserved EXCEPT ![w] = @ + a]
  /\ holds' = Append(holds, [wallet |-> w, amount |-> a, status |-> "ACTIVE"])

Finish(h, status) ==
  /\ holds[h].status = "ACTIVE"
  /\ holds' = [holds EXCEPT ![h].status = status]
  /\ reserved' = [reserved EXCEPT ![holds[h].wallet] = @ - holds[h].amount]

Release(h) ==
  /\ Finish(h, "RELEASED")
  /\ spendable' = [spendable EXCEPT ![holds[h].wallet] = @ + holds[h].amount]

Consume(h) ==
  /\ Finish(h, "CONSUMED")
  /\ UNCHANGED spendable

Next ==
  \E k \in Keys :
    /\ Fresh(k)
    /\ \/ \E w \in Wallets, a \in Amounts : Credit(w, a) \/ Debit(w, a) \/ Hold(w, a)
       \/ \E h \in DOMAIN holds : Release(h) \/ Consume(h)

Spec == Init /\ [][Next]_vars

=============================================================================
