------------------------- MODULE WalletLedgerProofs -------------------------
(***************************************************************************)
(* What WalletLedger guarantees for every set of wallets and requests.     *)
(*                                                                         *)
(* The types alone are not inductive: that a plan is made of naturals      *)
(* needs lots that are not overdrawn, which needs plans that fit the lots  *)
(* when they are carried out, which needs the row lock.  LockInv is that   *)
(* invariant.                                                              *)
(***************************************************************************)
EXTENDS WalletLedger, SequenceTheorems

\* A transaction that ends a hold was opened for a hold that exists.
TargetsExist ==
  \A c \in Calls :
    EndsHold(c) /\ pc[c] \in {"open", "holdLocked", "ready"} => target[c] \in DOMAIN holds

AvailableNonNegative ==
  \A w \in Wallets : \A i \in DOMAIN lots[w] : lots[w][i].available >= 0

\* The row lock of a balance has one owner.
BalanceOwned ==
  \A c, d \in Calls : pc[c] = "ready" /\ pc[d] = "ready" /\ WalletOf(c) = WalletOf(d) => c = d

\* What a transaction plans to take from a lot is still available there.
PlanCovered ==
  \A c \in Calls : pc[c] = "ready" /\ DrawsOnPoints(c) =>
    /\ DOMAIN take[c] = DOMAIN lots[Call[c].wallet]
    /\ \A i \in DOMAIN take[c] : take[c][i] <= lots[Call[c].wallet][i].available

LockInv == TypeOK /\ TargetsExist /\ AvailableNonNegative /\ BalanceOwned /\ PlanCovered

USE DEF Sources, HoldTypes, Operations

-----------------------------------------------------------------------------
\* The lots of a wallet are numbered rows of integers.
LEMMA LotsOfWallet ==
  ASSUME TypeOK, NEW w \in Wallets
  PROVE  /\ lots[w] \in Seq(Lot)
         /\ Len(lots[w]) \in Nat
         /\ DOMAIN lots[w] = 1..Len(lots[w])
         /\ \A i \in DOMAIN lots[w] : /\ lots[w][i] \in Lot
                                     /\ lots[w][i].available \in Int
                                     /\ lots[w][i].held \in Int
                                     /\ lots[w][i].source \in Sources
<1>1. lots[w] \in Seq(Lot)
  BY DEF TypeOK
<1>2. Len(lots[w]) \in Nat /\ DOMAIN lots[w] = 1..Len(lots[w])
  BY <1>1
<1>3. \A i \in DOMAIN lots[w] : lots[w][i] \in Lot
  BY <1>1, <1>2
<1> QED BY <1>1, <1>2, <1>3 DEF Lot

\* A hold row is typed: its wallet, source, type, reference and allocations.
LEMMA HoldsTyped ==
  ASSUME TypeOK
  PROVE  /\ Len(holds) \in Nat
         /\ DOMAIN holds = 1..Len(holds)
         /\ \A h \in DOMAIN holds :
              /\ holds[h] \in HoldRow
              /\ holds[h].wallet \in Wallets
              /\ holds[h].amount \in Nat
              /\ holds[h].alloc \in Seq(Nat)
<1>1. holds \in Seq(HoldRow)
  BY DEF TypeOK
<1>2. Len(holds) \in Nat /\ DOMAIN holds = 1..Len(holds)
  BY <1>1
<1>3. \A h \in DOMAIN holds : holds[h] \in HoldRow
  BY <1>1, <1>2
<1> QED BY <1>2, <1>3 DEF HoldRow

\* The plan of a debit or hold takes from every lot of its wallet at most what
\* is available there, and never a negative amount.
LEMMA PlanWithinLots ==
  ASSUME TypeOK, NEW c \in Calls, AvailableNonNegative
  PROVE  LET w == Call[c].wallet
             plan == PlanLotConsumption(c)
         IN  /\ DOMAIN plan = DOMAIN lots[w]
             /\ \A i \in DOMAIN lots[w] : plan[i] \in 0..lots[w][i].available
<1> DEFINE w == Call[c].wallet
           Open(i) == Call[c].amount - SuppliedBefore(c, w, i)
<1>1. w \in Wallets /\ Call[c].amount \in Nat
  BY WalletLedgerAssumption
<1>2. ASSUME NEW i \in DOMAIN lots[w] PROVE Open(i) \in Int
  <2> DEFINE f == [j \in DOMAIN lots[w] |->
           IF lots[w][j].source \in Eligible(c) /\ ConsumedBefore(w, j, i)
           THEN lots[w][j].available ELSE 0]
  <2>1. \A j \in 1..Len(lots[w]) : f[j] \in Int
    BY <1>1, LotsOfWallet
  <2> HIDE DEF f
  <2>2. SumTo(f, Len(lots[w])) \in Int
    BY <2>1, <1>1, LotsOfWallet, SumToInt
  <2>3. SuppliedBefore(c, w, i) \in Int
    BY <2>2 DEF SuppliedBefore, f
  <2> QED BY <2>3, <1>1
<1>3. PlanLotConsumption(c) =
        [i \in DOMAIN lots[w] |->
           IF lots[w][i].source \notin Eligible(c) \/ Open(i) <= 0 THEN 0
           ELSE IF Open(i) < lots[w][i].available THEN Open(i) ELSE lots[w][i].available]
  BY DEF PlanLotConsumption
<1>4. \A i \in DOMAIN lots[w] : lots[w][i].available \in Nat
  BY <1>1, LotsOfWallet DEF AvailableNonNegative
<1>5. ASSUME NEW i \in DOMAIN lots[w] PROVE PlanLotConsumption(c)[i] \in 0..lots[w][i].available
  <2>1. Open(i) \in Int /\ lots[w][i].available \in Nat
    BY <1>2, <1>4
  <2>2. PlanLotConsumption(c)[i] =
          IF lots[w][i].source \notin Eligible(c) \/ Open(i) <= 0 THEN 0
          ELSE IF Open(i) < lots[w][i].available THEN Open(i) ELSE lots[w][i].available
    BY <1>3
  <2> HIDE DEF Open, w
  <2> QED BY <2>1, <2>2
<1> QED BY <1>3, <1>5

\* The plan is a sequence of naturals, one per lot it goes through.
LEMMA PlanType ==
  ASSUME TypeOK, NEW c \in Calls, AvailableNonNegative
  PROVE  PlanLotConsumption(c) \in Seq(Nat)
<1> DEFINE w == Call[c].wallet
<1>1. w \in Wallets
  BY WalletLedgerAssumption
<1>2. PlanLotConsumption(c) = [i \in 1..Len(lots[w]) |-> PlanLotConsumption(c)[i]]
  BY <1>1, LotsOfWallet DEF PlanLotConsumption
<1>3. \A i \in 1..Len(lots[w]) : PlanLotConsumption(c)[i] \in Nat
  BY <1>1, LotsOfWallet, PlanWithinLots
<1>4. Len(lots[w]) \in Nat
  BY <1>1, LotsOfWallet
<1> HIDE DEF w
<1>5. PlanLotConsumption(c) \in [1..Len(lots[w]) -> Nat]
  BY <1>2, <1>3
<1> QED BY <1>4, <1>5

-----------------------------------------------------------------------------
(* Steps that leave the tables alone.                                      *)

\* LockInv holds initially: nothing is planned and nothing is available.
LEMMA InitLockInv == Init => LockInv
<1> SUFFICES ASSUME Init PROVE LockInv
  OBVIOUS
<1>1. TypeOK
  BY WalletLedgerAssumption DEF Init, TypeOK, NoRow, BalanceRow, Answered
<1> QED BY <1>1 DEF Init, LockInv, TargetsExist, AvailableNonNegative, BalanceOwned, PlanCovered

\* Ending a transaction without having written anything.
LEMMA AnswerKeepsLockInv ==
  ASSUME LockInv, NEW c \in Calls, NEW a \in {"idle"} \cup Answered, Answer(c, a),
         UNCHANGED rows, aborts' \in 0..MaxAborts
  PROVE  LockInv'
<1> USE DEF LockInv, rows
<1>1. TypeOK'
  <2>1. pc' \in [Calls -> {"idle", "open", "holdLocked", "ready"} \cup Answered]
    BY DEF Answer, TypeOK
  <2>2. target' \in [Calls -> 0..Len(holds')]
    BY DEF Answer, TypeOK
  <2>3. seen' \in [Calls -> BalanceRow]
    BY DEF Answer, TypeOK, NoRow, BalanceRow
  <2>4. take' \in [Calls -> Seq(Nat)]
    BY DEF Answer, TypeOK
  <2> QED BY <2>1, <2>2, <2>3, <2>4 DEF TypeOK
<1>2. \A d \in Calls : d # c => /\ pc'[d] = pc[d] /\ target'[d] = target[d]
                                /\ take'[d] = take[d] /\ WalletOf(d)' = WalletOf(d)
  BY DEF Answer, TypeOK, WalletOf, EndsHold
<1>3. pc'[c] \in {"idle"} \cup Answered
  BY DEF Answer, TypeOK
<1>4. TargetsExist'
  BY <1>2, <1>3 DEF TargetsExist, EndsHold, Answered
<1>5. AvailableNonNegative'
  BY DEF AvailableNonNegative
<1>6. BalanceOwned'
  BY <1>2, <1>3 DEF BalanceOwned, Answered
<1>7. PlanCovered'
  BY <1>2, <1>3 DEF PlanCovered, Answered, DrawsOnPoints
<1> QED BY <1>1, <1>4, <1>5, <1>6, <1>7

\* Looking up a key, answered or not, keeps LockInv.
LEMMA BeginKeepsLockInv ==
  ASSUME LockInv, NEW c \in Calls, Begin(c)
  PROVE  LockInv'
<1>1. PICK h \in TargetHolds(c) :
        \/ KeyPosted(Call[c].key) /\ Answer(c, "existing")
        \/ /\ ~ KeyPosted(Call[c].key)
           /\ pc' = [pc EXCEPT ![c] = "open"]
           /\ target' = [target EXCEPT ![c] = h]
           /\ UNCHANGED <<seen, take>>
  BY DEF Begin
<1>2. UNCHANGED <<rows, aborts>>
  BY DEF Begin
<1>3. CASE Answer(c, "existing")
  BY <1>2, <1>3, AnswerKeepsLockInv DEF Answered, LockInv, TypeOK
<1>4. CASE /\ pc' = [pc EXCEPT ![c] = "open"]
           /\ target' = [target EXCEPT ![c] = h]
           /\ UNCHANGED <<seen, take>>
  <2> USE DEF LockInv, rows
  <2>1. h \in 0..Len(holds)
    BY DEF TargetHolds, TypeOK
  <2>2. TypeOK'
    BY <1>2, <1>4, <2>1 DEF TypeOK, BalanceRow, Lot, HoldRow, LedgerRow, Keys, Refs
  <2>3. \A d \in Calls : d # c => /\ pc'[d] = pc[d] /\ target'[d] = target[d]
                                  /\ take'[d] = take[d] /\ WalletOf(d)' = WalletOf(d)
    BY <1>2, <1>4 DEF TypeOK, WalletOf, EndsHold
  <2>4. pc'[c] = "open" /\ target'[c] = h
    BY <1>4 DEF TypeOK
  <2>5. EndsHold(c) => h \in DOMAIN holds
    BY DEF TargetHolds
  <2>6. TargetsExist'
    BY <1>2, <2>3, <2>4, <2>5 DEF TargetsExist, EndsHold
  <2>7. AvailableNonNegative'
    BY <1>2 DEF AvailableNonNegative
  <2>8. BalanceOwned'
    BY <2>3, <2>4 DEF BalanceOwned
  <2>9. PlanCovered'
    BY <1>2, <2>3, <2>4 DEF PlanCovered, DrawsOnPoints
  <2> QED BY <2>2, <2>6, <2>7, <2>8, <2>9
<1> QED BY <1>1, <1>3, <1>4

\* Locking the hold a release or consume refers to keeps LockInv.
LEMMA LockHoldKeepsLockInv ==
  ASSUME LockInv, NEW c \in Calls, LockHold(c)
  PROVE  LockInv'
<1>1. UNCHANGED <<rows, aborts>> /\ pc[c] = "open" /\ EndsHold(c)
  BY DEF LockHold
<1>2. CASE Answer(c, "existing") \/ Answer(c, "refused")
  BY <1>1, <1>2, AnswerKeepsLockInv DEF Answered, LockInv, TypeOK
<1>3. CASE /\ pc' = [pc EXCEPT ![c] = "holdLocked"]
           /\ UNCHANGED locals
  <2> USE DEF LockInv, rows, locals
  <2>1. TypeOK'
    <3>1. pc' \in [Calls -> {"idle", "open", "holdLocked", "ready"} \cup Answered]
      BY <1>3 DEF TypeOK
    <3> QED BY <1>1, <1>3, <3>1 DEF TypeOK
  <2>2. \A d \in Calls : d # c => pc'[d] = pc[d]
    BY <1>3 DEF TypeOK
  <2>3. pc'[c] = "holdLocked"
    BY <1>3 DEF TypeOK
  <2>4. TargetsExist'
    BY <1>1, <1>3, <2>2 DEF TargetsExist, EndsHold
  <2>5. AvailableNonNegative'
    BY <1>1 DEF AvailableNonNegative
  <2>6. BalanceOwned'
    BY <1>1, <1>3, <2>2, <2>3 DEF BalanceOwned, WalletOf, EndsHold
  <2>7. PlanCovered'
    BY <1>1, <1>3, <2>2, <2>3 DEF PlanCovered, DrawsOnPoints
  <2> QED BY <2>1, <2>4, <2>5, <2>6, <2>7
<1> QED BY <1>2, <1>3 DEF LockHold

\* Locking the balance and planning under that lock establishes the plan of LockInv.
LEMMA LockBalanceKeepsLockInv ==
  ASSUME LockInv, NEW c \in Calls, LockBalance(c)
  PROVE  LockInv'
<1> DEFINE w == WalletOf(c)
<1>1. /\ UNCHANGED <<rows, aborts>>
      /\ pc[c] \in {"open", "holdLocked"}
      /\ ~ BalanceLocked(w)
  BY DEF LockBalance
<1>2. CASE Answer(c, "existing") \/ Answer(c, "refused")
  BY <1>1, <1>2, AnswerKeepsLockInv DEF Answered, LockInv, TypeOK
<1>3. CASE /\ pc' = [pc EXCEPT ![c] = "ready"]
           /\ seen' = [seen EXCEPT ![c] = [available |-> available[w], held |-> held[w]]]
           /\ take' = [take EXCEPT ![c] =
                         IF EndsHold(c) THEN holds[target[c]].alloc
                         ELSE IF DrawsOnPoints(c) THEN PlanLotConsumption(c) ELSE <<>>]
           /\ UNCHANGED target
  <2> USE DEF LockInv, rows, locals
  <2>0. EndsHold(c) => target[c] \in DOMAIN holds
    BY <1>1 DEF TargetsExist
  <2>1. w \in Wallets
    BY <2>0, HoldsTyped, WalletLedgerAssumption DEF WalletOf
  <2>2. EndsHold(c) => holds[target[c]].alloc \in Seq(Nat)
    BY <2>0, HoldsTyped
  <2>3. TypeOK'
    <3>1. pc' \in [Calls -> {"idle", "open", "holdLocked", "ready"} \cup Answered]
      BY <1>3 DEF TypeOK
    <3>2. seen' \in [Calls -> BalanceRow]
      BY <1>3, <2>1 DEF TypeOK, BalanceRow
    <3>3. take'[c] \in Seq(Nat)
      BY <1>3, <2>2, PlanType DEF TypeOK
    <3>4. take' \in [Calls -> Seq(Nat)]
      BY <1>3, <3>3 DEF TypeOK
    <3> QED BY <1>1, <1>3, <3>1, <3>2, <3>4 DEF TypeOK
  <2>4. \A d \in Calls : d # c => pc'[d] = pc[d] /\ take'[d] = take[d]
    BY <1>3 DEF TypeOK
  <2>5. pc'[c] = "ready"
    BY <1>3 DEF TypeOK
  <2>6. TargetsExist'
    BY <1>1, <1>3, <2>4 DEF TargetsExist, EndsHold
  <2>7. AvailableNonNegative'
    BY <1>1 DEF AvailableNonNegative
  <2>8. BalanceOwned'
    BY <1>1, <1>3, <2>4, <2>5 DEF BalanceOwned, BalanceLocked, WalletOf, EndsHold
  <2>9. DrawsOnPoints(c) =>
          /\ DOMAIN take'[c] = DOMAIN lots[Call[c].wallet]
          /\ \A i \in DOMAIN take'[c] : take'[c][i] <= lots[Call[c].wallet][i].available
    <3>1. DrawsOnPoints(c) => take'[c] = PlanLotConsumption(c)
      BY <1>3 DEF DrawsOnPoints, EndsHold, TypeOK
    <3> QED BY <3>1, PlanWithinLots, LotsOfWallet, WalletLedgerAssumption
  <2>10. PlanCovered'
    BY <1>1, <2>4, <2>9 DEF PlanCovered, DrawsOnPoints
  <2> QED BY <2>3, <2>6, <2>7, <2>8, <2>10
<1> QED BY <1>2, <1>3 DEF LockBalance

-----------------------------------------------------------------------------
(* Steps that write the tables.  A committing transaction owns its balance *)
(* row, so the plans of the others concern other wallets.                  *)

\* A commit in one wallet leaves the plans made under the locks of others covered.
LEMMA CommitKeepsOthers ==
  ASSUME LockInv, NEW c \in Calls, NEW a \in Answered, Answer(c, a), pc[c] = "ready",
         TypeOK', AvailableNonNegative', DOMAIN holds \subseteq DOMAIN holds',
         \A h \in DOMAIN holds : holds'[h].wallet = holds[h].wallet,
         \A w \in Wallets : w # WalletOf(c) => lots'[w] = lots[w]
  PROVE  LockInv'
<1> USE DEF LockInv
<1>1. \A d \in Calls : d # c => /\ pc'[d] = pc[d] /\ target'[d] = target[d]
                                /\ take'[d] = take[d]
  BY DEF Answer, TypeOK
<1>2. pc'[c] = a /\ a # "ready" /\ a # "open" /\ a # "holdLocked"
  BY DEF Answer, TypeOK, Answered
<1>3. \A d \in Calls : pc'[d] = "ready" => d # c /\ WalletOf(d)' = WalletOf(d)
  BY <1>1, <1>2 DEF WalletOf, EndsHold, TargetsExist
<1>4. TargetsExist'
  BY <1>1, <1>2 DEF TargetsExist, EndsHold
<1>5. BalanceOwned'
  BY <1>1, <1>3 DEF BalanceOwned
<1>6. PlanCovered'
  <2> SUFFICES ASSUME NEW d \in Calls, pc'[d] = "ready", DrawsOnPoints(d)
               PROVE  /\ DOMAIN take'[d] = DOMAIN lots'[Call[d].wallet]
                      /\ \A i \in DOMAIN take'[d] :
                           take'[d][i] <= lots'[Call[d].wallet][i].available
    BY DEF PlanCovered, DrawsOnPoints
  <2>1. d # c /\ pc[d] = "ready" /\ WalletOf(d) # WalletOf(c)
    BY <1>1, <1>3 DEF BalanceOwned
  <2>2. WalletOf(d) = Call[d].wallet
    BY DEF WalletOf, EndsHold, DrawsOnPoints
  <2>3. lots'[Call[d].wallet] = lots[Call[d].wallet]
    BY <2>1, <2>2, WalletLedgerAssumption
  <2> QED BY <1>1, <2>1, <2>3 DEF PlanCovered
<1> QED BY <1>4, <1>5, <1>6

\* What is taken from a lot is a natural, and so is the part of one source.
LEMMA TakenNat ==
  ASSUME NEW t \in Seq(Nat), NEW i
  PROVE  Taken(t, i) \in Nat
  BY DEF Taken

\* The points of one source a plan takes are a natural.
LEMMA SourceTakeNat ==
  ASSUME TypeOK, NEW w \in Wallets, NEW t \in Seq(Nat), NEW s \in Sources
  PROVE  SourceTake(w, t, s) \in Nat
<1> DEFINE f == [i \in DOMAIN lots[w] |-> IF lots[w][i].source = s THEN Taken(t, i) ELSE 0]
<1>1. \A i \in 1..Len(lots[w]) : f[i] \in Nat
  BY LotsOfWallet, TakenNat
<1> HIDE DEF f
<1>2. SumTo(f, Len(lots[w])) \in Nat
  BY <1>1, LotsOfWallet, SumToNat
<1> QED BY <1>2 DEF SourceTake, f

Signs == {-1, 0, 1}

\* Adding or subtracting a plan keeps balances integers.
LEMMA MovedBalanceType ==
  ASSUME TypeOK, NEW c \in Calls, NEW w \in Wallets, NEW x \in Signs, NEW y \in Signs
  PROVE  MovedBalance(c, w, x, y) \in BalanceRow
<1>1. take[c] \in Seq(Nat) /\ seen[c] \in BalanceRow
  BY DEF TypeOK
<1>2. \A s \in Sources : SourceTake(w, take[c], s) \in Nat
  BY <1>1, SourceTakeNat
<1>3. ASSUME NEW s \in Sources
      PROVE  /\ seen[c].available[s] + x * SourceTake(w, take[c], s) \in Int
             /\ seen[c].held[s] + y * SourceTake(w, take[c], s) \in Int
  <2>1. seen[c].available[s] \in Int /\ seen[c].held[s] \in Int
    BY <1>1 DEF BalanceRow
  <2>2. x * SourceTake(w, take[c], s) \in Int /\ y * SourceTake(w, take[c], s) \in Int
    BY <1>2 DEF Signs
  <2> QED BY <2>1, <2>2
<1> QED BY <1>3 DEF MovedBalance, BalanceRow

\* Moving a plan between available and held keeps the lots typed.
LEMMA MoveLotsType ==
  ASSUME TypeOK, NEW w \in Wallets, NEW t \in Seq(Nat), NEW x \in Signs, NEW y \in Signs,
         MoveLots(w, t, x, y)
  PROVE  /\ lots' \in [Wallets -> Seq(Lot)]
         /\ \A v \in Wallets : v # w => lots'[v] = lots[v]
         /\ DOMAIN lots'[w] = DOMAIN lots[w]
         /\ \A i \in DOMAIN lots[w] :
              /\ lots'[w][i].source = lots[w][i].source
              /\ lots'[w][i].available = lots[w][i].available + x * Taken(t, i)
              /\ lots'[w][i].held = lots[w][i].held + y * Taken(t, i)
<1> DEFINE g == [i \in DOMAIN lots[w] |->
                  [source |-> lots[w][i].source,
                   available |-> lots[w][i].available + x * Taken(t, i),
                   held |-> lots[w][i].held + y * Taken(t, i)]]
<1>1. lots' = [lots EXCEPT ![w] = g]
  BY DEF MoveLots
<1>2. ASSUME NEW i \in DOMAIN lots[w]
      PROVE  /\ g[i] \in Lot
             /\ g[i].source = lots[w][i].source
             /\ g[i].available = lots[w][i].available + x * Taken(t, i)
             /\ g[i].held = lots[w][i].held + y * Taken(t, i)
  <2>1. Taken(t, i) \in Nat
    BY TakenNat
  <2>2. lots[w][i] \in Lot
    BY LotsOfWallet
  <2>3. x * Taken(t, i) \in Int /\ y * Taken(t, i) \in Int
    BY <2>1 DEF Signs
  <2> QED BY <2>2, <2>3 DEF Lot
<1>3. g \in [1..Len(lots[w]) -> Lot] /\ Len(lots[w]) \in Nat
  BY <1>2, LotsOfWallet
<1>4. DOMAIN g = DOMAIN lots[w]
  OBVIOUS
<1> HIDE DEF g
<1>5. g \in Seq(Lot)
  BY <1>3
<1>6. lots'[w] = g
  BY <1>1 DEF TypeOK
<1> QED BY <1>1, <1>2, <1>4, <1>5, <1>6 DEF TypeOK

\* Posting a ledger row keeps the ledger typed.
LEMMA PostType ==
  ASSUME TypeOK, NEW c \in Calls, WalletOf(c) \in Wallets,
         NEW kind \in {"CREDIT", "DEBIT", "HOLD", "RELEASED", "CONSUMED"},
         NEW amount \in Nat, NEW row \in BalanceRow, NEW h \in Nat,
         Post(c, kind, amount, row, h)
  PROVE  ledger' \in Seq(LedgerRow)
<1>1. \A r \in BalanceRow : TotalBalance(r) \in Int
  BY DEF BalanceRow, TotalBalance, BucketTotal
<1>2. TotalBalance(seen[c]) \in Int /\ TotalBalance(row) \in Int
  BY <1>1 DEF TypeOK
<1>3. Call[c].key \in Keys
  BY DEF Keys
<1> QED BY <1>2, <1>3 DEF Post, TypeOK, LedgerRow

\* Answering a call keeps its local state typed.
LEMMA AnswerType ==
  ASSUME TypeOK, NEW c \in Calls, NEW a \in {"idle"} \cup Answered, Answer(c, a),
         Len(holds) \in Nat, Len(holds') \in Nat, Len(holds) <= Len(holds')
  PROVE  /\ pc' \in [Calls -> {"idle", "open", "holdLocked", "ready"} \cup Answered]
         /\ target' \in [Calls -> 0..Len(holds')]
         /\ seen' \in [Calls -> BalanceRow]
         /\ take' \in [Calls -> Seq(Nat)]
<1>1. pc' \in [Calls -> {"idle", "open", "holdLocked", "ready"} \cup Answered]
  BY DEF Answer, TypeOK
<1>2. target' \in [Calls -> 0..Len(holds')]
  BY DEF Answer, TypeOK
<1>3. seen' \in [Calls -> BalanceRow]
  BY DEF Answer, TypeOK, NoRow, BalanceRow
<1>4. take' \in [Calls -> Seq(Nat)]
  BY DEF Answer, TypeOK
<1> QED BY <1>1, <1>2, <1>3, <1>4

\* Writing a balance keeps the balances typed.
LEMMA WriteBalanceType ==
  ASSUME TypeOK, NEW w \in Wallets, NEW row \in BalanceRow, WriteBalance(w, row)
  PROVE  /\ available' \in [Wallets -> [Sources -> Int]]
         /\ held' \in [Wallets -> [Sources -> Int]]
  BY DEF WriteBalance, TypeOK, BalanceRow

-----------------------------------------------------------------------------
\* A committing credit appends a lot and keeps LockInv.
LEMMA CommitCreditKeepsLockInv ==
  ASSUME LockInv, NEW c \in Calls, CommitCredit(c)
  PROVE  LockInv'
<1> DEFINE w == Call[c].wallet
           row == [available |-> [seen[c].available EXCEPT ![Call[c].source] = @ + Call[c].amount],
                   held |-> seen[c].held]
           lot == [source |-> Call[c].source, available |-> Call[c].amount, held |-> 0]
<1> USE DEF LockInv
<1>1. /\ pc[c] = "ready" /\ Call[c].op = "credit" /\ UNCHANGED <<aborts, holds>>
      /\ lots' = [lots EXCEPT ![w] = Append(@, lot)]
      /\ WriteBalance(w, row)
      /\ Post(c, "CREDIT", Call[c].amount, row, 0)
      /\ Answer(c, "posted")
  BY DEF CommitCredit, Committing
<1>2. w \in Wallets /\ Call[c].amount \in Nat /\ Call[c].source \in Sources /\ WalletOf(c) = w
  BY <1>1, WalletLedgerAssumption DEF WalletOf, EndsHold
<1>3. row \in BalanceRow
  <2>1. seen[c] \in BalanceRow
    BY DEF TypeOK
  <2> QED BY <1>2, <2>1 DEF BalanceRow
<1>4. lot \in Lot
  BY <1>2 DEF Lot
<1>5. lots[w] \in Seq(Lot)
  BY <1>2, LotsOfWallet
<1>6. lots' \in [Wallets -> Seq(Lot)]
  <2>1. Append(lots[w], lot) \in Seq(Lot)
    BY <1>4, <1>5
  <2> QED BY <1>1, <2>1 DEF TypeOK
<1>7. TypeOK'
  <2>1. /\ available' \in [Wallets -> [Sources -> Int]]
        /\ held' \in [Wallets -> [Sources -> Int]]
    BY <1>1, <1>2, <1>3, WriteBalanceType
  <2>2. ledger' \in Seq(LedgerRow)
    BY <1>1, <1>2, <1>3, PostType
  <2>3. /\ pc' \in [Calls -> {"idle", "open", "holdLocked", "ready"} \cup Answered]
        /\ target' \in [Calls -> 0..Len(holds')]
        /\ seen' \in [Calls -> BalanceRow]
        /\ take' \in [Calls -> Seq(Nat)]
    BY <1>1, HoldsTyped, AnswerType DEF Answered
  <2> QED BY <1>1, <1>6, <2>1, <2>2, <2>3 DEF TypeOK
<1>8. AvailableNonNegative'
  <2>1. lots'[w] = Append(lots[w], lot)
    BY <1>1, <1>2 DEF TypeOK
  <2>2. \A v \in Wallets : v # w => lots'[v] = lots[v]
    BY <1>1, <1>2 DEF TypeOK
  <2>3. /\ DOMAIN lots'[w] = 1..Len(lots[w])+1
        /\ \A i \in DOMAIN lots[w] : lots'[w][i] = lots[w][i]
        /\ lots'[w][Len(lots[w])+1] = lot
    <3> HIDE DEF lot, w, LockInv
    <3> QED BY <2>1, <1>4, <1>5
  <2>4. \A i \in DOMAIN lots'[w] : lots'[w][i].available >= 0
    <3> SUFFICES ASSUME NEW i \in DOMAIN lots'[w] PROVE lots'[w][i].available >= 0
      OBVIOUS
    <3>1. CASE i \in DOMAIN lots[w]
      BY <3>1, <2>3, <1>2, Zenon DEF AvailableNonNegative
    <3>2. CASE i = Len(lots[w])+1
      BY <3>2, <2>3, <1>2
    <3> QED BY <3>1, <3>2, <2>3, <1>2, LotsOfWallet
  <2> QED BY <2>2, <2>4 DEF AvailableNonNegative
<1>9. \A v \in Wallets : v # WalletOf(c) => lots'[v] = lots[v]
  BY <1>1, <1>2 DEF TypeOK
<1> QED BY <1>1, <1>7, <1>8, <1>9, CommitKeepsOthers DEF Answered

\* A committing debit takes its plan from the available points and keeps LockInv.
LEMMA CommitDebitKeepsLockInv ==
  ASSUME LockInv, NEW c \in Calls, CommitDebit(c)
  PROVE  LockInv'
<1> DEFINE w == Call[c].wallet
           row == MovedBalance(c, w, -1, 0)
<1> USE DEF LockInv
<1>1. /\ pc[c] = "ready" /\ Call[c].op = "debit" /\ UNCHANGED <<aborts, holds>>
      /\ MoveLots(w, take[c], -1, 0)
      /\ WriteBalance(w, row)
      /\ Post(c, "DEBIT", Call[c].amount, row, 0)
      /\ Answer(c, "posted")
  BY DEF CommitDebit, Committing
<1>2. w \in Wallets /\ Call[c].amount \in Nat /\ WalletOf(c) = w /\ take[c] \in Seq(Nat)
  BY <1>1, WalletLedgerAssumption DEF WalletOf, EndsHold, TypeOK
<1>3. row \in BalanceRow
  BY <1>2, MovedBalanceType DEF Signs
<1>4. /\ lots' \in [Wallets -> Seq(Lot)]
      /\ \A v \in Wallets : v # w => lots'[v] = lots[v]
      /\ DOMAIN lots'[w] = DOMAIN lots[w]
      /\ \A i \in DOMAIN lots[w] :
           lots'[w][i].available = lots[w][i].available + (-1) * Taken(take[c], i)
  BY <1>1, <1>2, MoveLotsType DEF Signs
<1> HIDE DEF row
<1>5. TypeOK'
  <2>1. /\ available' \in [Wallets -> [Sources -> Int]]
        /\ held' \in [Wallets -> [Sources -> Int]]
    BY <1>1, <1>2, <1>3, WriteBalanceType
  <2>2. ledger' \in Seq(LedgerRow)
    BY <1>1, <1>2, <1>3, PostType
  <2>3. /\ pc' \in [Calls -> {"idle", "open", "holdLocked", "ready"} \cup Answered]
        /\ target' \in [Calls -> 0..Len(holds')]
        /\ seen' \in [Calls -> BalanceRow]
        /\ take' \in [Calls -> Seq(Nat)]
    BY <1>1, HoldsTyped, AnswerType DEF Answered
  <2> QED BY <1>1, <1>4, <2>1, <2>2, <2>3 DEF TypeOK
<1>6. AvailableNonNegative'
  <2>1. \A i \in DOMAIN lots[w] : Taken(take[c], i) <= lots[w][i].available
    BY <1>1, <1>2 DEF PlanCovered, DrawsOnPoints, Taken
  <2>2. \A i \in DOMAIN lots[w] : Taken(take[c], i) \in Nat /\ lots[w][i].available \in Int
    BY <1>2, TakenNat, LotsOfWallet
  <2>3. \A i \in DOMAIN lots'[w] : lots'[w][i].available >= 0
    <3>1. \A n \in Nat : (-1) * n = - n
      OBVIOUS
    <3>2. \A i \in DOMAIN lots[w] :
            lots'[w][i].available = lots[w][i].available - Taken(take[c], i)
      BY <1>4, <2>2, <3>1
    <3> SUFFICES ASSUME NEW i \in DOMAIN lots'[w] PROVE lots'[w][i].available >= 0
      OBVIOUS
    <3>3. i \in DOMAIN lots[w]
      BY <1>4
    <3> QED BY <2>1, <2>2, <3>2, <3>3
  <2>4. ASSUME NEW v \in Wallets, v # w PROVE \A i \in DOMAIN lots'[v] : lots'[v][i].available >= 0
    BY <1>4, <2>4, Zenon DEF AvailableNonNegative
  <2> QED BY <2>3, <2>4, Zenon DEF AvailableNonNegative
<1> QED BY <1>1, <1>2, <1>4, <1>5, <1>6, CommitKeepsOthers DEF Answered

\* A committing hold moves its plan from available to held and keeps LockInv.
LEMMA CommitHoldKeepsLockInv ==
  ASSUME LockInv, NEW c \in Calls, CommitHold(c)
  PROVE  LockInv'
<1> DEFINE w == Call[c].wallet
           row == MovedBalance(c, w, -1, 1)
           new == [wallet |-> w, type |-> Call[c].type, ref |-> Call[c].ref,
                   amount |-> Call[c].amount, status |-> "ACTIVE", alloc |-> take[c]]
<1> USE DEF LockInv
<1>1. /\ pc[c] = "ready" /\ Call[c].op = "hold" /\ UNCHANGED aborts
      /\ holds' = Append(holds, new)
      /\ MoveLots(w, take[c], -1, 1)
      /\ WriteBalance(w, row)
      /\ Post(c, "HOLD", Call[c].amount, row, Len(holds) + 1)
      /\ Answer(c, "posted")
  BY DEF CommitHold, Committing
<1>2. w \in Wallets /\ Call[c].amount \in Nat /\ WalletOf(c) = w /\ take[c] \in Seq(Nat)
  BY <1>1, WalletLedgerAssumption DEF WalletOf, EndsHold, TypeOK
<1>3. row \in BalanceRow
  BY <1>2, MovedBalanceType DEF Signs
<1>4. /\ lots' \in [Wallets -> Seq(Lot)]
      /\ \A v \in Wallets : v # w => lots'[v] = lots[v]
      /\ DOMAIN lots'[w] = DOMAIN lots[w]
      /\ \A i \in DOMAIN lots[w] :
           lots'[w][i].available = lots[w][i].available + (-1) * Taken(take[c], i)
  BY <1>1, <1>2, MoveLotsType DEF Signs
<1> HIDE DEF row
<1>5. /\ holds' \in Seq(HoldRow)
      /\ Len(holds') = Len(holds) + 1
      /\ DOMAIN holds \subseteq DOMAIN holds'
      /\ \A h \in DOMAIN holds : holds'[h] = holds[h]
  <2>1. new \in HoldRow
    BY <1>2, WalletLedgerAssumption DEF HoldRow, Refs
  <2>2. holds \in Seq(HoldRow)
    BY DEF TypeOK
  <2> HIDE DEF new
  <2> QED BY <1>1, <2>1, <2>2
<1>6. TypeOK'
  <2>1. /\ available' \in [Wallets -> [Sources -> Int]]
        /\ held' \in [Wallets -> [Sources -> Int]]
    BY <1>1, <1>2, <1>3, WriteBalanceType
  <2>2. ledger' \in Seq(LedgerRow)
    BY <1>1, <1>2, <1>3, PostType, HoldsTyped
  <2>3. /\ pc' \in [Calls -> {"idle", "open", "holdLocked", "ready"} \cup Answered]
        /\ target' \in [Calls -> 0..Len(holds')]
        /\ seen' \in [Calls -> BalanceRow]
        /\ take' \in [Calls -> Seq(Nat)]
    BY <1>1, <1>5, HoldsTyped, AnswerType DEF Answered
  <2> QED BY <1>1, <1>4, <1>5, <2>1, <2>2, <2>3 DEF TypeOK
<1>7. AvailableNonNegative'
  <2>1. \A i \in DOMAIN lots[w] : Taken(take[c], i) <= lots[w][i].available
    BY <1>1, <1>2 DEF PlanCovered, DrawsOnPoints, Taken
  <2>2. \A i \in DOMAIN lots[w] : Taken(take[c], i) \in Nat /\ lots[w][i].available \in Int
    BY <1>2, TakenNat, LotsOfWallet
  <2>3. \A i \in DOMAIN lots'[w] : lots'[w][i].available >= 0
    <3>1. \A n \in Nat : (-1) * n = - n
      OBVIOUS
    <3>2. \A i \in DOMAIN lots[w] :
            lots'[w][i].available = lots[w][i].available - Taken(take[c], i)
      BY <1>4, <2>2, <3>1
    <3> SUFFICES ASSUME NEW i \in DOMAIN lots'[w] PROVE lots'[w][i].available >= 0
      OBVIOUS
    <3>3. i \in DOMAIN lots[w]
      BY <1>4
    <3> QED BY <2>1, <2>2, <3>2, <3>3
  <2>4. ASSUME NEW v \in Wallets, v # w PROVE \A i \in DOMAIN lots'[v] : lots'[v][i].available >= 0
    BY <1>4, <2>4, Zenon DEF AvailableNonNegative
  <2> QED BY <2>3, <2>4, Zenon DEF AvailableNonNegative
<1>8. \A h \in DOMAIN holds : holds'[h].wallet = holds[h].wallet
  BY <1>5
<1> QED BY <1>1, <1>2, <1>4, <1>5, <1>6, <1>7, <1>8, CommitKeepsOthers DEF Answered

\* A committing release or consume ends its hold and keeps LockInv.
LEMMA EndHoldKeepsLockInv ==
  ASSUME LockInv, NEW c \in Calls, NEW op \in {"release", "consume"}, NEW x \in {0, 1},
         EndHold(c, op, x)
  PROVE  LockInv'
<1> DEFINE g == target[c]
           w == holds[g].wallet
           row == MovedBalance(c, w, x, -1)
<1> USE DEF LockInv
<1>1. /\ pc[c] = "ready" /\ EndsHold(c) /\ UNCHANGED aborts
      /\ MoveLots(w, take[c], x, -1)
      /\ holds' = [holds EXCEPT ![g].status = HoldEndedBy(op)]
      /\ WriteBalance(w, row)
      /\ Post(c, HoldEndedBy(op), holds[g].amount, row, g)
      /\ Answer(c, "posted")
  BY DEF EndHold, Committing, EndsHold
<1>2. g \in DOMAIN holds /\ WalletOf(c) = w
  BY <1>1 DEF TargetsExist, WalletOf
<1>3. w \in Wallets /\ holds[g].amount \in Nat /\ take[c] \in Seq(Nat) /\ g \in Nat
  BY <1>2, HoldsTyped DEF TypeOK
<1>4. row \in BalanceRow
  BY <1>3, MovedBalanceType DEF Signs
<1>5. /\ lots' \in [Wallets -> Seq(Lot)]
      /\ \A v \in Wallets : v # w => lots'[v] = lots[v]
      /\ DOMAIN lots'[w] = DOMAIN lots[w]
      /\ \A i \in DOMAIN lots[w] :
           lots'[w][i].available = lots[w][i].available + x * Taken(take[c], i)
  <2>1. x \in Signs /\ -1 \in Signs
    BY DEF Signs
  <2> QED BY <1>1, <1>3, <2>1, MoveLotsType, ZenonT(30)
<1> HIDE DEF row
<1>6. /\ holds' \in Seq(HoldRow)
      /\ Len(holds') = Len(holds)
      /\ DOMAIN holds' = DOMAIN holds
      /\ \A h \in DOMAIN holds : holds'[h].wallet = holds[h].wallet
  <2>1. holds \in Seq(HoldRow) /\ holds[g] \in HoldRow
    BY <1>2, HoldsTyped DEF TypeOK
  <2>2. HoldEndedBy(op) \in {"RELEASED", "CONSUMED"}
    BY DEF HoldEndedBy
  <2> DEFINE r == [holds[g] EXCEPT !.status = HoldEndedBy(op)]
  <2>3. r \in HoldRow /\ r.wallet = holds[g].wallet
    BY <2>1, <2>2 DEF HoldRow
  <2>4. holds' = [holds EXCEPT ![g] = r]
    BY <1>1
  <2> HIDE DEF r
  <2> QED BY <1>2, <2>1, <2>3, <2>4
<1>7. TypeOK'
  <2>1. /\ available' \in [Wallets -> [Sources -> Int]]
        /\ held' \in [Wallets -> [Sources -> Int]]
    BY <1>1, <1>3, <1>4, WriteBalanceType
  <2>2. ledger' \in Seq(LedgerRow)
    BY <1>1, <1>2, <1>3, <1>4, PostType DEF HoldEndedBy
  <2>3. /\ pc' \in [Calls -> {"idle", "open", "holdLocked", "ready"} \cup Answered]
        /\ target' \in [Calls -> 0..Len(holds')]
        /\ seen' \in [Calls -> BalanceRow]
        /\ take' \in [Calls -> Seq(Nat)]
    BY <1>1, <1>6, HoldsTyped, AnswerType DEF Answered
  <2> QED BY <1>1, <1>5, <1>6, <2>1, <2>2, <2>3 DEF TypeOK
<1>8. AvailableNonNegative'
  <2>1. \A i \in DOMAIN lots[w] : Taken(take[c], i) \in Nat /\ lots[w][i].available \in Nat
    BY <1>3, TakenNat, LotsOfWallet DEF AvailableNonNegative
  <2>2. \A n \in Nat : 0 * n = 0 /\ 1 * n = n
    OBVIOUS
  <2>3. ASSUME NEW i \in DOMAIN lots[w] PROVE lots'[w][i].available >= 0
    <3>1. /\ lots'[w][i].available = lots[w][i].available + x * Taken(take[c], i)
          /\ Taken(take[c], i) \in Nat /\ lots[w][i].available \in Nat
      BY <1>5, <2>1, Zenon
    <3>2. CASE x = 0
      BY <2>2, <3>1, <3>2
    <3>3. CASE x = 1
      BY <2>2, <3>1, <3>3
    <3> QED BY <3>2, <3>3
  <2>4. \A i \in DOMAIN lots'[w] : lots'[w][i].available >= 0
    BY <1>5, <2>3
  <2> QED BY <1>5, <2>4 DEF AvailableNonNegative
<1> QED BY <1>1, <1>2, <1>5, <1>6, <1>7, <1>8, CommitKeepsOthers DEF Answered

\* LockInv is inductive: one case per action of Next.
LEMMA StepKeepsLockInv == LockInv /\ [Next]_vars => LockInv'
<1> SUFFICES ASSUME LockInv, [Next]_vars PROVE LockInv'
  OBVIOUS
<1>1. ASSUME NEW c \in Calls, Begin(c) PROVE LockInv'
  BY <1>1, BeginKeepsLockInv
<1>2. ASSUME NEW c \in Calls, LockHold(c) PROVE LockInv'
  BY <1>2, LockHoldKeepsLockInv
<1>3. ASSUME NEW c \in Calls, LockBalance(c) PROVE LockInv'
  BY <1>3, LockBalanceKeepsLockInv
<1>4. ASSUME NEW c \in Calls, Commit(c) PROVE LockInv'
  BY <1>4, CommitCreditKeepsLockInv, CommitDebitKeepsLockInv, CommitHoldKeepsLockInv,
     EndHoldKeepsLockInv DEF Commit, CommitRelease, CommitConsume
<1>5. ASSUME NEW c \in Calls, LoseUniqueRace(c) PROVE LockInv'
  <2>1. /\ UNCHANGED rows /\ aborts' \in 0..MaxAborts
        /\ Answer(c, "existing") \/ Answer(c, "refused")
    BY <1>5 DEF LoseUniqueRace, LockInv, TypeOK
  <2> QED BY <2>1, AnswerKeepsLockInv DEF Answered
<1>6. ASSUME NEW c \in Calls, Abort(c) PROVE LockInv'
  <2>1. UNCHANGED rows /\ aborts' \in 0..MaxAborts /\ Answer(c, "idle")
    BY <1>6, WalletLedgerAssumption DEF Abort, LockInv, TypeOK
  <2> QED BY <2>1, AnswerKeepsLockInv
<1>7. CASE UNCHANGED vars
  BY <1>7 DEF vars, rows, locals, LockInv, TypeOK, TargetsExist, AvailableNonNegative,
              BalanceOwned, PlanCovered, WalletOf
<1> QED
  BY <1>1, <1>2, <1>3, <1>4, <1>5, <1>6, <1>7 DEF Next, Advance, Quiescent

\* Every table and every running transaction keeps its type, whatever the
\* wallets, the requests and the number of failed transactions.
THEOREM TypeCorrect == Spec => []TypeOK
<1>1. LockInv => TypeOK
  BY DEF LockInv
<1> QED BY InitLockInv, StepKeepsLockInv, <1>1, PTL DEF Spec

-----------------------------------------------------------------------------
(* Balances and lots.  A committing transaction computed the new balance   *)
(* row from the one it read; that row is still current because nobody else *)
(* can have owned it in between.                                           *)

SeenCurrent ==
  \A c \in Calls : pc[c] = "ready" =>
    seen[c].available = available[WalletOf(c)] /\ seen[c].held = held[WalletOf(c)]

DriftInv == LockInv /\ SeenCurrent /\ NoDrift

\* Moving planned points changes the total of each source by what the plan
\* takes from it, and no total of another wallet.
LEMMA MoveLotsTotals ==
  ASSUME TypeOK, NEW w \in Wallets, NEW t \in Seq(Nat), NEW x \in Signs, NEW y \in Signs,
         MoveLots(w, t, x, y), NEW s \in Sources
  PROVE  /\ LotAvailable(w, s)' = LotAvailable(w, s) + x * SourceTake(w, t, s)
         /\ LotHeld(w, s)' = LotHeld(w, s) + y * SourceTake(w, t, s)
<1> DEFINE n == Len(lots[w])
           g == [i \in DOMAIN lots[w] |-> IF lots[w][i].source = s THEN Taken(t, i) ELSE 0]
           a == [i \in DOMAIN lots[w] |->
                   IF lots[w][i].source = s THEN lots[w][i].available ELSE 0]
           b == [i \in DOMAIN lots[w] |-> IF lots[w][i].source = s THEN lots[w][i].held ELSE 0]
           a2 == [i \in DOMAIN lots'[w] |->
                   IF lots'[w][i].source = s THEN lots'[w][i].available ELSE 0]
           b2 == [i \in DOMAIN lots'[w] |->
                   IF lots'[w][i].source = s THEN lots'[w][i].held ELSE 0]
<1>1. n \in Nat /\ DOMAIN lots[w] = 1..n /\ DOMAIN lots'[w] = 1..n
  BY LotsOfWallet, MoveLotsType
<1>2. Len(lots'[w]) = n
  <2>1. lots'[w] \in Seq(Lot)
    BY MoveLotsType
  <2> QED BY <1>1, <2>1
<1>3. ASSUME NEW i \in 1..n
      PROVE  /\ a[i] \in Int /\ b[i] \in Int /\ g[i] \in Int
             /\ a2[i] = a[i] + x * g[i]
             /\ b2[i] = b[i] + y * g[i]
  <2>1. Taken(t, i) \in Nat /\ lots[w][i].available \in Int /\ lots[w][i].held \in Int
    BY <1>1, TakenNat, LotsOfWallet
  <2>2. x * 0 = 0 /\ y * 0 = 0
    BY DEF Signs
  <2> QED BY <1>1, <2>1, <2>2, MoveLotsType
<1>4. /\ LotAvailable(w, s) = SumTo(a, n) /\ LotAvailable(w, s)' = SumTo(a2, n)
      /\ LotHeld(w, s) = SumTo(b, n) /\ LotHeld(w, s)' = SumTo(b2, n)
      /\ SourceTake(w, t, s) = SumTo(g, n)
  BY <1>2 DEF LotAvailable, LotHeld, SourceTake
<1> HIDE DEF a, b, a2, b2, g, n
<1>0. n \in Nat
  BY <1>1
<1>8. x \in {-1, 0, 1}
  BY DEF Signs
<1>9. y \in {-1, 0, 1}
  BY DEF Signs
<1>6. SumTo(a2, n) = SumTo(a, n) + x * SumTo(g, n)
  <2>1. \A i \in 1..n : a[i] \in Int /\ g[i] \in Int /\ a2[i] = a[i] + x * g[i]
    BY <1>3
  <2> QED BY ONLY ZenonT(30), <1>0, <1>8, <2>1, SumToSigned
<1>7. SumTo(b2, n) = SumTo(b, n) + y * SumTo(g, n)
  <2>1. \A i \in 1..n : b[i] \in Int /\ g[i] \in Int /\ b2[i] = b[i] + y * g[i]
    BY <1>3
  <2> QED BY ONLY ZenonT(30), <1>0, <1>9, <2>1, SumToSigned
<1> QED BY <1>4, <1>6, <1>7

\* One more lot adds its points to its source.
LEMMA AppendLotTotals ==
  ASSUME TypeOK, NEW w \in Wallets, NEW lot \in Lot,
         lots' = [lots EXCEPT ![w] = Append(@, lot)], NEW s \in Sources
  PROVE  /\ LotAvailable(w, s)' =
              LotAvailable(w, s) + (IF lot.source = s THEN lot.available ELSE 0)
         /\ LotHeld(w, s)' = LotHeld(w, s) + (IF lot.source = s THEN lot.held ELSE 0)
<1> DEFINE n == Len(lots[w])
           a == [i \in DOMAIN lots[w] |->
                   IF lots[w][i].source = s THEN lots[w][i].available ELSE 0]
           b == [i \in DOMAIN lots[w] |-> IF lots[w][i].source = s THEN lots[w][i].held ELSE 0]
           a2 == [i \in DOMAIN lots'[w] |->
                   IF lots'[w][i].source = s THEN lots'[w][i].available ELSE 0]
           b2 == [i \in DOMAIN lots'[w] |->
                   IF lots'[w][i].source = s THEN lots'[w][i].held ELSE 0]
<1>1. n \in Nat /\ DOMAIN lots[w] = 1..n /\ lots[w] \in Seq(Lot)
  BY LotsOfWallet
<1>2. lots'[w] = Append(lots[w], lot)
  BY DEF TypeOK
<1>3. /\ Len(lots'[w]) = n + 1
      /\ DOMAIN lots'[w] = 1..n+1
      /\ \A i \in 1..n : lots'[w][i] = lots[w][i]
      /\ lots'[w][n+1] = lot
  BY <1>1, <1>2
<1>4. /\ \A i \in 1..n : a2[i] = a[i] /\ b2[i] = b[i]
      /\ a2[n+1] = IF lot.source = s THEN lot.available ELSE 0
      /\ b2[n+1] = IF lot.source = s THEN lot.held ELSE 0
  BY <1>1, <1>3
<1>5. /\ LotAvailable(w, s) = SumTo(a, n) /\ LotAvailable(w, s)' = SumTo(a2, n+1)
      /\ LotHeld(w, s) = SumTo(b, n) /\ LotHeld(w, s)' = SumTo(b2, n+1)
  BY <1>3 DEF LotAvailable, LotHeld
<1> HIDE DEF a, b, a2, b2, n
<1>6. SumTo(a2, n) = SumTo(a, n) /\ SumTo(b2, n) = SumTo(b, n)
  BY <1>1, <1>4, SumToEqual
<1>7. n + 1 \in Nat \ {0} /\ (n + 1) - 1 = n
  BY <1>1
<1>8. /\ SumTo(a2, n+1) = SumTo(a2, n) + a2[n+1]
      /\ SumTo(b2, n+1) = SumTo(b2, n) + b2[n+1]
  BY <1>7, SumToStep
<1> QED BY <1>4, <1>5, <1>6, <1>8

\* Totals of a wallet whose lots do not change stay as they are.
LEMMA SameLotsTotals ==
  ASSUME NEW v, lots'[v] = lots[v], NEW s
  PROVE  LotAvailable(v, s)' = LotAvailable(v, s) /\ LotHeld(v, s)' = LotHeld(v, s)
  BY DEF LotAvailable, LotHeld

\* A step that answers a request leaves the rows the others read current when
\* it only wrote the balance row the request owned.
LEMMA AnswerKeepsSeen ==
  ASSUME LockInv, SeenCurrent, NEW c \in Calls, NEW a \in {"idle"} \cup Answered, Answer(c, a),
         \A h \in DOMAIN holds : holds'[h].wallet = holds[h].wallet,
         \A w \in Wallets : (pc[c] = "ready" => w # WalletOf(c)) =>
            available'[w] = available[w] /\ held'[w] = held[w]
  PROVE  SeenCurrent'
<1> SUFFICES ASSUME NEW d \in Calls, pc'[d] = "ready"
             PROVE  seen'[d].available = available'[WalletOf(d)'] /\
                    seen'[d].held = held'[WalletOf(d)']
  BY DEF SeenCurrent
<1>1. d # c /\ pc[d] = "ready" /\ target'[d] = target[d] /\ seen'[d] = seen[d]
  BY DEF Answer, Answered, LockInv, TypeOK
<1>2. EndsHold(d) => target[d] \in DOMAIN holds
  BY <1>1 DEF LockInv, TargetsExist
<1>3. WalletOf(d)' = WalletOf(d) /\ WalletOf(d) \in Wallets
  BY <1>1, <1>2, HoldsTyped, WalletLedgerAssumption DEF WalletOf, EndsHold, LockInv
<1>4. pc[c] = "ready" => WalletOf(d) # WalletOf(c)
  BY <1>1 DEF LockInv, BalanceOwned
<1> QED BY <1>1, <1>3, <1>4 DEF SeenCurrent

\* Writing the row that was computed from the current one keeps every bucket
\* equal to its lots.
LEMMA WriteBalanceKeepsNoDrift ==
  ASSUME LockInv, SeenCurrent, NoDrift, NEW c \in Calls, pc[c] = "ready",
         NEW w \in Wallets, w = WalletOf(c), NEW row \in BalanceRow, WriteBalance(w, row),
         \A v \in Wallets : v # w => lots'[v] = lots[v],
         \A s \in Sources :
           /\ LotAvailable(w, s)' - LotAvailable(w, s) = row.available[s] - seen[c].available[s]
           /\ LotHeld(w, s)' - LotHeld(w, s) = row.held[s] - seen[c].held[s],
         \A s \in Sources : LotAvailable(w, s)' \in Int /\ LotHeld(w, s)' \in Int
  PROVE  /\ NoDrift'
         /\ \A v \in Wallets : v # w => available'[v] = available[v] /\ held'[v] = held[v]
<1>1. \A v \in Wallets : v # w => available'[v] = available[v] /\ held'[v] = held[v]
  BY DEF WriteBalance, LockInv, TypeOK
<1>2. available'[w] = row.available /\ held'[w] = row.held
  BY DEF WriteBalance, LockInv, TypeOK
<1>3. seen[c].available = available[w] /\ seen[c].held = held[w]
  BY DEF SeenCurrent
<1>4. ASSUME NEW s \in Sources
      PROVE  available'[w][s] = LotAvailable(w, s)' /\ held'[w][s] = LotHeld(w, s)'
  <2>1. available[w][s] = LotAvailable(w, s) /\ held[w][s] = LotHeld(w, s)
    BY DEF NoDrift
  <2>2. /\ available[w][s] \in Int /\ held[w][s] \in Int
        /\ row.available[s] \in Int /\ row.held[s] \in Int
    <3>1. available[w] \in [Sources -> Int] /\ held[w] \in [Sources -> Int]
      BY DEF LockInv, TypeOK
    <3>2. row.available \in [Sources -> Int] /\ row.held \in [Sources -> Int]
      BY DEF BalanceRow
    <3> QED BY <3>1, <3>2
  <2> QED BY <1>2, <1>3, <2>1, <2>2
<1>5. ASSUME NEW v \in Wallets, NEW s \in Sources, v # w
      PROVE  available'[v][s] = LotAvailable(v, s)' /\ held'[v][s] = LotHeld(v, s)'
  BY <1>1, <1>5, SameLotsTotals DEF NoDrift
<1> QED BY <1>1, <1>4, <1>5 DEF NoDrift

\* The sums over the lots of a wallet are integers.
LEMMA LotSumsInt ==
  ASSUME NEW L \in Seq(Lot), NEW s
  PROVE  /\ SumTo([i \in DOMAIN L |-> IF L[i].source = s THEN L[i].available ELSE 0], Len(L)) \in Int
         /\ SumTo([i \in DOMAIN L |-> IF L[i].source = s THEN L[i].held ELSE 0], Len(L)) \in Int
<1> DEFINE a == [i \in DOMAIN L |-> IF L[i].source = s THEN L[i].available ELSE 0]
           b == [i \in DOMAIN L |-> IF L[i].source = s THEN L[i].held ELSE 0]
<1>1. Len(L) \in Nat /\ DOMAIN L = 1..Len(L) /\ \A i \in 1..Len(L) : L[i] \in Lot
  OBVIOUS
<1>2. \A i \in 1..Len(L) : a[i] \in Int /\ b[i] \in Int
  BY <1>1 DEF Lot
<1> HIDE DEF a, b
<1>3. SumTo(a, Len(L)) \in Int /\ SumTo(b, Len(L)) \in Int
  BY <1>1, <1>2, SumToInt
<1> QED BY <1>3 DEF a, b

\* So are its totals by source.
LEMMA TotalsInt ==
  ASSUME TypeOK, TypeOK', NEW w \in Wallets, NEW s
  PROVE  /\ LotAvailable(w, s) \in Int /\ LotHeld(w, s) \in Int
         /\ LotAvailable(w, s)' \in Int /\ LotHeld(w, s)' \in Int
<1>1. lots[w] \in Seq(Lot) /\ lots'[w] \in Seq(Lot)
  BY DEF TypeOK
<1>2. LotAvailable(w, s) \in Int /\ LotHeld(w, s) \in Int
  BY <1>1, LotSumsInt DEF LotAvailable, LotHeld
<1>3. LotAvailable(w, s)' \in Int /\ LotHeld(w, s)' \in Int
  BY <1>1, LotSumsInt DEF LotAvailable, LotHeld
<1> QED BY <1>2, <1>3

\* A committing credit adds the same amount to a balance and to a lot.
LEMMA CreditKeepsDriftInv ==
  ASSUME DriftInv, LockInv', NEW c \in Calls, CommitCredit(c)
  PROVE  DriftInv'
<1> DEFINE w == Call[c].wallet
           row == [available |-> [seen[c].available EXCEPT ![Call[c].source] = @ + Call[c].amount],
                   held |-> seen[c].held]
           lot == [source |-> Call[c].source, available |-> Call[c].amount, held |-> 0]
<1> USE DEF DriftInv
<1>1. /\ pc[c] = "ready" /\ Call[c].op = "credit" /\ UNCHANGED holds
      /\ lots' = [lots EXCEPT ![w] = Append(@, lot)]
      /\ WriteBalance(w, row)
      /\ Answer(c, "posted")
  BY DEF CommitCredit, Committing
<1>2. w \in Wallets /\ Call[c].amount \in Nat /\ Call[c].source \in Sources /\ w = WalletOf(c)
  BY <1>1, WalletLedgerAssumption DEF WalletOf, EndsHold
<1>3. seen[c].available \in [Sources -> Int] /\ seen[c].held \in [Sources -> Int]
  BY DEF LockInv, TypeOK, BalanceRow
<1>4. row \in BalanceRow /\ lot \in Lot
  BY <1>2, <1>3 DEF BalanceRow, Lot
<1>5. \A v \in Wallets : v # w => lots'[v] = lots[v]
  BY <1>1 DEF LockInv, TypeOK
<1>6. TypeOK /\ TypeOK'
  BY DEF LockInv
<1>7. \A s \in Sources : LotAvailable(w, s)' \in Int /\ LotHeld(w, s)' \in Int
  BY <1>2, <1>6, TotalsInt
<1>8. ASSUME NEW s \in Sources
      PROVE  /\ LotAvailable(w, s)' - LotAvailable(w, s) = row.available[s] - seen[c].available[s]
             /\ LotHeld(w, s)' - LotHeld(w, s) = row.held[s] - seen[c].held[s]
  <2>1. /\ LotAvailable(w, s)' =
              LotAvailable(w, s) + (IF Call[c].source = s THEN Call[c].amount ELSE 0)
        /\ LotHeld(w, s)' = LotHeld(w, s) + (IF Call[c].source = s THEN 0 ELSE 0)
    BY <1>1, <1>2, <1>4, <1>6, AppendLotTotals
  <2>2. LotAvailable(w, s) \in Int /\ LotHeld(w, s) \in Int
    BY <1>2, <1>6, TotalsInt
  <2>3. row.available[s] = seen[c].available[s] + (IF Call[c].source = s THEN Call[c].amount ELSE 0)
    BY <1>2, <1>3
  <2>4. row.held[s] = seen[c].held[s]
    OBVIOUS
  <2> QED BY <1>2, <1>3, <2>1, <2>2, <2>3, <2>4
<1> HIDE DEF row, lot, w
<1>9. /\ NoDrift'
      /\ \A v \in Wallets : v # w => available'[v] = available[v] /\ held'[v] = held[v]
  BY <1>1, <1>2, <1>4, <1>5, <1>7, <1>8, WriteBalanceKeepsNoDrift
<1>10. SeenCurrent'
  BY <1>1, <1>2, <1>9, AnswerKeepsSeen DEF Answered
<1> QED BY <1>9, <1>10

\* The commits that move planned points between the parts of a wallet.
LEMMA MoveKeepsDriftInv ==
  ASSUME DriftInv, LockInv', NEW c \in Calls, pc[c] = "ready",
         NEW w \in Wallets, w = WalletOf(c), NEW x \in Signs, NEW y \in Signs,
         MoveLots(w, take[c], x, y), WriteBalance(w, MovedBalance(c, w, x, y)),
         Answer(c, "posted"),
         \A h \in DOMAIN holds : holds'[h].wallet = holds[h].wallet
  PROVE  DriftInv'
<1> DEFINE row == MovedBalance(c, w, x, y)
<1> USE DEF DriftInv
<1>1. TypeOK /\ TypeOK' /\ take[c] \in Seq(Nat)
  BY DEF LockInv, TypeOK
<1>2. row \in BalanceRow
  BY <1>1, MovedBalanceType
<1>3. \A v \in Wallets : v # w => lots'[v] = lots[v]
  BY <1>1, MoveLotsType
<1>4. \A s \in Sources : LotAvailable(w, s)' \in Int /\ LotHeld(w, s)' \in Int
  BY <1>1, TotalsInt
<1>5. ASSUME NEW s \in Sources
      PROVE  /\ LotAvailable(w, s)' - LotAvailable(w, s) = row.available[s] - seen[c].available[s]
             /\ LotHeld(w, s)' - LotHeld(w, s) = row.held[s] - seen[c].held[s]
  <2> DEFINE m == x * SourceTake(w, take[c], s)
             k == y * SourceTake(w, take[c], s)
  <2>1. m \in Int /\ k \in Int
    BY <1>1, SourceTakeNat DEF Signs
  <2>2. LotAvailable(w, s)' = LotAvailable(w, s) + m /\ LotHeld(w, s)' = LotHeld(w, s) + k
    BY <1>1, MoveLotsTotals
  <2>3. row.available[s] = seen[c].available[s] + m /\ row.held[s] = seen[c].held[s] + k
    BY DEF MovedBalance
  <2>4. /\ LotAvailable(w, s) \in Int /\ LotHeld(w, s) \in Int
        /\ seen[c].available[s] \in Int /\ seen[c].held[s] \in Int
    <3>1. seen[c].available \in [Sources -> Int] /\ seen[c].held \in [Sources -> Int]
      BY DEF LockInv, TypeOK, BalanceRow
    <3> QED BY <1>1, <3>1, TotalsInt
  <2> HIDE DEF m, k, row
  <2> QED BY <2>1, <2>2, <2>3, <2>4
<1> HIDE DEF row
<1>6. WriteBalance(w, row)
  BY DEF row
<1>7. /\ NoDrift'
      /\ \A v \in Wallets : v # w => available'[v] = available[v] /\ held'[v] = held[v]
  BY <1>2, <1>3, <1>4, <1>5, <1>6, WriteBalanceKeepsNoDrift
<1>8. SeenCurrent'
  BY <1>7, AnswerKeepsSeen DEF Answered
<1> QED BY <1>7, <1>8

\* Steps that write no table.
LEMMA SameRowsKeepNoDrift ==
  ASSUME NoDrift, UNCHANGED rows
  PROVE  NoDrift'
  BY SameLotsTotals DEF NoDrift, rows

\* NoDrift is inductive relative to LockInv: one case per action of Next.
LEMMA StepKeepsDriftInv == DriftInv /\ [Next]_vars => DriftInv'
<1> SUFFICES ASSUME DriftInv, [Next]_vars PROVE DriftInv'
  OBVIOUS
<1> USE DEF DriftInv
<1>0. LockInv'
  BY StepKeepsLockInv
<1>1. ASSUME NEW c \in Calls, NEW a \in {"idle"} \cup Answered, Answer(c, a), UNCHANGED rows
      PROVE  DriftInv'
  <2>1. SeenCurrent'
    BY <1>1, AnswerKeepsSeen DEF rows
  <2> QED BY <1>0, <1>1, <2>1, SameRowsKeepNoDrift
<1>2. ASSUME NEW c \in Calls, UNCHANGED <<rows, seen>>, pc[c] # "ready", pc'[c] # "ready",
             \A d \in Calls : d # c => pc'[d] = pc[d] /\ target'[d] = target[d]
      PROVE  DriftInv'
  <2>1. SeenCurrent'
    BY <1>2 DEF SeenCurrent, WalletOf, EndsHold, rows
  <2> QED BY <1>0, <1>2, <2>1, SameRowsKeepNoDrift
<1>3. ASSUME NEW c \in Calls, Begin(c) PROVE DriftInv'
  <2>1. UNCHANGED rows /\ pc[c] = "idle"
    BY <1>3 DEF Begin
  <2>2. CASE Answer(c, "existing")
    BY <1>1, <2>1, <2>2 DEF Answered
  <2>3. CASE pc' = [pc EXCEPT ![c] = "open"] /\ UNCHANGED seen /\
             \E h \in TargetHolds(c) : target' = [target EXCEPT ![c] = h]
    BY <1>2, <2>1, <2>3 DEF LockInv, TypeOK
  <2> QED BY <1>3, <2>2, <2>3 DEF Begin
<1>4. ASSUME NEW c \in Calls, LockHold(c) PROVE DriftInv'
  <2>1. UNCHANGED rows /\ pc[c] = "open"
    BY <1>4 DEF LockHold
  <2>2. CASE Answer(c, "existing") \/ Answer(c, "refused")
    BY <1>1, <2>1, <2>2 DEF Answered
  <2>3. CASE pc' = [pc EXCEPT ![c] = "holdLocked"] /\ UNCHANGED locals
    BY <1>2, <2>1, <2>3 DEF LockInv, TypeOK, locals
  <2> QED BY <1>4, <2>2, <2>3 DEF LockHold
<1>5. ASSUME NEW c \in Calls, LockBalance(c) PROVE DriftInv'
  <2> DEFINE w == WalletOf(c)
  <2>1. UNCHANGED rows
    BY <1>5 DEF LockBalance
  <2>2. CASE Answer(c, "existing") \/ Answer(c, "refused")
    BY <1>1, <2>1, <2>2 DEF Answered
  <2>3. CASE /\ pc' = [pc EXCEPT ![c] = "ready"] /\ UNCHANGED target
             /\ seen' = [seen EXCEPT ![c] = [available |-> available[w], held |-> held[w]]]
    <3>1. SeenCurrent'
      BY <2>1, <2>3 DEF SeenCurrent, WalletOf, EndsHold, rows, LockInv, TypeOK
    <3> QED BY <1>0, <2>1, <3>1, SameRowsKeepNoDrift
  <2> QED BY <1>5, <2>2, <2>3 DEF LockBalance
<1>6. ASSUME NEW c \in Calls, CommitDebit(c) PROVE DriftInv'
  <2>1. Call[c].wallet \in Wallets /\ Call[c].wallet = WalletOf(c)
    BY <1>6, WalletLedgerAssumption DEF CommitDebit, Committing, WalletOf, EndsHold
  <2> QED BY <1>0, <1>6, <2>1, MoveKeepsDriftInv DEF CommitDebit, Committing, Signs
<1>7. ASSUME NEW c \in Calls, CommitHold(c) PROVE DriftInv'
  <2>1. Call[c].wallet \in Wallets /\ Call[c].wallet = WalletOf(c)
    BY <1>7, WalletLedgerAssumption DEF CommitHold, Committing, WalletOf, EndsHold
  <2>2. \A h \in DOMAIN holds : holds'[h].wallet = holds[h].wallet
    <3>1. PICK new : holds' = Append(holds, new)
      BY <1>7 DEF CommitHold
    <3> QED BY <3>1 DEF LockInv, TypeOK
  <2> QED BY <1>0, <1>7, <2>1, <2>2, MoveKeepsDriftInv DEF CommitHold, Committing, Signs
<1>8. ASSUME NEW c \in Calls, NEW op \in {"release", "consume"}, NEW x \in {0, 1},
             EndHold(c, op, x)
      PROVE  DriftInv'
  <2>1. EndsHold(c) /\ pc[c] = "ready" /\ WalletOf(c) = holds[target[c]].wallet
    BY <1>8 DEF EndHold, Committing, EndsHold, WalletOf
  <2>2. target[c] \in DOMAIN holds
    BY <2>1 DEF LockInv, TargetsExist
  <2>3. WalletOf(c) \in Wallets
    BY <2>1, <2>2, HoldsTyped DEF LockInv
  <2>4. \A h \in DOMAIN holds : holds'[h].wallet = holds[h].wallet
    <3>1. holds' = [holds EXCEPT ![target[c]].status = HoldEndedBy(op)]
      BY <1>8 DEF EndHold
    <3>2. \A h \in DOMAIN holds : holds[h] \in HoldRow
      BY HoldsTyped DEF LockInv
    <3> QED BY <2>2, <3>1, <3>2 DEF HoldRow
  <2> QED BY <1>0, <1>8, <2>1, <2>3, <2>4, MoveKeepsDriftInv DEF EndHold, Committing, Signs
<1>9. ASSUME NEW c \in Calls, Commit(c) PROVE DriftInv'
  BY <1>0, <1>6, <1>7, <1>8, <1>9, CreditKeepsDriftInv DEF Commit, CommitRelease, CommitConsume
<1>10. ASSUME NEW c \in Calls, LoseUniqueRace(c) PROVE DriftInv'
  BY <1>1, <1>10 DEF LoseUniqueRace, Answered
<1>11. ASSUME NEW c \in Calls, Abort(c) PROVE DriftInv'
  BY <1>1, <1>11 DEF Abort
<1>12. CASE UNCHANGED vars
  BY <1>0, <1>12, SameRowsKeepNoDrift DEF vars, locals, rows, SeenCurrent, WalletOf
<1> QED
  BY <1>3, <1>4, <1>5, <1>9, <1>10, <1>11, <1>12 DEF Next, Advance, Quiescent

\* A wallet starts with no lots and empty buckets.
LEMMA InitDriftInv == Init => DriftInv
<1> SUFFICES ASSUME Init PROVE DriftInv
  OBVIOUS
<1>1. LockInv
  BY InitLockInv
<1>2. SeenCurrent
  BY DEF Init, SeenCurrent
<1>3. ASSUME NEW w \in Wallets, NEW s \in Sources
      PROVE  available[w][s] = LotAvailable(w, s) /\ held[w][s] = LotHeld(w, s)
  <2>1. Len(lots[w]) = 0
    BY DEF Init
  <2> QED BY <2>1, SumToZero DEF Init, LotAvailable, LotHeld
<1> QED BY <1>1, <1>2, <1>3 DEF DriftInv, NoDrift

\* In every reachable state of every wallet, each bucket of the balance row is
\* the total of the lots it summarises.
THEOREM BalancesNeverDrift == Spec => []NoDrift
<1>1. DriftInv => NoDrift
  BY DEF DriftInv
<1> QED BY InitDriftInv, StepKeepsDriftInv, <1>1, PTL DEF Spec

-----------------------------------------------------------------------------
(* Holds.  A transaction that ends a hold owns its row from the moment it  *)
(* found it ACTIVE, so that no other transaction ends it in between.       *)

Endings == {"RELEASED", "CONSUMED"}
OwnsHold(c) == EndsHold(c) /\ pc[c] \in {"holdLocked", "ready"}

\* The row lock of a hold has one owner, and the owner's hold is still active.
HoldOwned ==
  \A c \in Calls : OwnsHold(c) =>
    /\ holds[target[c]].status = "ACTIVE"
    /\ \A d \in Calls : OwnsHold(d) /\ target[d] = target[c] => c = d

\* A ledger row that ends a hold names one that exists and is over.
EndingsRecorded ==
  \A r \in DOMAIN ledger : ledger[r].kind \in Endings =>
    ledger[r].hold \in DOMAIN holds /\ holds[ledger[r].hold].status # "ACTIVE"

EndedInv == LockInv /\ HoldOwned /\ EndingsRecorded /\ HoldEndedOnce

\* A step of one request that leaves holds and ledger alone, and does not make
\* the request the owner of a hold, keeps EndedInv.
LEMMA LeavingKeepsEndedInv ==
  ASSUME EndedInv, LockInv', NEW c \in Calls, UNCHANGED <<holds, ledger>>, ~ OwnsHold(c)',
         \A d \in Calls : d # c => pc'[d] = pc[d] /\ target'[d] = target[d]
  PROVE  EndedInv'
<1>1. \A d \in Calls : OwnsHold(d)' => OwnsHold(d) /\ target'[d] = target[d]
  BY DEF OwnsHold, EndsHold
<1>2. HoldOwned'
  BY <1>1 DEF EndedInv, HoldOwned
<1>3. EndingsRecorded' /\ HoldEndedOnce'
  BY DEF EndedInv, EndingsRecorded, HoldEndedOnce
<1> QED BY <1>2, <1>3 DEF EndedInv

\* A transaction that is over owns nothing.
LEMMA AnswerLeaves ==
  ASSUME TypeOK, NEW c \in Calls, NEW a \in {"idle"} \cup Answered, Answer(c, a)
  PROVE  /\ ~ OwnsHold(c)'
         /\ \A d \in Calls : d # c => pc'[d] = pc[d] /\ target'[d] = target[d]
  BY DEF TypeOK, Answer, Answered, OwnsHold

\* The ledger rows are typed and numbered.
LEMMA LedgerTyped ==
  ASSUME TypeOK
  PROVE  /\ ledger \in Seq(LedgerRow) /\ Len(ledger) \in Nat
         /\ DOMAIN ledger = 1..Len(ledger)
         /\ \A r \in DOMAIN ledger : ledger[r] \in LedgerRow
<1>1. ledger \in Seq(LedgerRow)
  BY DEF TypeOK
<1> QED BY <1>1

\* Posting adds one row and keeps the others.
LEMMA PostAppends ==
  ASSUME TypeOK, NEW c \in Calls, NEW kind, NEW amount, NEW after, NEW h,
         Post(c, kind, amount, after, h)
  PROVE  /\ DOMAIN ledger' = 1..Len(ledger) + 1
         /\ \A r \in DOMAIN ledger : r # Len(ledger) + 1 /\ ledger'[r] = ledger[r]
         /\ ledger'[Len(ledger) + 1].key = Call[c].key
         /\ ledger'[Len(ledger) + 1].wallet = WalletOf(c)
         /\ ledger'[Len(ledger) + 1].kind = kind
         /\ ledger'[Len(ledger) + 1].amount = amount
         /\ ledger'[Len(ledger) + 1].before = TotalBalance(seen[c])
         /\ ledger'[Len(ledger) + 1].after = TotalBalance(after)
         /\ ledger'[Len(ledger) + 1].hold = h
<1> DEFINE row == [key |-> Call[c].key, wallet |-> WalletOf(c), kind |-> kind,
                   amount |-> amount, before |-> TotalBalance(seen[c]),
                   after |-> TotalBalance(after), hold |-> h]
<1>1. ledger' = Append(ledger, row)
  BY DEF Post
<1>2. /\ row.key = Call[c].key /\ row.wallet = WalletOf(c) /\ row.kind = kind
      /\ row.amount = amount /\ row.before = TotalBalance(seen[c])
      /\ row.after = TotalBalance(after) /\ row.hold = h
  OBVIOUS
<1>3. Len(ledger) \in Nat /\ DOMAIN ledger = 1..Len(ledger) /\ ledger \in Seq(LedgerRow)
  BY LedgerTyped
<1> HIDE DEF row
<1> DEFINE S == LedgerRow \cup {row}
<1>4. ledger \in Seq(S) /\ row \in S
  BY <1>3
<1> HIDE DEF S
<1>5. /\ Len(ledger') = Len(ledger) + 1 /\ DOMAIN ledger' = 1..Len(ledger) + 1
      /\ \A i \in 1..Len(ledger) : ledger'[i] = ledger[i]
      /\ ledger'[Len(ledger) + 1] = row
  BY <1>1, <1>3, <1>4, AppendProperties
<1> QED BY <1>2, <1>3, <1>5

\* A commit that ends no hold and keeps the holds there are keeps EndedInv.
LEMMA PostingKeepsEndedInv ==
  ASSUME EndedInv, LockInv', NEW c \in Calls, Answer(c, "posted"),
         NEW kind \in {"CREDIT", "DEBIT", "HOLD"}, NEW amount, NEW after, NEW h,
         Post(c, kind, amount, after, h),
         \A g \in DOMAIN holds : g \in DOMAIN holds' /\ holds'[g] = holds[g]
  PROVE  EndedInv'
<1> DEFINE n == Len(ledger) + 1
<1>0. TypeOK /\ TypeOK'
  BY DEF EndedInv, LockInv
<1>1. /\ DOMAIN ledger' = 1..n /\ DOMAIN ledger = 1..Len(ledger) /\ Len(ledger) \in Nat
      /\ \A r \in DOMAIN ledger : ledger'[r] = ledger[r]
      /\ ledger'[n].kind = kind
  BY <1>0, PostAppends, LedgerTyped
<1>2. \A d \in Calls : OwnsHold(d)' => /\ OwnsHold(d) /\ target'[d] = target[d]
                                       /\ target[d] \in DOMAIN holds
  BY <1>0, AnswerLeaves DEF OwnsHold, EndsHold, Answered, EndedInv, LockInv, TargetsExist
<1>3. HoldOwned'
  BY <1>2 DEF EndedInv, HoldOwned
<1>4. \A r \in DOMAIN ledger' : ledger'[r].kind \in Endings =>
        r \in DOMAIN ledger /\ ledger'[r] = ledger[r]
  BY <1>1 DEF Endings
<1>5. EndingsRecorded'
  BY <1>4 DEF EndedInv, EndingsRecorded
<1>6. HoldEndedOnce'
  BY <1>4 DEF EndedInv, HoldEndedOnce, Endings
<1> QED BY <1>3, <1>5, <1>6 DEF EndedInv

\* Ending a hold under its row lock keeps EndedInv: the hold was active, so no
\* row of the ledger ends it yet.
LEMMA EndHoldKeepsEndedInv ==
  ASSUME EndedInv, LockInv', NEW c \in Calls, NEW op \in {"release", "consume"},
         NEW x \in {0, 1}, EndHold(c, op, x)
  PROVE  EndedInv'
<1> DEFINE n == Len(ledger) + 1
           g == target[c]
<1>0. TypeOK /\ TypeOK'
  BY DEF EndedInv, LockInv
<1>1. /\ OwnsHold(c) /\ Answer(c, "posted")
      /\ holds' = [holds EXCEPT ![g].status = HoldEndedBy(op)]
      /\ Post(c, HoldEndedBy(op), holds[g].amount, MovedBalance(c, holds[g].wallet, x, -1), g)
  BY DEF EndHold, Committing, OwnsHold, EndsHold
<1>2. g \in DOMAIN holds /\ holds[g].status = "ACTIVE" /\ HoldEndedBy(op) \in Endings
  BY <1>1 DEF EndedInv, HoldOwned, LockInv, TargetsExist, OwnsHold, HoldEndedBy, Endings
<1>3. /\ DOMAIN holds' = DOMAIN holds
      /\ \A k \in DOMAIN holds : k # g => holds'[k] = holds[k]
      /\ holds'[g].status \in Endings
  BY <1>0, <1>1, <1>2, HoldsTyped DEF HoldRow, Endings
<1>4. /\ DOMAIN ledger' = 1..n /\ DOMAIN ledger = 1..Len(ledger) /\ Len(ledger) \in Nat
      /\ \A r \in DOMAIN ledger : ledger'[r] = ledger[r]
      /\ ledger'[n].hold = g
  BY <1>0, <1>1, PostAppends, LedgerTyped
<1>5. HoldOwned'
  <2>1. \A d \in Calls : OwnsHold(d)' => /\ d # c /\ OwnsHold(d) /\ target'[d] = target[d]
                                         /\ target[d] \in DOMAIN holds
    BY <1>0, <1>1, AnswerLeaves DEF OwnsHold, EndsHold, Answered, EndedInv, LockInv, TargetsExist
  <2>2. \A d \in Calls : OwnsHold(d)' => target[d] # g
    BY <1>1, <2>1 DEF EndedInv, HoldOwned
  <2> QED BY <1>3, <2>1, <2>2 DEF EndedInv, HoldOwned
<1>6. \A r \in DOMAIN ledger : ledger[r].kind \in Endings => ledger[r].hold # g
  BY <1>2 DEF EndedInv, EndingsRecorded
<1>7. EndingsRecorded'
  <2> SUFFICES ASSUME NEW r \in DOMAIN ledger', ledger'[r].kind \in Endings
               PROVE  ledger'[r].hold \in DOMAIN holds' /\ holds'[ledger'[r].hold].status # "ACTIVE"
    BY DEF EndingsRecorded
  <2>1. CASE r = n
    BY <2>1, <1>2, <1>3, <1>4 DEF Endings
  <2>2. CASE r # n
    BY <2>2, <1>3, <1>4, <1>6 DEF EndedInv, EndingsRecorded
  <2> QED BY <2>1, <2>2
<1>8. HoldEndedOnce'
  <2> SUFFICES ASSUME NEW q \in DOMAIN ledger', NEW r \in DOMAIN ledger',
                      ledger'[q].kind \in Endings, ledger'[r].kind \in Endings,
                      ledger'[q].hold = ledger'[r].hold
               PROVE  q = r
    BY DEF HoldEndedOnce, Endings
  <2>1. CASE q = n \/ r = n
    BY <2>1, <1>4, <1>6
  <2>2. CASE q # n /\ r # n
    BY <2>2, <1>4 DEF EndedInv, HoldEndedOnce, Endings
  <2> QED BY <2>1, <2>2
<1> QED BY <1>5, <1>7, <1>8 DEF EndedInv

\* EndedInv is inductive: one case per action of Next.
LEMMA StepKeepsEndedInv == EndedInv /\ [Next]_vars => EndedInv'
<1> SUFFICES ASSUME EndedInv, [Next]_vars PROVE EndedInv'
  OBVIOUS
<1>0. LockInv /\ LockInv' /\ TypeOK /\ TypeOK'
  BY StepKeepsLockInv DEF EndedInv, LockInv
<1>1. ASSUME NEW c \in Calls, NEW a \in {"idle"} \cup Answered, Answer(c, a),
             UNCHANGED <<holds, ledger>>
      PROVE  EndedInv'
  BY <1>0, <1>1, AnswerLeaves, LeavingKeepsEndedInv
<1>2. ASSUME NEW c \in Calls, Begin(c) PROVE EndedInv'
  <2>1. UNCHANGED <<holds, ledger>>
    BY <1>2 DEF Begin, rows
  <2>2. CASE Answer(c, "existing")
    BY <1>1, <2>1, <2>2 DEF Answered
  <2>3. CASE pc' = [pc EXCEPT ![c] = "open"] /\ \E h : target' = [target EXCEPT ![c] = h]
    <3>1. /\ ~ OwnsHold(c)'
          /\ \A d \in Calls : d # c => pc'[d] = pc[d] /\ target'[d] = target[d]
      BY <1>0, <2>3 DEF TypeOK, OwnsHold
    <3> QED BY <1>0, <2>1, <3>1, LeavingKeepsEndedInv
  <2> QED BY <1>2, <2>2, <2>3 DEF Begin
<1>3. ASSUME NEW c \in Calls, LockHold(c) PROVE EndedInv'
  <2>1. UNCHANGED <<holds, ledger>> /\ ~ HoldLocked(target[c]) /\ pc[c] = "open" /\ EndsHold(c)
    BY <1>3 DEF LockHold, rows
  <2>2. CASE Answer(c, "existing") \/ Answer(c, "refused")
    BY <1>1, <2>1, <2>2 DEF Answered
  <2>3. CASE /\ holds[target[c]].status = "ACTIVE"
             /\ pc' = [pc EXCEPT ![c] = "holdLocked"] /\ UNCHANGED locals
    <3>1. UNCHANGED target /\ \A d \in Calls : d # c => pc'[d] = pc[d]
      BY <1>0, <2>3 DEF TypeOK, locals
    <3>2. \A d \in Calls : OwnsHold(d) => target[d] # target[c]
      BY <2>1 DEF HoldLocked, OwnsHold
    <3>3. \A d \in Calls : d # c => (OwnsHold(d)' <=> OwnsHold(d))
      BY <3>1 DEF OwnsHold, EndsHold
    <3>4. HoldOwned'
      BY <2>1, <2>3, <3>1, <3>2, <3>3 DEF EndedInv, HoldOwned
    <3>5. EndingsRecorded' /\ HoldEndedOnce'
      BY <2>1 DEF EndedInv, EndingsRecorded, HoldEndedOnce
    <3> QED BY <1>0, <3>4, <3>5 DEF EndedInv
  <2> QED BY <1>3, <2>2, <2>3 DEF LockHold
<1>4. ASSUME NEW c \in Calls, LockBalance(c) PROVE EndedInv'
  <2>1. UNCHANGED <<holds, ledger>> /\ (EndsHold(c) => pc[c] = "holdLocked")
    BY <1>4 DEF LockBalance, rows
  <2>2. CASE Answer(c, "existing") \/ Answer(c, "refused")
    BY <1>1, <2>1, <2>2 DEF Answered
  <2>3. CASE pc' = [pc EXCEPT ![c] = "ready"] /\ UNCHANGED target
    <3>1. \A d \in Calls : d # c => pc'[d] = pc[d]
      BY <1>0, <2>3 DEF TypeOK
    <3>2. \A d \in Calls : OwnsHold(d)' => OwnsHold(d)
      BY <2>1, <3>1 DEF OwnsHold, EndsHold
    <3>3. HoldOwned'
      BY <2>1, <2>3, <3>2 DEF EndedInv, HoldOwned
    <3>4. EndingsRecorded' /\ HoldEndedOnce'
      BY <2>1 DEF EndedInv, EndingsRecorded, HoldEndedOnce
    <3> QED BY <1>0, <3>3, <3>4 DEF EndedInv
  <2> QED BY <1>4, <2>2, <2>3 DEF LockBalance
<1>5. ASSUME NEW c \in Calls, CommitCredit(c) \/ CommitDebit(c) PROVE EndedInv'
  <2>1. /\ Answer(c, "posted") /\ UNCHANGED holds
        /\ \E kind \in {"CREDIT", "DEBIT", "HOLD"} : \E after : Post(c, kind, Call[c].amount, after, 0)
    BY <1>5, Zenon DEF CommitCredit, CommitDebit
  <2> QED BY <1>0, <2>1, PostingKeepsEndedInv
<1>6. ASSUME NEW c \in Calls, CommitHold(c) PROVE EndedInv'
  <2>1. /\ Answer(c, "posted")
        /\ \E after : Post(c, "HOLD", Call[c].amount, after, Len(holds) + 1)
        /\ \E row : holds' = Append(holds, row)
    BY <1>6, Zenon DEF CommitHold
  <2>2. \A g \in DOMAIN holds : g \in DOMAIN holds' /\ holds'[g] = holds[g]
    BY <1>0, <2>1, HoldsTyped
  <2> QED BY <1>0, <2>1, <2>2, PostingKeepsEndedInv
<1>7. ASSUME NEW c \in Calls, CommitRelease(c) \/ CommitConsume(c) PROVE EndedInv'
  BY <1>0, <1>7, EndHoldKeepsEndedInv DEF CommitRelease, CommitConsume
<1>8. ASSUME NEW c \in Calls, LoseUniqueRace(c) PROVE EndedInv'
  BY <1>1, <1>8 DEF LoseUniqueRace, Answered, rows
<1>9. ASSUME NEW c \in Calls, Abort(c) PROVE EndedInv'
  BY <1>1, <1>9 DEF Abort, rows
<1>10. CASE UNCHANGED vars
  BY <1>0, <1>10 DEF vars, rows, locals, EndedInv, HoldOwned, EndingsRecorded, HoldEndedOnce,
                     OwnsHold
<1> QED
  BY <1>2, <1>3, <1>4, <1>5, <1>6, <1>7, <1>8, <1>9, <1>10
  DEF Next, Advance, Commit, Quiescent

\* Nothing is held and nothing is posted at the start.
LEMMA InitEndedInv == Init => EndedInv
BY InitLockInv DEF Init, EndedInv, HoldOwned, OwnsHold, EndingsRecorded, HoldEndedOnce

\* No hold is released twice, consumed twice or both, whichever keys and
\* however many transactions try.
THEOREM HoldsEndOnce == Spec => []HoldEndedOnce
<1>1. EndedInv => HoldEndedOnce
  BY DEF EndedInv
<1> QED BY InitEndedInv, StepKeepsEndedInv, <1>1, PTL DEF Spec

-----------------------------------------------------------------------------
(* The held part of the lots.  What a release or consume moves back is the *)
(* allocation written when the hold was placed.                            *)

\* What the active holds allocated from lot i of wallet w.
ActiveHeld(w, i) ==
  SumTo([h \in DOMAIN holds |->
           IF holds[h].wallet = w /\ holds[h].status = "ACTIVE"
           THEN Taken(holds[h].alloc, i) ELSE 0], Len(holds))

\* A hold was allocated from lots that exist.
AllocationsFit ==
  \A h \in DOMAIN holds : DOMAIN holds[h].alloc \subseteq DOMAIN lots[holds[h].wallet]

\* A transaction about to end a hold moves what was allocated to it.
AllocationTaken ==
  \A c \in Calls : EndsHold(c) /\ pc[c] = "ready" => take[c] = holds[target[c]].alloc

HeldInv == EndedInv /\ AllocationsFit /\ AllocationTaken /\ HeldBacksActiveHolds

\* A hold that is over gives up its share of a lot.
LEMMA EndedHoldGivesUp ==
  ASSUME TypeOK, NEW g \in DOMAIN holds, holds[g].status = "ACTIVE",
         Len(holds') = Len(holds), DOMAIN holds' = DOMAIN holds,
         \A h \in DOMAIN holds : h # g => holds'[h] = holds[h],
         holds'[g].status # "ACTIVE", NEW w, NEW i
  PROVE  ActiveHeld(w, i)' =
           ActiveHeld(w, i) - IF holds[g].wallet = w THEN Taken(holds[g].alloc, i) ELSE 0
<1> DEFINE f == [h \in DOMAIN holds |->
                   IF holds[h].wallet = w /\ holds[h].status = "ACTIVE"
                   THEN Taken(holds[h].alloc, i) ELSE 0]
           e == [h \in DOMAIN holds' |->
                   IF holds'[h].wallet = w /\ holds'[h].status = "ACTIVE"
                   THEN Taken(holds'[h].alloc, i) ELSE 0]
           n == Len(holds)
<1>1. n \in Nat /\ DOMAIN holds = 1..n
  BY HoldsTyped
<1>2. \A h \in 1..n : f[h] \in Nat
  BY <1>1, HoldsTyped, TakenNat
<1>3. e[g] = 0 /\ f[g] = IF holds[g].wallet = w THEN Taken(holds[g].alloc, i) ELSE 0
  OBVIOUS
<1>4. \A h \in 1..n : h # g => e[h] = f[h]
  BY <1>1
<1>5. ActiveHeld(w, i) = SumTo(f, n) /\ ActiveHeld(w, i)' = SumTo(e, n)
  BY DEF ActiveHeld
<1> HIDE DEF f, e, n
<1>6. \A h \in 1..n : f[h] \in Int /\ e[h] \in Int
  BY <1>1, <1>2, <1>3, <1>4
<1>7. SumTo(e, n) = SumTo(f, n) - f[g] + e[g]
  <2>1. g \in 1..n
    BY <1>1
  <2> QED BY <1>1, <1>4, <1>6, <2>1, SumToUpdate, ZenonT(30)
<1>8. SumTo(f, n) \in Int /\ f[g] \in Int
  BY <1>1, <1>6, SumToInt
<1> QED BY <1>3, <1>5, <1>7, <1>8

\* A new hold takes its share of a lot.
LEMMA NewHoldTakes ==
  ASSUME TypeOK, Len(holds') = Len(holds) + 1, DOMAIN holds' = 1..Len(holds) + 1,
         \A h \in DOMAIN holds : holds'[h] = holds[h],
         holds'[Len(holds) + 1].status = "ACTIVE", NEW w, NEW i
  PROVE  ActiveHeld(w, i)' =
           ActiveHeld(w, i) + IF holds'[Len(holds) + 1].wallet = w
                              THEN Taken(holds'[Len(holds) + 1].alloc, i) ELSE 0
<1> DEFINE f == [h \in DOMAIN holds |->
                   IF holds[h].wallet = w /\ holds[h].status = "ACTIVE"
                   THEN Taken(holds[h].alloc, i) ELSE 0]
           e == [h \in DOMAIN holds' |->
                   IF holds'[h].wallet = w /\ holds'[h].status = "ACTIVE"
                   THEN Taken(holds'[h].alloc, i) ELSE 0]
           n == Len(holds)
<1>1. n \in Nat /\ DOMAIN holds = 1..n
  BY HoldsTyped
<1>2. e[n + 1] = IF holds'[n + 1].wallet = w THEN Taken(holds'[n + 1].alloc, i) ELSE 0
  BY <1>1
<1>3. \A h \in 1..n : e[h] = f[h]
  BY <1>1
<1>4. ActiveHeld(w, i) = SumTo(f, n) /\ ActiveHeld(w, i)' = SumTo(e, n + 1)
  BY DEF ActiveHeld
<1> HIDE DEF f, e, n
<1>5. SumTo(e, n + 1) = SumTo(e, n) + e[n + 1]
  <2>1. n + 1 \in Nat \ {0} /\ (n + 1) - 1 = n
    BY <1>1
  <2> QED BY <2>1, SumToStep
<1>6. SumTo(e, n) = SumTo(f, n)
  BY <1>1, <1>3, SumToEqual
<1> QED BY <1>2, <1>4, <1>5, <1>6 DEF n

\* A step that leaves lots and holds alone keeps HeldInv when the request that
\* takes it is not then about to end a hold, or is with its allocation.
LEMMA ReadingKeepsHeldInv ==
  ASSUME HeldInv, EndedInv', NEW c \in Calls, UNCHANGED <<lots, holds>>,
         \A d \in Calls : d # c => pc'[d] = pc[d] /\ target'[d] = target[d] /\ take'[d] = take[d],
         EndsHold(c) /\ pc'[c] = "ready" => take'[c] = holds[target'[c]].alloc
  PROVE  HeldInv'
<1>1. AllocationTaken'
  BY DEF HeldInv, AllocationTaken, EndsHold
<1>2. AllocationsFit'
  BY DEF HeldInv, AllocationsFit
<1>3. HeldBacksActiveHolds'
  BY DEF HeldInv, HeldBacksActiveHolds, Taken
<1> QED BY <1>1, <1>2, <1>3 DEF HeldInv

\* The others' allocations stand when a transaction is over.
LEMMA AnswerKeepsAllocationTaken ==
  ASSUME HeldInv, NEW c \in Calls, NEW a \in {"idle"} \cup Answered, Answer(c, a),
         \A h \in DOMAIN holds : holds'[h].alloc = holds[h].alloc
  PROVE  AllocationTaken'
<1>1. \A d \in Calls : EndsHold(d) /\ pc'[d] = "ready" =>
        /\ pc[d] = "ready" /\ target'[d] = target[d] /\ take'[d] = take[d]
        /\ target[d] \in DOMAIN holds
  BY DEF HeldInv, EndedInv, LockInv, TypeOK, Answer, Answered, TargetsExist
<1> QED BY <1>1 DEF HeldInv, AllocationTaken, EndsHold

\* A credit adds a lot that no hold was allocated from.
LEMMA CreditKeepsHeldInv ==
  ASSUME HeldInv, EndedInv', NEW c \in Calls, CommitCredit(c)
  PROVE  HeldInv'
<1> DEFINE w == Call[c].wallet
           n == Len(lots[w])
           new == [source |-> Call[c].source, available |-> Call[c].amount, held |-> 0]
<1>0. TypeOK /\ AllocationsFit /\ HeldBacksActiveHolds
  BY DEF HeldInv, EndedInv, LockInv
<1>1. /\ lots' = [lots EXCEPT ![w] = Append(@, new)] /\ UNCHANGED holds /\ Answer(c, "posted")
  BY DEF CommitCredit
<1>2. /\ w \in Wallets /\ n \in Nat /\ DOMAIN lots[w] = 1..n /\ lots[w] \in Seq(Lot)
      /\ new \in Lot /\ new.held = 0
  <2>1. w \in Wallets /\ Call[c].source \in Sources /\ Call[c].amount \in Nat
    BY WalletLedgerAssumption
  <2>2. n \in Nat /\ DOMAIN lots[w] = 1..n /\ lots[w] \in Seq(Lot)
    BY <1>0, <2>1, LotsOfWallet
  <2>3. new \in Lot /\ new.held = 0
    BY <2>1 DEF Lot
  <2> QED BY <2>1, <2>2, <2>3
<1> HIDE DEF new
<1>3. /\ \A v \in Wallets : v # w => lots'[v] = lots[v]
      /\ lots'[w] = Append(lots[w], new)
  BY <1>0, <1>1, <1>2 DEF TypeOK
<1>4. /\ DOMAIN lots'[w] = 1..n + 1 /\ lots'[w][n + 1] = new
      /\ \A i \in 1..n : lots'[w][i] = lots[w][i]
  BY <1>2, <1>3
<1> HIDE DEF w, n
<1>5. AllocationTaken'
  BY <1>1, AnswerKeepsAllocationTaken DEF Answered
<1>6. AllocationsFit'
  <2>1. \A v \in Wallets : DOMAIN lots[v] \subseteq DOMAIN lots'[v]
    BY <1>2, <1>3, <1>4
  <2> QED BY <1>0, <1>1, <2>1, HoldsTyped DEF AllocationsFit
<1>7. ActiveHeld(w, n + 1) = 0
  <2> DEFINE f == [h \in DOMAIN holds |->
                     IF holds[h].wallet = w /\ holds[h].status = "ACTIVE"
                     THEN Taken(holds[h].alloc, n + 1) ELSE 0]
             z == [h \in DOMAIN holds |-> 0]
  <2>1. \A h \in DOMAIN holds : f[h] = 0
    BY <1>0, <1>2 DEF AllocationsFit, Taken
  <2>2. Len(holds) \in Nat /\ DOMAIN holds = 1..Len(holds)
    BY <1>0, HoldsTyped
  <2>3. ActiveHeld(w, n + 1) = SumTo(f, Len(holds))
    BY DEF ActiveHeld
  <2> HIDE DEF f
  <2>4. SumTo(f, Len(holds)) = 0
    BY <2>1, <2>2, SumToNone
  <2> QED BY <2>3, <2>4
<1>8. HeldBacksActiveHolds'
  <2> SUFFICES ASSUME NEW v \in Wallets, NEW i \in DOMAIN lots'[v]
               PROVE  lots'[v][i].held = ActiveHeld(v, i)'
    BY Zenon DEF HeldBacksActiveHolds, ActiveHeld
  <2>1. ActiveHeld(v, i)' = ActiveHeld(v, i)
    BY <1>1 DEF ActiveHeld, Taken
  <2>2. \A u \in Wallets : \A j \in DOMAIN lots[u] : lots[u][j].held = ActiveHeld(u, j)
    BY <1>0, Zenon DEF HeldBacksActiveHolds, ActiveHeld
  <2>3. CASE v = w /\ i = n + 1
    BY <1>2, <1>4, <1>7, <2>1, <2>3
  <2>4. CASE v # w \/ i # n + 1
    BY <1>2, <1>3, <1>4, <2>1, <2>2, <2>4
  <2> QED BY <2>3, <2>4
<1> QED BY <1>5, <1>6, <1>8 DEF HeldInv

\* A debit takes from the available parts only.
LEMMA DebitKeepsHeldInv ==
  ASSUME HeldInv, EndedInv', NEW c \in Calls, CommitDebit(c)
  PROVE  HeldInv'
<1> DEFINE w == Call[c].wallet
<1>0. TypeOK /\ AllocationsFit /\ HeldBacksActiveHolds
  BY DEF HeldInv, EndedInv, LockInv
<1>1. MoveLots(w, take[c], -1, 0) /\ UNCHANGED holds /\ Answer(c, "posted")
  BY DEF CommitDebit
<1>2. w \in Wallets /\ take[c] \in Seq(Nat)
  BY <1>0, WalletLedgerAssumption DEF TypeOK
<1>3. /\ \A v \in Wallets : v # w => lots'[v] = lots[v]
      /\ DOMAIN lots'[w] = DOMAIN lots[w]
      /\ \A i \in DOMAIN lots[w] : lots'[w][i].held = lots[w][i].held + 0 * Taken(take[c], i)
  <2>1. -1 \in Signs /\ 0 \in Signs /\ 1 \in Signs
    BY DEF Signs
  <2> QED BY <1>0, <1>1, <1>2, <2>1, MoveLotsType, ZenonT(30)
<1>4. \A i \in DOMAIN lots[w] : lots'[w][i].held = lots[w][i].held
  <2>1. \A k \in Nat : 0 * k = 0
    OBVIOUS
  <2>2. \A i \in DOMAIN lots[w] : lots[w][i].held \in Int /\ Taken(take[c], i) \in Nat
    BY <1>0, <1>2, LotsOfWallet, TakenNat
  <2> QED BY <1>3, <2>1, <2>2
<1> HIDE DEF w
<1>5. AllocationTaken'
  BY <1>1, AnswerKeepsAllocationTaken DEF Answered
<1>6. AllocationsFit'
  BY <1>0, <1>1, <1>3, HoldsTyped DEF AllocationsFit
<1>7. HeldBacksActiveHolds'
  <2> SUFFICES ASSUME NEW v \in Wallets, NEW i \in DOMAIN lots'[v]
               PROVE  lots'[v][i].held = ActiveHeld(v, i)'
    BY Zenon DEF HeldBacksActiveHolds, ActiveHeld
  <2>1. ActiveHeld(v, i)' = ActiveHeld(v, i)
    BY <1>1 DEF ActiveHeld, Taken
  <2>2. \A u \in Wallets : \A j \in DOMAIN lots[u] : lots[u][j].held = ActiveHeld(u, j)
    BY <1>0, Zenon DEF HeldBacksActiveHolds, ActiveHeld
  <2> QED BY <1>3, <1>4, <2>1, <2>2
<1> QED BY <1>5, <1>6, <1>7 DEF HeldInv

\* Placing a hold moves into the held parts what it is allocated.
LEMMA HoldKeepsHeldInv ==
  ASSUME HeldInv, EndedInv', NEW c \in Calls, CommitHold(c)
  PROVE  HeldInv'
<1> DEFINE w == Call[c].wallet
           n == Len(holds) + 1
           new == [wallet |-> w, type |-> Call[c].type, ref |-> Call[c].ref,
                   amount |-> Call[c].amount, status |-> "ACTIVE", alloc |-> take[c]]
<1>0. TypeOK /\ AllocationsFit /\ HeldBacksActiveHolds /\ PlanCovered
  BY DEF HeldInv, EndedInv, LockInv
<1>1. /\ holds' = Append(holds, new) /\ MoveLots(w, take[c], -1, 1) /\ Answer(c, "posted")
      /\ pc[c] = "ready" /\ Call[c].op = "hold"
  BY DEF CommitHold, Committing
<1>2. w \in Wallets /\ take[c] \in Seq(Nat) /\ DOMAIN take[c] = DOMAIN lots[w]
  BY <1>0, <1>1, WalletLedgerAssumption DEF TypeOK, PlanCovered, DrawsOnPoints
<1>3. /\ \A v \in Wallets : v # w => lots'[v] = lots[v]
      /\ DOMAIN lots'[w] = DOMAIN lots[w]
      /\ \A i \in DOMAIN lots[w] : lots'[w][i].held = lots[w][i].held + 1 * Taken(take[c], i)
  <2>1. -1 \in Signs /\ 0 \in Signs /\ 1 \in Signs
    BY DEF Signs
  <2> QED BY <1>0, <1>1, <1>2, <2>1, MoveLotsType, ZenonT(30)
<1>4. \A i \in DOMAIN lots[w] : lots'[w][i].held = lots[w][i].held + Taken(take[c], i)
  <2>1. \A k \in Nat : 1 * k = k
    OBVIOUS
  <2>2. \A i \in DOMAIN lots[w] : lots[w][i].held \in Int /\ Taken(take[c], i) \in Nat
    BY <1>0, <1>2, LotsOfWallet, TakenNat
  <2> QED BY <1>3, <2>1, <2>2
<1>5. /\ new.wallet = w /\ new.alloc = take[c] /\ new.status = "ACTIVE" /\ new \in HoldRow
      /\ Len(holds) \in Nat /\ DOMAIN holds = 1..Len(holds) /\ holds \in Seq(HoldRow)
  BY <1>0, <1>2, HoldsTyped, WalletLedgerAssumption DEF HoldRow, TypeOK, Refs
<1> HIDE DEF new
<1>6. /\ DOMAIN holds' = 1..n /\ Len(holds') = n /\ holds'[n] = new
      /\ \A h \in DOMAIN holds : holds'[h] = holds[h]
  BY <1>1, <1>5
<1> HIDE DEF w
<1>7. AllocationTaken'
  BY <1>1, <1>6, AnswerKeepsAllocationTaken DEF Answered
<1>8. AllocationsFit'
  <2> SUFFICES ASSUME NEW h \in DOMAIN holds'
               PROVE  DOMAIN holds'[h].alloc \subseteq DOMAIN lots'[holds'[h].wallet]
    BY DEF AllocationsFit
  <2>1. CASE h = n
    BY <2>1, <1>2, <1>3, <1>5, <1>6
  <2>2. CASE h # n
    BY <2>2, <1>0, <1>3, <1>5, <1>6, HoldsTyped DEF AllocationsFit
  <2> QED BY <2>1, <2>2
<1>9. HeldBacksActiveHolds'
  <2> SUFFICES ASSUME NEW v \in Wallets, NEW i \in DOMAIN lots'[v]
               PROVE  lots'[v][i].held = ActiveHeld(v, i)'
    BY Zenon DEF HeldBacksActiveHolds, ActiveHeld
  <2>1. ActiveHeld(v, i)' = ActiveHeld(v, i) + IF w = v THEN Taken(take[c], i) ELSE 0
    BY <1>0, <1>5, <1>6, NewHoldTakes
  <2>2. \A u \in Wallets : \A j \in DOMAIN lots[u] : lots[u][j].held = ActiveHeld(u, j)
    BY <1>0, Zenon DEF HeldBacksActiveHolds, ActiveHeld
  <2>3. i \in DOMAIN lots[v] /\ lots[v][i].held \in Int
    BY <1>0, <1>3, LotsOfWallet
  <2> QED BY <1>3, <1>4, <2>1, <2>2, <2>3
<1> QED BY <1>7, <1>8, <1>9 DEF HeldInv

\* Ending a hold takes its allocation, and no other, out of the held parts.
LEMMA EndHoldKeepsHeldInv ==
  ASSUME HeldInv, EndedInv', NEW c \in Calls, NEW op \in {"release", "consume"},
         NEW x \in {0, 1}, EndHold(c, op, x)
  PROVE  HeldInv'
<1> DEFINE g == target[c]
           w == holds[g].wallet
<1>0. TypeOK /\ AllocationsFit /\ HeldBacksActiveHolds /\ AllocationTaken /\ TargetsExist /\ HoldOwned
  BY DEF HeldInv, EndedInv, LockInv
<1>1. /\ OwnsHold(c) /\ EndsHold(c) /\ pc[c] = "ready" /\ Answer(c, "posted")
      /\ holds' = [holds EXCEPT ![g].status = HoldEndedBy(op)]
      /\ MoveLots(w, take[c], x, -1)
  BY DEF EndHold, Committing, OwnsHold, EndsHold
<1>2. /\ g \in DOMAIN holds /\ holds[g].status = "ACTIVE" /\ take[c] = holds[g].alloc
      /\ HoldEndedBy(op) \in Endings
  BY <1>0, <1>1 DEF HoldOwned, TargetsExist, AllocationTaken, HoldEndedBy, Endings
<1>3. w \in Wallets /\ take[c] \in Seq(Nat)
  BY <1>0, <1>2, HoldsTyped
<1>4. /\ DOMAIN holds' = DOMAIN holds /\ Len(holds') = Len(holds)
      /\ \A k \in DOMAIN holds : k # g => holds'[k] = holds[k]
      /\ holds'[g].status \in Endings
      /\ holds'[g].alloc = holds[g].alloc /\ holds'[g].wallet = holds[g].wallet
  <2>1. holds \in Seq(HoldRow) /\ holds[g] \in HoldRow
    BY <1>0, <1>2, HoldsTyped DEF TypeOK
  <2> DEFINE r == [holds[g] EXCEPT !.status = HoldEndedBy(op)]
  <2>2. /\ r \in HoldRow /\ r.status \in Endings
        /\ r.alloc = holds[g].alloc /\ r.wallet = holds[g].wallet
    BY <1>2, <2>1 DEF HoldRow, Endings
  <2>3. holds' = [holds EXCEPT ![g] = r]
    BY <1>1
  <2> HIDE DEF r
  <2> QED BY <1>2, <2>1, <2>2, <2>3
<1>5. /\ \A v \in Wallets : v # w => lots'[v] = lots[v]
      /\ DOMAIN lots'[w] = DOMAIN lots[w]
      /\ \A i \in DOMAIN lots[w] : lots'[w][i].held = lots[w][i].held + (-1) * Taken(take[c], i)
  <2>1. -1 \in Signs /\ 0 \in Signs /\ 1 \in Signs
    BY DEF Signs
  <2>2. /\ \A v \in Wallets : v # w => lots'[v] = lots[v]
        /\ DOMAIN lots'[w] = DOMAIN lots[w]
    BY <1>0, <1>1, <1>3, <2>1, MoveLotsType, Zenon
  <2>3. ASSUME NEW i \in DOMAIN lots[w]
        PROVE  lots'[w][i].held = lots[w][i].held + (-1) * Taken(take[c], i)
    BY <1>0, <1>1, <1>3, <2>1, MoveLotsType
  <2> QED BY <2>2, <2>3
<1>6. \A i \in DOMAIN lots[w] : lots'[w][i].held = lots[w][i].held - Taken(take[c], i)
  <2>1. \A k \in Nat : (-1) * k = - k
    OBVIOUS
  <2>2. \A i \in DOMAIN lots[w] : lots[w][i].held \in Int /\ Taken(take[c], i) \in Nat
    BY <1>0, <1>3, LotsOfWallet, TakenNat
  <2> QED BY <1>5, <2>1, <2>2
<1> HIDE DEF g
<1>7. AllocationTaken'
  BY <1>1, <1>4, AnswerKeepsAllocationTaken DEF Answered
<1>8. AllocationsFit'
  <2>1. \A h \in DOMAIN holds : /\ holds'[h].alloc = holds[h].alloc
                                 /\ holds'[h].wallet = holds[h].wallet
                                 /\ holds[h].wallet \in Wallets
    BY <1>0, <1>4, HoldsTyped
  <2>2. \A v \in Wallets : DOMAIN lots'[v] = DOMAIN lots[v]
    BY <1>5
  <2> QED BY <1>0, <1>4, <2>1, <2>2 DEF AllocationsFit
<1>9. HeldBacksActiveHolds'
  <2> SUFFICES ASSUME NEW v \in Wallets, NEW i \in DOMAIN lots'[v]
               PROVE  lots'[v][i].held = ActiveHeld(v, i)'
    BY Zenon DEF HeldBacksActiveHolds, ActiveHeld
  <2>1. ActiveHeld(v, i)' = ActiveHeld(v, i) - IF w = v THEN Taken(take[c], i) ELSE 0
    BY <1>0, <1>2, <1>4, EndedHoldGivesUp DEF Endings
  <2>2. \A u \in Wallets : \A j \in DOMAIN lots[u] : lots[u][j].held = ActiveHeld(u, j)
    BY <1>0, Zenon DEF HeldBacksActiveHolds, ActiveHeld
  <2>3. i \in DOMAIN lots[v] /\ lots[v][i].held \in Int
    BY <1>0, <1>5, LotsOfWallet
  <2> HIDE DEF w
  <2> QED BY <1>5, <1>6, <2>1, <2>2, <2>3
<1> QED BY <1>7, <1>8, <1>9 DEF HeldInv

\* HeldInv is inductive: one case per action of Next.
LEMMA StepKeepsHeldInv == HeldInv /\ [Next]_vars => HeldInv'
<1> SUFFICES ASSUME HeldInv, [Next]_vars PROVE HeldInv'
  OBVIOUS
<1>0. TypeOK /\ EndedInv /\ EndedInv'
  BY StepKeepsEndedInv DEF HeldInv, EndedInv, LockInv
<1>1. ASSUME NEW c \in Calls, NEW a \in {"idle"} \cup Answered, Answer(c, a), UNCHANGED rows
      PROVE  HeldInv'
  <2>1. /\ pc'[c] # "ready"
        /\ \A d \in Calls : d # c => pc'[d] = pc[d] /\ target'[d] = target[d] /\ take'[d] = take[d]
    BY <1>0, <1>1 DEF TypeOK, Answer, Answered
  <2> QED BY <1>0, <1>1, <2>1, ReadingKeepsHeldInv DEF rows
<1>2. ASSUME NEW c \in Calls, Begin(c) PROVE HeldInv'
  <2>1. UNCHANGED rows
    BY <1>2 DEF Begin
  <2>2. CASE Answer(c, "existing")
    BY <1>1, <2>1, <2>2 DEF Answered
  <2>3. CASE /\ pc' = [pc EXCEPT ![c] = "open"] /\ \E h : target' = [target EXCEPT ![c] = h]
             /\ UNCHANGED take
    <3>1. /\ pc'[c] # "ready"
          /\ \A d \in Calls : d # c => pc'[d] = pc[d] /\ target'[d] = target[d] /\ take'[d] = take[d]
      BY <1>0, <2>3 DEF TypeOK
    <3> QED BY <1>0, <2>1, <3>1, ReadingKeepsHeldInv DEF rows
  <2> QED BY <1>2, <2>2, <2>3 DEF Begin
<1>3. ASSUME NEW c \in Calls, LockHold(c) PROVE HeldInv'
  <2>1. UNCHANGED rows
    BY <1>3 DEF LockHold
  <2>2. CASE Answer(c, "existing") \/ Answer(c, "refused")
    BY <1>1, <2>1, <2>2 DEF Answered
  <2>3. CASE pc' = [pc EXCEPT ![c] = "holdLocked"] /\ UNCHANGED locals
    <3>1. /\ pc'[c] # "ready"
          /\ \A d \in Calls : d # c => pc'[d] = pc[d] /\ target'[d] = target[d] /\ take'[d] = take[d]
      BY <1>0, <2>3 DEF TypeOK, locals
    <3> QED BY <1>0, <2>1, <3>1, ReadingKeepsHeldInv DEF rows
  <2> QED BY <1>3, <2>2, <2>3 DEF LockHold
<1>4. ASSUME NEW c \in Calls, LockBalance(c) PROVE HeldInv'
  <2>1. UNCHANGED rows
    BY <1>4 DEF LockBalance
  <2>2. CASE Answer(c, "existing") \/ Answer(c, "refused")
    BY <1>1, <2>1, <2>2 DEF Answered
  <2>3. CASE /\ pc' = [pc EXCEPT ![c] = "ready"]
             /\ take' = [take EXCEPT ![c] =
                           IF EndsHold(c) THEN holds[target[c]].alloc
                           ELSE IF DrawsOnPoints(c) THEN PlanLotConsumption(c) ELSE <<>>]
             /\ UNCHANGED target
    <3>1. /\ EndsHold(c) => take'[c] = holds[target'[c]].alloc
          /\ \A d \in Calls : d # c => pc'[d] = pc[d] /\ target'[d] = target[d] /\ take'[d] = take[d]
      BY <1>0, <2>3 DEF TypeOK
    <3> QED BY <1>0, <2>1, <3>1, ReadingKeepsHeldInv DEF rows
  <2> QED BY <1>4, <2>2, <2>3 DEF LockBalance
<1>5. ASSUME NEW c \in Calls, Commit(c) PROVE HeldInv'
  BY <1>0, <1>5, CreditKeepsHeldInv, DebitKeepsHeldInv, HoldKeepsHeldInv, EndHoldKeepsHeldInv
  DEF Commit, CommitRelease, CommitConsume
<1>6. ASSUME NEW c \in Calls, LoseUniqueRace(c) PROVE HeldInv'
  BY <1>1, <1>6 DEF LoseUniqueRace, Answered
<1>7. ASSUME NEW c \in Calls, Abort(c) PROVE HeldInv'
  BY <1>1, <1>7 DEF Abort
<1>8. CASE UNCHANGED vars
  BY <1>0, <1>8, SMTT(30) DEF vars, rows, locals, HeldInv, AllocationsFit, AllocationTaken,
                    HeldBacksActiveHolds, Taken
<1> QED
  BY <1>2, <1>3, <1>4, <1>5, <1>6, <1>7, <1>8 DEF Next, Advance, Quiescent

\* The held part of every lot is what the active holds allocated from it, so
\* that ending one hold never touches the points of another.
THEOREM HeldIsAllocated == Spec => []HeldBacksActiveHolds
<1>1. Init => HeldInv
  <2> SUFFICES ASSUME Init PROVE HeldInv
    OBVIOUS
  <2>1. EndedInv
    BY InitEndedInv
  <2> QED BY <2>1 DEF Init, HeldInv, AllocationsFit, AllocationTaken, HeldBacksActiveHolds
<1>2. HeldInv => HeldBacksActiveHolds
  BY DEF HeldInv
<1> QED BY <1>1, <1>2, StepKeepsHeldInv, PTL DEF Spec

-----------------------------------------------------------------------------
(* The plan.  planLotConsumption goes through the lots source by source;   *)
(* of each source it takes what the sources before it leave open, up to    *)
(* what the source has.                                                    *)

\* The sources in the order they are consumed.
LEMMA Priorities ==
  /\ SourcePriority("PROMOTIONAL") = 0
  /\ SourcePriority("PURCHASED") = 1
  /\ SourcePriority("DRIVER_EARNED") = 2
BY Zenon DEF SourcePriority

\* What the lots of one source offer a call, and what its plan takes of them.
Offered(c, s) ==
  [j \in DOMAIN lots[Call[c].wallet] |->
     IF s \in Eligible(c) /\ lots[Call[c].wallet][j].source = s
     THEN lots[Call[c].wallet][j].available ELSE 0]
Planned(c, s) ==
  [j \in DOMAIN lots[Call[c].wallet] |->
     IF lots[Call[c].wallet][j].source = s THEN PlanLotConsumption(c)[j] ELSE 0]
OfferedTotal(c, s) == SumTo(Offered(c, s), Len(lots[Call[c].wallet]))

\* What the sources consumed earlier offer.
OfferedBefore(c, s) ==
  IF s = "PROMOTIONAL" THEN 0
  ELSE IF s = "PURCHASED" THEN OfferedTotal(c, "PROMOTIONAL")
  ELSE OfferedTotal(c, "PROMOTIONAL") + OfferedTotal(c, "PURCHASED")

\* What is taken of y points when x are still needed.
Part(x, y) == IF x <= 0 THEN 0 ELSE IF x < y THEN x ELSE y

\* Lots offer naturals.
LEMMA OfferedNat ==
  ASSUME TypeOK, AvailableNonNegative, NEW c \in Calls, NEW s \in Sources
  PROVE  /\ Len(lots[Call[c].wallet]) \in Nat
         /\ DOMAIN lots[Call[c].wallet] = 1..Len(lots[Call[c].wallet])
         /\ \A i \in DOMAIN lots[Call[c].wallet] : Offered(c, s)[i] \in Nat
         /\ OfferedTotal(c, s) \in Nat
         /\ \A m \in 0..Len(lots[Call[c].wallet]) : SumTo(Offered(c, s), m) \in Nat
<1> DEFINE w == Call[c].wallet
           n == Len(lots[w])
           f == Offered(c, s)
<1>1. w \in Wallets
  BY WalletLedgerAssumption
<1>2. n \in Nat /\ DOMAIN lots[w] = 1..n
  BY <1>1, LotsOfWallet
<1>3. \A i \in 1..n : f[i] \in Nat
  BY <1>1, <1>2, LotsOfWallet, SMTT(30) DEF Offered, AvailableNonNegative
<1>4. OfferedTotal(c, s) = SumTo(f, n)
  BY DEF OfferedTotal
<1> HIDE DEF f, n
<1>5. \A m \in 0..n : SumTo(f, m) \in Nat
  BY <1>2, <1>3, SumToNat
<1> QED BY <1>2, <1>3, <1>4, <1>5 DEF f, n

\* What is supplied before a lot: the sources before its own, and the earlier
\* lots of its own.
LEMMA SuppliedIs ==
  ASSUME TypeOK, AvailableNonNegative, NEW c \in Calls,
         NEW i \in DOMAIN lots[Call[c].wallet], lots[Call[c].wallet][i].source \in Eligible(c)
  PROVE  LET s == lots[Call[c].wallet][i].source
         IN  SuppliedBefore(c, Call[c].wallet, i) =
               OfferedBefore(c, s) + SumTo(Offered(c, s), i - 1)
<1> DEFINE w == Call[c].wallet
           n == Len(lots[w])
           s == lots[w][i].source
           own == [j \in DOMAIN lots[w] |-> IF j < i THEN Offered(c, s)[j] ELSE 0]
           all == [j \in DOMAIN lots[w] |->
                     IF lots[w][j].source \in Eligible(c) /\ ConsumedBefore(w, j, i)
                     THEN lots[w][j].available ELSE 0]
           P == Offered(c, "PROMOTIONAL")
           U == Offered(c, "PURCHASED")
           pu == [j \in DOMAIN lots[w] |-> P[j] + U[j]]
<1>1. w \in Wallets /\ n \in Nat /\ DOMAIN lots[w] = 1..n
  BY WalletLedgerAssumption, OfferedNat
<1>2. \A j \in 1..n : lots[w][j].source \in Sources /\ lots[w][j].available \in Nat
  BY <1>1, LotsOfWallet DEF AvailableNonNegative
<1>3. s \in Sources /\ i \in 1..n
  BY <1>1, <1>2
<1>4. \A j \in 1..n : P[j] \in Nat /\ U[j] \in Nat /\ Offered(c, s)[j] \in Nat
  BY <1>1, <1>3, OfferedNat
<1>8. \A j \in 1..n : own[j] \in Nat
  BY <1>1, <1>4
<1>5. SumTo(own, n) = SumTo(Offered(c, s), i - 1)
  <2>1. \A j \in 1..i-1 : own[j] = Offered(c, s)[j]
    BY <1>1, <1>3
  <2>2. \A j \in i..n : own[j] = 0
    BY <1>1, <1>3
  <2> HIDE DEF own, n
  <2>3. i - 1 \in Nat /\ i - 1 \in 0..n /\ (i-1)+1 = i
    BY <1>1, <1>3
  <2>4. SumTo(own, i - 1) = SumTo(Offered(c, s), i - 1)
    BY <2>1, <2>3, SumToEqual
  <2>5. \A j \in 1..i-1 : own[j] \in Int
    BY <1>1, <1>8, <2>3
  <2>6. SumTo(own, n) = SumTo(own, i - 1)
    BY <1>1, <2>2, <2>3, <2>5, SumToPadded
  <2> QED BY <2>4, <2>6
<1>6. \A j \in 1..n : ConsumedBefore(w, j, i) <=>
        \/ lots[w][j].source = s /\ j < i
        \/ lots[w][j].source = "PROMOTIONAL" /\ s # "PROMOTIONAL"
        \/ lots[w][j].source = "PURCHASED" /\ s = "DRIVER_EARNED"
  <2> SUFFICES ASSUME NEW j \in 1..n
               PROVE  ConsumedBefore(w, j, i) <=>
                        \/ lots[w][j].source = s /\ j < i
                        \/ lots[w][j].source = "PROMOTIONAL" /\ s # "PROMOTIONAL"
                        \/ lots[w][j].source = "PURCHASED" /\ s = "DRIVER_EARNED"
    OBVIOUS
  <2>1. lots[w][j].source \in Sources /\ s \in Sources
    BY <1>2, <1>3
  <2>2. ConsumedBefore(w, j, i) <=>
          \/ SourcePriority(lots[w][j].source) < SourcePriority(s)
          \/ SourcePriority(lots[w][j].source) = SourcePriority(s) /\ j < i
    BY DEF ConsumedBefore
  <2> HIDE DEF s, w, n
  <2> QED BY <2>1, <2>2, Priorities DEF Sources
<1>12. SumTo(Offered(c, s), i - 1) \in Nat
  <2>1. i - 1 \in 0..n
    BY <1>1, <1>3
  <2> QED BY <1>3, <2>1, OfferedNat
<1>13. /\ Eligible(c) \in {Sources, {"DRIVER_EARNED"}}
       /\ s # "DRIVER_EARNED" => Eligible(c) = Sources
  BY DEF Eligible
<1>14. \A j \in 1..n :
         /\ P[j] = IF "PROMOTIONAL" \in Eligible(c) /\ lots[w][j].source = "PROMOTIONAL"
                   THEN lots[w][j].available ELSE 0
         /\ U[j] = IF "PURCHASED" \in Eligible(c) /\ lots[w][j].source = "PURCHASED"
                   THEN lots[w][j].available ELSE 0
         /\ own[j] = IF lots[w][j].source = s /\ j < i THEN lots[w][j].available ELSE 0
         /\ all[j] = IF lots[w][j].source \in Eligible(c) /\ ConsumedBefore(w, j, i)
                     THEN lots[w][j].available ELSE 0
         /\ pu[j] = P[j] + U[j]
  BY <1>1 DEF Offered
<1>7. SuppliedBefore(c, w, i) = SumTo(all, n)
  BY DEF SuppliedBefore
<1>9. CASE s = "PROMOTIONAL"
  <2> HIDE DEF all, own, n, w, P, U, pu
  <2>1. \A j \in 1..n : all[j] = own[j]
    BY <1>2, <1>6, <1>9, <1>13, <1>14
  <2>2. SumTo(all, n) = SumTo(own, n)
    BY <1>1, <2>1, SumToEqual
  <2> QED BY <1>5, <1>7, <1>9, <1>12, <2>2 DEF OfferedBefore, n, w
<1>10. CASE s = "PURCHASED"
  <2> HIDE DEF all, own, n, w, P, U, pu
  <2>1. \A j \in 1..n : all[j] = P[j] + own[j]
    BY <1>2, <1>6, <1>10, <1>13, <1>14
  <2>2. SumTo(all, n) = SumTo(P, n) + SumTo(own, n)
    <3>1. \A j \in 1..n : P[j] \in Int /\ own[j] \in Int /\ all[j] = P[j] + own[j]
      BY <1>4, <1>8, <2>1
    <3> HIDE DEF s
    <3> QED BY <1>1, <3>1, SumToPlus
  <2> QED BY <1>5, <1>7, <1>10, <2>2 DEF OfferedBefore, OfferedTotal, n, w, P
<1>11. CASE s = "DRIVER_EARNED"
  <2> HIDE DEF all, own, n, w, P, U, pu
  <2>1. \A j \in 1..n : all[j] = pu[j] + own[j] /\ pu[j] = P[j] + U[j] /\ pu[j] \in Nat
    BY <1>2, <1>4, <1>6, <1>11, <1>13, <1>14
  <2>2. SumTo(all, n) = SumTo(pu, n) + SumTo(own, n)
    <3>1. \A j \in 1..n : pu[j] \in Int /\ own[j] \in Int /\ all[j] = pu[j] + own[j]
      BY <1>8, <2>1
    <3> HIDE DEF s
    <3> QED BY <1>1, <3>1, SumToPlus
  <2>3. SumTo(pu, n) = SumTo(P, n) + SumTo(U, n)
    <3>1. \A j \in 1..n : P[j] \in Int /\ U[j] \in Int /\ pu[j] = P[j] + U[j]
      BY <1>4, <2>1
    <3> HIDE DEF s
    <3> QED BY <1>1, <3>1, SumToPlus
  <2> QED BY <1>5, <1>7, <1>11, <2>2, <2>3 DEF OfferedBefore, OfferedTotal, n, w, P, U
<1> QED BY <1>3, <1>9, <1>10, <1>11

\* Of each source the plan takes what is still needed, up to what it offers.
LEMMA PlannedOfSource ==
  ASSUME TypeOK, AvailableNonNegative, NEW c \in Calls, NEW s \in Sources
  PROVE  SumTo(Planned(c, s), Len(lots[Call[c].wallet])) =
           Part(Call[c].amount - OfferedBefore(c, s), OfferedTotal(c, s))
<1> DEFINE w == Call[c].wallet
           n == Len(lots[w])
           need == Call[c].amount - OfferedBefore(c, s)
           g == Planned(c, s)
           f == Offered(c, s)
           Bad == {m \in 0..n : SumTo(g, m) # Part(need, SumTo(f, m))}
<1>1. /\ w \in Wallets /\ Call[c].amount \in Nat /\ n \in Nat /\ DOMAIN lots[w] = 1..n
      /\ \A i \in 1..n : f[i] \in Nat
      /\ \A m \in 0..n : SumTo(f, m) \in Nat
  BY WalletLedgerAssumption, OfferedNat
<1>2. need \in Int
  BY <1>1, OfferedNat DEF OfferedBefore
<1>3. ASSUME NEW i \in 1..n
      PROVE  g[i] = Part(need - SumTo(f, i - 1), f[i])
  <2>0. lots[w][i].available \in Nat /\ lots[w][i].source \in Sources /\ SumTo(f, i - 1) \in Nat
    BY <1>1, LotsOfWallet DEF AvailableNonNegative
  <2>1. CASE lots[w][i].source = s /\ s \in Eligible(c)
    <3>1. SuppliedBefore(c, w, i) = OfferedBefore(c, s) + SumTo(f, i - 1)
      BY <1>1, <2>1, SuppliedIs
    <3>2. f[i] = lots[w][i].available
      BY <1>1, <2>1 DEF Offered
    <3>3. OfferedBefore(c, s) \in Int
      BY OfferedNat DEF OfferedBefore
    <3>4. Call[c].amount - SuppliedBefore(c, w, i) = need - SumTo(f, i - 1)
      BY <1>1, <2>0, <3>1, <3>3
    <3>5. g[i] = IF need - SumTo(f, i - 1) <= 0 THEN 0
                 ELSE IF need - SumTo(f, i - 1) < lots[w][i].available
                      THEN need - SumTo(f, i - 1) ELSE lots[w][i].available
      BY <1>1, <2>1, <3>4 DEF Planned, PlanLotConsumption
    <3> QED BY <3>2, <3>5 DEF Part
  <2>2. CASE lots[w][i].source # s
    <3>1. g[i] = 0 /\ f[i] = 0
      BY <1>1, <2>2 DEF Planned, Offered
    <3> QED BY <1>2, <2>0, <3>1 DEF Part
  <2>3. CASE lots[w][i].source = s /\ s \notin Eligible(c)
    <3>1. g[i] = 0 /\ f[i] = 0
      BY <1>1, <2>3 DEF Planned, Offered, PlanLotConsumption
    <3> QED BY <1>2, <2>0, <3>1 DEF Part
  <2> QED BY <2>1, <2>2, <2>3
<1> HIDE DEF n, need, f, g
<1>4. Bad = {}
  <2> SUFFICES ASSUME Bad # {} PROVE FALSE
    OBVIOUS
  <2>1. PICK m \in Bad : \A k \in Bad : m <= k
    <3>1. Bad \subseteq Nat
      BY <1>1
    <3> HIDE DEF Bad
    <3> QED BY <3>1, LeastNatural
  <2>2. m # 0
    BY <1>2, <2>1, SumToZero DEF Part
  <2>3. m \in 1..n /\ m - 1 \in 0..n /\ m - 1 \notin Bad
    BY <1>1, <2>1, <2>2
  <2>4. /\ SumTo(g, m) = SumTo(g, m - 1) + g[m]
        /\ SumTo(f, m) = SumTo(f, m - 1) + f[m]
    BY <1>1, <2>3, SumToStep
  <2>5. SumTo(g, m - 1) = Part(need, SumTo(f, m - 1))
    BY <2>3
  <2>6. SumTo(f, m - 1) \in Nat /\ f[m] \in Nat
    BY <1>1, <2>3
  <2>7. SumTo(g, m) = Part(need, SumTo(f, m - 1)) + Part(need - SumTo(f, m - 1), f[m])
    BY <1>3, <2>3, <2>4, <2>5
  <2>8. SumTo(g, m) = Part(need, SumTo(f, m))
    <3>1. \A x \in Int, y, z \in Nat : Part(x, y) + Part(x - y, z) = Part(x, y + z)
      BY DEF Part
    <3> QED BY <1>2, <2>4, <2>6, <2>7, <3>1
  <2> QED BY <2>1, <2>8
<1>5. SumTo(g, n) = Part(need, SumTo(f, n))
  BY <1>1, <1>4
<1> QED BY <1>5 DEF n, need, f, g, OfferedTotal

\* The points a plan or an allocation takes from a wallet, over all sources.
Drawn(w, t) ==
  SourceTake(w, t, "PROMOTIONAL") + SourceTake(w, t, "PURCHASED") + SourceTake(w, t, "DRIVER_EARNED")

\* When the balance suffices, the plan takes exactly the amount of the call.
LEMMA PlanTakesAmount ==
  ASSUME TypeOK, AvailableNonNegative, NoDrift, NEW c \in Calls, Call[c].amount <= Spendable(c)
  PROVE  Drawn(Call[c].wallet, PlanLotConsumption(c)) = Call[c].amount
<1> DEFINE w == Call[c].wallet
           n == Len(lots[w])
<1>1. w \in Wallets /\ Call[c].amount \in Nat /\ n \in Nat /\ DOMAIN lots[w] = 1..n
  BY WalletLedgerAssumption, OfferedNat
<1>2. ASSUME NEW s \in Sources
      PROVE  SourceTake(w, PlanLotConsumption(c), s) = SumTo(Planned(c, s), n)
  BY <1>1 DEF SourceTake, Planned, Taken, PlanLotConsumption
<1>3. ASSUME NEW s \in Sources
      PROVE  OfferedTotal(c, s) = IF s \in Eligible(c) THEN available[w][s] ELSE 0
  <2>1. CASE s \in Eligible(c)
    <3>1. OfferedTotal(c, s) = LotAvailable(w, s)
      BY <2>1 DEF OfferedTotal, Offered, LotAvailable
    <3> QED BY <1>1, <2>1, <3>1 DEF NoDrift
  <2>2. CASE s \notin Eligible(c)
    <3> DEFINE f == Offered(c, s)
    <3>1. \A i \in 1..n : f[i] = 0
      BY <1>1, <2>2 DEF Offered
    <3>2. OfferedTotal(c, s) = SumTo(f, n)
      BY DEF OfferedTotal
    <3> HIDE DEF f, n
    <3> QED BY <1>1, <2>2, <3>1, <3>2, SumToNone
  <2> QED BY <2>1, <2>2
<1>4. Call[c].amount <= OfferedTotal(c, "PROMOTIONAL") + OfferedTotal(c, "PURCHASED")
                        + OfferedTotal(c, "DRIVER_EARNED")
  <2>1. \A s \in Sources : available[w][s] \in Int
    BY <1>1 DEF TypeOK
  <2>2. CASE Eligible(c) = Sources
    BY <1>3, <2>1, <2>2 DEF Spendable, BucketTotal
  <2>3. CASE Eligible(c) # Sources
    <3>1. Eligible(c) = {"DRIVER_EARNED"}
      BY <2>3 DEF Eligible
    <3>2. Spendable(c) = available[w]["DRIVER_EARNED"]
      BY <2>3 DEF Spendable
    <3> QED BY <1>3, <2>1, <3>1, <3>2
  <2> QED BY <2>2, <2>3
<1>5. \A s \in Sources : OfferedTotal(c, s) \in Nat
  BY OfferedNat
<1>6. \A s \in Sources : SourceTake(w, PlanLotConsumption(c), s) =
                           Part(Call[c].amount - OfferedBefore(c, s), OfferedTotal(c, s))
  BY <1>2, PlannedOfSource
<1> HIDE DEF n, w
<1>7. Drawn(w, PlanLotConsumption(c)) = Call[c].amount
  BY <1>1, <1>4, <1>5, <1>6, SMTT(30) DEF Drawn, Part, OfferedBefore
<1> QED BY <1>7 DEF w

-----------------------------------------------------------------------------
(* Amounts.  A commit moves the points its ledger row states: a plan, and  *)
(* the allocation it becomes, add up to the amount asked for, and go on    *)
(* doing so while lots are added to the wallet.                            *)

PlansExact ==
  \A c \in Calls : pc[c] = "ready" /\ DrawsOnPoints(c) =>
    Drawn(Call[c].wallet, take[c]) = Call[c].amount

HoldsExact ==
  \A h \in DOMAIN holds : Drawn(holds[h].wallet, holds[h].alloc) = holds[h].amount

AmountInv == HeldInv /\ DriftInv /\ PlansExact /\ HoldsExact

\* Lots are added and change their parts, but neither disappear nor change source.
LotsStay(w) ==
  \A i \in DOMAIN lots[w] : i \in DOMAIN lots'[w] /\ lots'[w][i].source = lots[w][i].source

\* What a plan or an allocation takes does not depend on later lots.
LEMMA DrawnStays ==
  ASSUME TypeOK, TypeOK', NEW w \in Wallets, LotsStay(w),
         NEW t \in Seq(Nat), DOMAIN t \subseteq DOMAIN lots[w]
  PROVE  Drawn(w, t)' = Drawn(w, t)
<1> DEFINE m == Len(lots[w])
           n == Len(lots'[w])
<1>1. /\ m \in Nat /\ DOMAIN lots[w] = 1..m
      /\ n \in Nat /\ DOMAIN lots'[w] = 1..n
  <2>1. lots'[w] \in Seq(Lot)
    BY DEF TypeOK
  <2> QED BY <2>1, LotsOfWallet
<1>2. m \in 0..n
  BY <1>1 DEF LotsStay
<1>3. ASSUME NEW s \in Sources PROVE SourceTake(w, t, s)' = SourceTake(w, t, s)
  <2> DEFINE f == [i \in DOMAIN lots[w] |-> IF lots[w][i].source = s THEN Taken(t, i) ELSE 0]
             e == [i \in DOMAIN lots'[w] |-> IF lots'[w][i].source = s THEN Taken(t, i) ELSE 0]
  <2>1. SourceTake(w, t, s) = SumTo(f, m) /\ SourceTake(w, t, s)' = SumTo(e, n)
    BY DEF SourceTake, Taken
  <2>2. \A i \in 1..m : e[i] = f[i] /\ e[i] \in Int
    BY <1>1, TakenNat DEF LotsStay
  <2>3. \A i \in m+1..n : e[i] = 0
    BY <1>1, <1>2 DEF Taken
  <2> HIDE DEF e, f, m, n
  <2>4. SumTo(e, n) = SumTo(e, m)
    BY <1>1, <1>2, <2>2, <2>3, SumToPadded
  <2>5. SumTo(e, m) = SumTo(f, m)
    BY <1>1, <2>2, SumToEqual
  <2> QED BY <2>1, <2>4, <2>5
<1> QED BY <1>3 DEF Drawn

\* Every step leaves the lots there.
LEMMA CommitKeepsLots ==
  ASSUME LockInv, NEW c \in Calls, Commit(c), NEW w \in Wallets
  PROVE  LotsStay(w)
<1>0. TypeOK /\ TargetsExist
  BY DEF LockInv
<1>1. CASE CommitCredit(c)
  <2> DEFINE v == Call[c].wallet
             new == [source |-> Call[c].source, available |-> Call[c].amount, held |-> 0]
  <2>1. lots' = [lots EXCEPT ![v] = Append(@, new)]
    BY <1>1 DEF CommitCredit
  <2>2. v \in Wallets /\ new \in Lot
    BY WalletLedgerAssumption DEF Lot
  <2> HIDE DEF v, new
  <2>3. CASE w = v
    <3>1. lots'[w] = Append(lots[w], new) /\ lots[w] \in Seq(Lot)
      BY <1>0, <2>1, <2>3 DEF TypeOK
    <3>2. \A i \in DOMAIN lots[w] : i \in DOMAIN lots'[w] /\ lots'[w][i] = lots[w][i]
      BY <2>2, <3>1
    <3> QED BY <3>2 DEF LotsStay
  <2>4. CASE w # v
    BY <1>0, <2>1, <2>4 DEF TypeOK, LotsStay
  <2> QED BY <2>3, <2>4
<1>2. ASSUME NEW v \in Wallets, NEW x \in Signs, NEW y \in Signs, MoveLots(v, take[c], x, y)
      PROVE  LotsStay(w)
  <2>1. take[c] \in Seq(Nat)
    BY <1>0 DEF TypeOK
  <2>2. /\ \A u \in Wallets : u # v => lots'[u] = lots[u]
        /\ DOMAIN lots'[v] = DOMAIN lots[v]
        /\ \A i \in DOMAIN lots[v] : lots'[v][i].source = lots[v][i].source
    BY <1>0, <1>2, <2>1, MoveLotsType
  <2> QED BY <2>2 DEF LotsStay
<1>3. CASE CommitDebit(c) \/ CommitHold(c)
  <2>1. Call[c].wallet \in Wallets
    BY WalletLedgerAssumption
  <2> QED BY <1>2, <1>3, <2>1 DEF CommitDebit, CommitHold, Signs
<1>4. ASSUME NEW op, NEW x \in {0, 1}, EndHold(c, op, x), EndsHold(c) PROVE LotsStay(w)
  <2>1. pc[c] = "ready"
    BY <1>4 DEF EndHold, Committing
  <2>2. holds[target[c]].wallet \in Wallets
    BY <1>0, <1>4, <2>1, HoldsTyped DEF TargetsExist
  <2> QED BY <1>2, <1>4, <2>2 DEF EndHold, Signs
<1>5. CommitRelease(c) \/ CommitConsume(c) => EndsHold(c)
  BY DEF CommitRelease, CommitConsume, EndHold, Committing, EndsHold
<1> QED BY <1>1, <1>3, <1>4, <1>5 DEF Commit, CommitRelease, CommitConsume


\* So does every other step.
LEMMA StepKeepsLots ==
  ASSUME LockInv, [Next]_vars, NEW w \in Wallets
  PROVE  LotsStay(w)
<1>1. UNCHANGED lots => LotsStay(w)
  BY DEF LotsStay
<1>2. ASSUME NEW c \in Calls, Begin(c) \/ LockHold(c) \/ LockBalance(c) \/ LoseUniqueRace(c) \/ Abort(c)
      PROVE  UNCHANGED lots
  BY <1>2 DEF Begin, LockHold, LockBalance, LoseUniqueRace, Abort, rows
<1> QED BY <1>1, <1>2, CommitKeepsLots DEF Next, Advance, Quiescent, vars, rows

\* A plan or an allocation adds up to the same amount after the step.
LEMMA StepKeepsDrawn ==
  ASSUME LockInv, LockInv', [Next]_vars, NEW w \in Wallets, NEW t \in Seq(Nat),
         DOMAIN t \subseteq DOMAIN lots[w]
  PROVE  Drawn(w, t)' = Drawn(w, t)
  BY StepKeepsLots, DrawnStays DEF LockInv

\* A transaction is ready when it was, or because it has just planned.
LEMMA StepMakesReady ==
  ASSUME LockInv, [Next]_vars, NEW d \in Calls, pc'[d] = "ready", DrawsOnPoints(d)
  PROVE  \/ pc[d] = "ready" /\ take'[d] = take[d]
         \/ /\ take'[d] = PlanLotConsumption(d) /\ UNCHANGED rows
            /\ Call[d].amount <= Spendable(d)
<1>0. TypeOK
  BY DEF LockInv
<1>1. ASSUME NEW c \in Calls, NEW a \in {"idle"} \cup Answered, Answer(c, a)
      PROVE  pc[d] = "ready" /\ take'[d] = take[d]
  BY <1>0, <1>1 DEF TypeOK, Answer, Answered
<1>2. ASSUME NEW c \in Calls, Begin(c) PROVE pc[d] = "ready" /\ take'[d] = take[d]
  BY <1>0, <1>1, <1>2 DEF Begin, Answered, TypeOK
<1>3. ASSUME NEW c \in Calls, LockHold(c) PROVE pc[d] = "ready" /\ take'[d] = take[d]
  BY <1>0, <1>1, <1>3 DEF LockHold, Answered, TypeOK, locals
<1>4. ASSUME NEW c \in Calls, LockBalance(c), ~ (pc[d] = "ready" /\ take'[d] = take[d])
      PROVE  /\ take'[d] = PlanLotConsumption(d) /\ UNCHANGED rows
             /\ Call[d].amount <= Spendable(d)
  <2>1. /\ pc' = [pc EXCEPT ![c] = "ready"] /\ UNCHANGED rows
        /\ DrawsOnPoints(c) => Spendable(c) >= Call[c].amount
        /\ take' = [take EXCEPT ![c] =
                      IF EndsHold(c) THEN holds[target[c]].alloc
                      ELSE IF DrawsOnPoints(c) THEN PlanLotConsumption(c) ELSE <<>>]
    BY <1>1, <1>4 DEF LockBalance, Answered
  <2>2. c = d
    BY <1>0, <1>4, <2>1 DEF TypeOK
  <2>3. ~ EndsHold(d)
    BY DEF EndsHold, DrawsOnPoints
  <2> QED BY <1>0, <2>1, <2>2, <2>3 DEF TypeOK
<1>5. ASSUME NEW c \in Calls, Commit(c) \/ LoseUniqueRace(c) \/ Abort(c)
      PROVE  pc[d] = "ready" /\ take'[d] = take[d]
  BY <1>1, <1>5 DEF Commit, CommitCredit, CommitDebit, CommitHold, CommitRelease, CommitConsume,
                    EndHold, LoseUniqueRace, Abort, Answered
<1>6. UNCHANGED vars => pc[d] = "ready" /\ take'[d] = take[d]
  BY DEF vars, locals
<1> QED BY <1>2, <1>3, <1>4, <1>5, <1>6 DEF Next, Advance, Quiescent

\* A hold keeps its wallet, amount and allocation; a new one has those of the
\* call that places it.
LEMMA StepKeepsHoldRows ==
  ASSUME LockInv, [Next]_vars, NEW h \in DOMAIN holds'
  PROVE  \/ /\ h \in DOMAIN holds
            /\ holds'[h].wallet = holds[h].wallet /\ holds'[h].amount = holds[h].amount
            /\ holds'[h].alloc = holds[h].alloc
         \/ \E c \in Calls : /\ pc[c] = "ready" /\ DrawsOnPoints(c)
                             /\ holds'[h].wallet = Call[c].wallet
                             /\ holds'[h].amount = Call[c].amount
                             /\ holds'[h].alloc = take[c]
<1>0. TypeOK /\ TargetsExist
  BY DEF LockInv
<1>1. ASSUME UNCHANGED holds PROVE h \in DOMAIN holds /\ holds'[h] = holds[h]
  BY <1>1
<1>2. ASSUME NEW c \in Calls, Begin(c) \/ LockHold(c) \/ LockBalance(c) \/ LoseUniqueRace(c)
                               \/ Abort(c) \/ CommitCredit(c) \/ CommitDebit(c)
      PROVE  UNCHANGED holds
  BY <1>2 DEF Begin, LockHold, LockBalance, LoseUniqueRace, Abort, CommitCredit, CommitDebit, rows
<1>3. ASSUME NEW c \in Calls, CommitHold(c)
      PROVE  \/ h \in DOMAIN holds /\ holds'[h] = holds[h]
             \/ /\ pc[c] = "ready" /\ DrawsOnPoints(c)
                /\ holds'[h].wallet = Call[c].wallet
                /\ holds'[h].amount = Call[c].amount
                /\ holds'[h].alloc = take[c]
  <2> DEFINE new == [wallet |-> Call[c].wallet, type |-> Call[c].type, ref |-> Call[c].ref,
                     amount |-> Call[c].amount, status |-> "ACTIVE", alloc |-> take[c]]
  <2>1. holds' = Append(holds, new) /\ pc[c] = "ready" /\ DrawsOnPoints(c)
    BY <1>3 DEF CommitHold, Committing, DrawsOnPoints
  <2>2. /\ new.wallet = Call[c].wallet /\ new.amount = Call[c].amount /\ new.alloc = take[c]
        /\ new \in HoldRow /\ holds \in Seq(HoldRow)
    BY <1>0, WalletLedgerAssumption DEF HoldRow, TypeOK, Refs
  <2> HIDE DEF new
  <2> QED BY <2>1, <2>2
<1>4. ASSUME NEW c \in Calls, NEW op \in {"release", "consume"}, NEW x, EndHold(c, op, x)
      PROVE  /\ h \in DOMAIN holds
             /\ holds'[h].wallet = holds[h].wallet /\ holds'[h].amount = holds[h].amount
             /\ holds'[h].alloc = holds[h].alloc
  <2> DEFINE g == target[c]
             r == [holds[g] EXCEPT !.status = HoldEndedBy(op)]
  <2>1. g \in DOMAIN holds /\ holds' = [holds EXCEPT ![g] = r]
    BY <1>0, <1>4 DEF EndHold, Committing, TargetsExist, EndsHold
  <2>2. holds[g] \in HoldRow
    BY <1>0, <2>1, HoldsTyped
  <2>3. /\ r.wallet = holds[g].wallet /\ r.amount = holds[g].amount /\ r.alloc = holds[g].alloc
    BY <2>2 DEF HoldRow
  <2> HIDE DEF r, g
  <2> QED BY <2>1, <2>3
<1>5. UNCHANGED vars => UNCHANGED holds
  BY DEF vars, rows
<1> QED BY <1>1, <1>2, <1>3, <1>4, <1>5 DEF Next, Advance, Quiescent, Commit, CommitRelease, CommitConsume

\* AmountInv is inductive.
LEMMA StepKeepsAmountInv == AmountInv /\ [Next]_vars => AmountInv'
<1> SUFFICES ASSUME AmountInv, [Next]_vars PROVE AmountInv'
  OBVIOUS
<1>0. /\ LockInv /\ LockInv' /\ HeldInv' /\ DriftInv' /\ TypeOK /\ AvailableNonNegative
      /\ NoDrift /\ PlanCovered /\ AllocationsFit /\ PlansExact /\ HoldsExact
  BY StepKeepsHeldInv, StepKeepsDriftInv DEF AmountInv, HeldInv, EndedInv, DriftInv, LockInv
<1>1. PlansExact'
  <2> SUFFICES ASSUME NEW d \in Calls, pc'[d] = "ready", DrawsOnPoints(d)
               PROVE  Drawn(Call[d].wallet, take[d])' = Call[d].amount
    BY DEF PlansExact, DrawsOnPoints
  <2> DEFINE w == Call[d].wallet
             t == take'[d]
  <2>1. w \in Wallets
    BY WalletLedgerAssumption
  <2>2. /\ t \in Seq(Nat) /\ DOMAIN t \subseteq DOMAIN lots[w] /\ Drawn(w, t) = Call[d].amount
    <3>1. CASE pc[d] = "ready" /\ t = take[d]
      BY <1>0, <3>1 DEF TypeOK, PlansExact, PlanCovered
    <3>2. CASE t = PlanLotConsumption(d) /\ Call[d].amount <= Spendable(d)
      BY <1>0, <3>2, PlanTakesAmount, PlanType, PlanWithinLots
    <3> QED BY <1>0, <3>1, <3>2, StepMakesReady
  <2>3. \A u \in Seq(Nat) : DOMAIN u \subseteq DOMAIN lots[w] => Drawn(w, u)' = Drawn(w, u)
    BY <1>0, <2>1, StepKeepsDrawn
  <2> QED BY <2>2, <2>3
<1>2. HoldsExact'
  <2> SUFFICES ASSUME NEW h \in DOMAIN holds'
               PROVE  Drawn(holds[h].wallet, holds[h].alloc)' = holds'[h].amount
    BY DEF HoldsExact
  <2> DEFINE w == holds'[h].wallet
             t == holds'[h].alloc
  <2>1. /\ w \in Wallets /\ t \in Seq(Nat) /\ DOMAIN t \subseteq DOMAIN lots[w]
        /\ Drawn(w, t) = holds'[h].amount
    <3>1. CASE /\ h \in DOMAIN holds
               /\ w = holds[h].wallet /\ holds'[h].amount = holds[h].amount
               /\ t = holds[h].alloc
      BY <1>0, <3>1, HoldsTyped DEF HoldsExact, AllocationsFit
    <3>2. ASSUME NEW c \in Calls, pc[c] = "ready", DrawsOnPoints(c), w = Call[c].wallet,
                 holds'[h].amount = Call[c].amount, t = take[c]
          PROVE  /\ w \in Wallets /\ t \in Seq(Nat) /\ DOMAIN t \subseteq DOMAIN lots[w]
                 /\ Drawn(w, t) = holds'[h].amount
      BY <1>0, <3>2, WalletLedgerAssumption DEF TypeOK, PlansExact, PlanCovered
    <3> QED BY <1>0, <3>1, <3>2, StepKeepsHoldRows
  <2>2. \A v \in Wallets : \A u \in Seq(Nat) :
          DOMAIN u \subseteq DOMAIN lots[v] => Drawn(v, u)' = Drawn(v, u)
    BY <1>0, StepKeepsDrawn
  <2> QED BY <2>1, <2>2
<1> QED BY <1>0, <1>1, <1>2 DEF AmountInv

\* Nothing is planned or held at first.
LEMMA InitAmountInv == Init => AmountInv
<1> SUFFICES ASSUME Init PROVE AmountInv
  OBVIOUS
<1>1. EndedInv /\ DriftInv
  BY InitEndedInv, InitDriftInv
<1> QED BY <1>1 DEF Init, AmountInv, HeldInv, AllocationsFit, AllocationTaken,
                    HeldBacksActiveHolds, PlansExact, HoldsExact


-----------------------------------------------------------------------------
(* The ledger chain.  A commit writes the balance it read plus what its    *)
(* plan moves, and states both in its ledger row.                          *)

Total(w) == BucketTotal(available[w]) + BucketTotal(held[w])

\* A step moves a points into the available and h points into the held buckets
\* of a wallet, and touches no other wallet.
Moves(w, a, h) ==
  /\ BucketTotal(available'[w]) = BucketTotal(available[w]) + a
  /\ BucketTotal(held'[w]) = BucketTotal(held[w]) + h
  /\ \A v \in Wallets : v # w => available'[v] = available[v] /\ held'[v] = held[v]

\* Buckets hold integers.
LEMMA BucketsInt ==
  ASSUME TypeOK, NEW w \in Wallets
  PROVE  /\ \A s \in Sources : available[w][s] \in Int /\ held[w][s] \in Int
         /\ BucketTotal(available[w]) \in Int /\ BucketTotal(held[w]) \in Int
         /\ Total(w) \in Int
<1>1. available[w] \in [Sources -> Int] /\ held[w] \in [Sources -> Int]
  BY DEF TypeOK
<1>2. \A s \in Sources : available[w][s] \in Int /\ held[w][s] \in Int
  BY <1>1
<1>3. BucketTotal(available[w]) \in Int /\ BucketTotal(held[w]) \in Int
  BY <1>2 DEF BucketTotal
<1> QED BY <1>2, <1>3 DEF Total

\* The commits that carry out a plan or an allocation move what it draws.
LEMMA PlanMoves ==
  ASSUME AmountInv, NEW c \in Calls, pc[c] = "ready", NEW w \in Wallets, w = WalletOf(c),
         NEW x \in Signs, NEW y \in Signs, WriteBalance(w, MovedBalance(c, w, x, y))
  PROVE  /\ Moves(w, x * Drawn(w, take[c]), y * Drawn(w, take[c]))
         /\ Drawn(w, take[c]) \in Nat
<1>0. TypeOK /\ SeenCurrent
  BY DEF AmountInv, DriftInv, LockInv
<1> DEFINE t == take[c]
           p == SourceTake(w, t, "PROMOTIONAL")
           u == SourceTake(w, t, "PURCHASED")
           e == SourceTake(w, t, "DRIVER_EARNED")
<1>1. p \in Nat /\ u \in Nat /\ e \in Nat
  BY <1>0, SourceTakeNat DEF TypeOK
<1>2. /\ \A s \in Sources : /\ available'[w][s] = available[w][s] + x * SourceTake(w, t, s)
                            /\ held'[w][s] = held[w][s] + y * SourceTake(w, t, s)
      /\ \A v \in Wallets : v # w => available'[v] = available[v] /\ held'[v] = held[v]
  BY <1>0 DEF WriteBalance, MovedBalance, TypeOK, SeenCurrent
<1>3. \A s \in Sources : available[w][s] \in Int /\ held[w][s] \in Int
  BY <1>0, BucketsInt
<1>4. Drawn(w, t) = p + u + e
  BY DEF Drawn
<1>5. /\ available'[w]["PROMOTIONAL"] = available[w]["PROMOTIONAL"] + x * p
      /\ available'[w]["PURCHASED"] = available[w]["PURCHASED"] + x * u
      /\ available'[w]["DRIVER_EARNED"] = available[w]["DRIVER_EARNED"] + x * e
      /\ held'[w]["PROMOTIONAL"] = held[w]["PROMOTIONAL"] + y * p
      /\ held'[w]["PURCHASED"] = held[w]["PURCHASED"] + y * u
      /\ held'[w]["DRIVER_EARNED"] = held[w]["DRIVER_EARNED"] + y * e
  BY <1>2
<1> HIDE DEF p, u, e, t
<1>6. \A z \in Signs : z * p + z * u + z * e = z * (p + u + e)
                       /\ z * p \in Int /\ z * u \in Int /\ z * e \in Int
  BY <1>1 DEF Signs
<1>7. BucketTotal(available'[w]) = BucketTotal(available[w]) + x * Drawn(w, t)
  <2>1. x * p + x * u + x * e = x * Drawn(w, t) /\ x * p \in Int /\ x * u \in Int /\ x * e \in Int
    BY <1>4, <1>6
  <2> DEFINE xp == x * p
             xu == x * u
             xe == x * e
             xd == x * Drawn(w, t)
  <2>2. xp + xu + xe = xd /\ xp \in Int /\ xu \in Int /\ xe \in Int
    BY <2>1
  <2>3. /\ available'[w]["PROMOTIONAL"] = available[w]["PROMOTIONAL"] + xp
        /\ available'[w]["PURCHASED"] = available[w]["PURCHASED"] + xu
        /\ available'[w]["DRIVER_EARNED"] = available[w]["DRIVER_EARNED"] + xe
    BY <1>5
  <2> HIDE DEF xp, xu, xe, xd
  <2>4. BucketTotal(available'[w]) = BucketTotal(available[w]) + xd
    BY <1>3, <2>2, <2>3 DEF BucketTotal
  <2> QED BY <2>4 DEF xd
<1>8. BucketTotal(held'[w]) = BucketTotal(held[w]) + y * Drawn(w, t)
  <2>1. y * p + y * u + y * e = y * Drawn(w, t) /\ y * p \in Int /\ y * u \in Int /\ y * e \in Int
    BY <1>4, <1>6
  <2> DEFINE yp == y * p
             yu == y * u
             ye == y * e
             yd == y * Drawn(w, t)
  <2>2. yp + yu + ye = yd /\ yp \in Int /\ yu \in Int /\ ye \in Int
    BY <2>1
  <2>3. /\ held'[w]["PROMOTIONAL"] = held[w]["PROMOTIONAL"] + yp
        /\ held'[w]["PURCHASED"] = held[w]["PURCHASED"] + yu
        /\ held'[w]["DRIVER_EARNED"] = held[w]["DRIVER_EARNED"] + ye
    BY <1>5
  <2> HIDE DEF yp, yu, ye, yd
  <2>4. BucketTotal(held'[w]) = BucketTotal(held[w]) + yd
    BY <1>3, <2>2, <2>3 DEF BucketTotal
  <2> QED BY <2>4 DEF yd
<1> QED BY <1>1, <1>2, <1>4, <1>7, <1>8 DEF Moves, t

TotalAfter(w) == BucketTotal(available'[w]) + BucketTotal(held'[w])

\* The ledger row of a commit states the balance before it and after it.
Posts(c, w, kind, amount, h) ==
  ledger' = Append(ledger, [key |-> Call[c].key, wallet |-> w, kind |-> kind,
                            amount |-> amount, before |-> Total(w),
                            after |-> TotalAfter(w), hold |-> h])

\* It does so because the row that was read is still the current one.
LEMMA PostStatesTotals ==
  ASSUME AmountInv, NEW c \in Calls, pc[c] = "ready", NEW w \in Wallets, w = WalletOf(c),
         NEW row, NEW kind, NEW amount, NEW h,
         WriteBalance(w, row), Post(c, kind, amount, row, h)
  PROVE  Posts(c, w, kind, amount, h)
<1>0. TypeOK /\ SeenCurrent
  BY DEF AmountInv, DriftInv, LockInv
<1>1. available'[w] = row.available /\ held'[w] = row.held
  BY <1>0 DEF WriteBalance, TypeOK
<1>2. seen[c].available = available[w] /\ seen[c].held = held[w]
  BY <1>0 DEF SeenCurrent
<1>3. TotalBalance(seen[c]) = Total(w) /\ TotalBalance(row) = TotalAfter(w)
  BY <1>1, <1>2 DEF Total, TotalBalance, TotalAfter
<1> QED BY <1>3 DEF Post, Posts

\* A credit moves its amount into the wallet.
LEMMA CreditMoves ==
  ASSUME AmountInv, NEW c \in Calls, CommitCredit(c)
  PROVE  LET w == Call[c].wallet
             a == Call[c].amount
         IN  w \in Wallets /\ a \in Nat /\ Moves(w, a, 0) /\ Posts(c, w, "CREDIT", a, 0)
<1> DEFINE w == Call[c].wallet
           a == Call[c].amount
           row == [available |-> [seen[c].available EXCEPT ![Call[c].source] = @ + a],
                   held |-> seen[c].held]
<1>0. TypeOK /\ SeenCurrent
  BY DEF AmountInv, DriftInv, LockInv
<1>1. /\ w \in Wallets /\ a \in Nat /\ Call[c].source \in Sources /\ w = WalletOf(c)
      /\ pc[c] = "ready" /\ WriteBalance(w, row) /\ Post(c, "CREDIT", a, row, 0)
  BY WalletLedgerAssumption DEF CommitCredit, Committing, WalletOf, EndsHold
<1>2. Posts(c, w, "CREDIT", a, 0)
  <2> HIDE DEF w, a, row
  <2> QED BY <1>1, PostStatesTotals
<1>3. seen[c].available = available[w] /\ seen[c].held = held[w]
  BY <1>0, <1>1 DEF SeenCurrent
<1>4. available[w] \in [Sources -> Int] /\ held[w] \in [Sources -> Int]
  BY <1>0, <1>1 DEF TypeOK
<1>5. /\ available'[w] = [available[w] EXCEPT ![Call[c].source] = @ + a] /\ held'[w] = held[w]
      /\ \A v \in Wallets : v # w => available'[v] = available[v] /\ held'[v] = held[v]
  BY <1>0, <1>1, <1>3 DEF WriteBalance, TypeOK
<1> HIDE DEF w, a, row
<1>6. BucketTotal(available'[w]) = BucketTotal(available[w]) + a
  BY <1>1, <1>4, <1>5 DEF BucketTotal
<1>7. BucketTotal(held'[w]) = BucketTotal(held[w]) + 0
  BY <1>0, <1>1, <1>5, BucketsInt
<1>8. Moves(w, a, 0)
  BY <1>5, <1>6, <1>7 DEF Moves
<1> QED BY <1>1, <1>2, <1>8 DEF w, a

\* A debit moves its amount out.
LEMMA DebitMoves ==
  ASSUME AmountInv, NEW c \in Calls, CommitDebit(c)
  PROVE  LET w == Call[c].wallet
             a == Call[c].amount
         IN  w \in Wallets /\ a \in Nat /\ Moves(w, - a, 0) /\ Posts(c, w, "DEBIT", a, 0)
<1> DEFINE w == Call[c].wallet
           a == Call[c].amount
<1>1. /\ w \in Wallets /\ a \in Nat /\ w = WalletOf(c) /\ pc[c] = "ready"
      /\ WriteBalance(w, MovedBalance(c, w, -1, 0))
      /\ Post(c, "DEBIT", a, MovedBalance(c, w, -1, 0), 0)
      /\ Drawn(w, take[c]) = a
  BY WalletLedgerAssumption
  DEF CommitDebit, Committing, WalletOf, EndsHold, AmountInv, PlansExact, DrawsOnPoints
<1> HIDE DEF w, a
<1>2. Posts(c, w, "DEBIT", a, 0)
  BY <1>1, PostStatesTotals
<1>3. Moves(w, -1 * a, 0 * a)
  BY <1>1, PlanMoves DEF Signs
<1>4. -1 * a = - a /\ 0 * a = 0
  BY <1>1
<1> QED BY <1>1, <1>2, <1>3, <1>4 DEF w, a

\* A hold moves its amount aside.
LEMMA HoldMoves ==
  ASSUME AmountInv, NEW c \in Calls, CommitHold(c)
  PROVE  LET w == Call[c].wallet
             a == Call[c].amount
         IN  w \in Wallets /\ a \in Nat /\ Moves(w, - a, a) /\ Posts(c, w, "HOLD", a, Len(holds) + 1)
<1> DEFINE w == Call[c].wallet
           a == Call[c].amount
<1>1. /\ w \in Wallets /\ a \in Nat /\ w = WalletOf(c) /\ pc[c] = "ready"
      /\ WriteBalance(w, MovedBalance(c, w, -1, 1))
      /\ Post(c, "HOLD", a, MovedBalance(c, w, -1, 1), Len(holds) + 1)
      /\ Drawn(w, take[c]) = a
  BY WalletLedgerAssumption
  DEF CommitHold, Committing, WalletOf, EndsHold, AmountInv, PlansExact, DrawsOnPoints
<1> HIDE DEF w, a
<1>2. Posts(c, w, "HOLD", a, Len(holds) + 1)
  BY <1>1, PostStatesTotals
<1>3. Moves(w, -1 * a, 1 * a)
  BY <1>1, PlanMoves DEF Signs
<1>4. -1 * a = - a /\ 1 * a = a
  BY <1>1
<1> QED BY <1>1, <1>2, <1>3, <1>4 DEF w, a

\* Ending a hold moves the amount of the hold, back or away.
LEMMA EndHoldMoves ==
  ASSUME AmountInv, NEW c \in Calls, NEW op \in {"release", "consume"}, NEW x \in {0, 1},
         EndHold(c, op, x)
  PROVE  LET h == target[c]
             w == holds[h].wallet
             a == holds[h].amount
         IN  /\ h \in DOMAIN holds /\ holds[h].status = "ACTIVE"
             /\ w \in Wallets /\ a \in Nat
             /\ Moves(w, IF x = 1 THEN a ELSE 0, - a) /\ Posts(c, w, HoldEndedBy(op), a, h)
<1> DEFINE h == target[c]
           w == holds[h].wallet
           a == holds[h].amount
<1>0. TypeOK /\ TargetsExist /\ HoldOwned /\ AllocationTaken /\ HoldsExact
  BY DEF AmountInv, DriftInv, LockInv, HeldInv, EndedInv
<1>1. /\ EndsHold(c) /\ OwnsHold(c) /\ w = WalletOf(c) /\ pc[c] = "ready"
      /\ WriteBalance(w, MovedBalance(c, w, x, -1))
      /\ Post(c, HoldEndedBy(op), a, MovedBalance(c, w, x, -1), h)
  BY DEF EndHold, Committing, WalletOf, EndsHold, OwnsHold
<1>2. /\ h \in DOMAIN holds /\ holds[h].status = "ACTIVE" /\ w \in Wallets /\ a \in Nat
      /\ take[c] = holds[h].alloc
  BY <1>0, <1>1, HoldsTyped DEF TargetsExist, HoldOwned, AllocationTaken
<1>3. Drawn(w, take[c]) = a
  BY <1>0, <1>2 DEF HoldsExact
<1> HIDE DEF w, a, h
<1>4. Posts(c, w, HoldEndedBy(op), a, h)
  BY <1>1, <1>2, PostStatesTotals
<1>5. Moves(w, x * a, -1 * a)
  BY <1>1, <1>2, <1>3, PlanMoves DEF Signs
<1>6. -1 * a = - a /\ x * a = IF x = 1 THEN a ELSE 0
  BY <1>2
<1> QED BY <1>2, <1>4, <1>5, <1>6 DEF w, a, h


-----------------------------------------------------------------------------
\* The rows of the same wallet before a row, and the last of some rows.
Earlier(r) == {q \in 1..r-1 : ledger[q].wallet = ledger[r].wallet}
LastOf(S) == CHOOSE q \in S : \A p \in S : p <= q

RowChained(r) ==
  /\ ledger[r].after = ledger[r].before + Effect(ledger[r])
  /\ ledger[r].before = IF Earlier(r) = {} THEN 0 ELSE ledger[LastOf(Earlier(r))].after

\* The last row of a wallet states the balance the wallet has.
LastRowsStand ==
  \A r \in DOMAIN ledger : IsLastRow(r) => ledger[r].after = Total(ledger[r].wallet)

\* A wallet without ledger rows is empty.
EmptyWithoutRows ==
  \A w \in Wallets : (\A r \in DOMAIN ledger : ledger[r].wallet # w) => Total(w) = 0

ChainInv ==
  AmountInv /\ (\A r \in DOMAIN ledger : RowChained(r)) /\ LastRowsStand /\ EmptyWithoutRows

\* The parts of ChainInv are the chain.
LEMMA ChainInvChains == ChainInv => LedgerChained
<1> SUFFICES ASSUME ChainInv, NEW r \in DOMAIN ledger
             PROVE  LET row == ledger[r]
                        earlier == {q \in 1..r-1 : ledger[q].wallet = row.wallet}
                    IN  /\ row.after = row.before + Effect(row)
                        /\ row.before =
                             IF earlier = {} THEN 0
                             ELSE ledger[CHOOSE q \in earlier : \A p \in earlier : p <= q].after
                        /\ IsLastRow(r) =>
                             row.after = BucketTotal(available[row.wallet]) + BucketTotal(held[row.wallet])
  BY Zenon DEF LedgerChained
<1>1. RowChained(r) /\ (IsLastRow(r) => ledger[r].after = Total(ledger[r].wallet))
  BY DEF ChainInv, LastRowsStand
<1> QED BY <1>1, Zenon DEF RowChained, Earlier, LastOf, Total

\* Some rows, if any, have a last one.
LEMMA LastRow ==
  ASSUME NEW n \in Nat, NEW S, S \subseteq 1..n, S # {}
  PROVE  LastOf(S) \in S /\ \A p \in S : p <= LastOf(S)
<1> DEFINE T == {n - q : q \in S}
<1>1. T \subseteq Nat /\ T # {}
  OBVIOUS
<1>2. PICK x \in T : \A y \in T : x <= y
  <2> HIDE DEF T
  <2> QED BY <1>1, LeastNatural
<1>3. PICK q \in S : x = n - q
  OBVIOUS
<1>4. \A p \in S : p <= q
  <2> SUFFICES ASSUME NEW p \in S PROVE p <= q
    OBVIOUS
  <2>1. n - p \in T
    OBVIOUS
  <2>2. n - q <= n - p
    BY <1>2, <1>3, <2>1
  <2> QED BY <2>2
<1> QED BY <1>4 DEF LastOf

\* What a row does to the total balance, by its kind.
LEMMA EffectIs ==
  ASSUME NEW row
  PROVE  /\ row.kind = "CREDIT" => Effect(row) = row.amount
         /\ row.kind \in {"DEBIT", "CONSUMED"} => Effect(row) = - row.amount
         /\ row.kind \in {"HOLD", "RELEASED"} => Effect(row) = 0
  BY Zenon DEF Effect

\* A commit appends one row, of the wallet it changes, from the total before to
\* the total after.
LEMMA CommitAppends ==
  ASSUME AmountInv, NEW c \in Calls, Commit(c)
  PROVE  \E w \in Wallets : \E row :
           /\ ledger' = Append(ledger, row)
           /\ row.wallet = w /\ row.before = Total(w) /\ row.after = TotalAfter(w)
           /\ TotalAfter(w) = Total(w) + Effect(row)
           /\ \A v \in Wallets : v # w => available'[v] = available[v] /\ held'[v] = held[v]
<1>0. TypeOK
  BY DEF AmountInv, DriftInv, LockInv
<1>1. ASSUME NEW w \in Wallets, NEW kind, NEW a \in Nat, NEW h, NEW da \in Int, NEW dh \in Int,
             Moves(w, da, dh), Posts(c, w, kind, a, h),
             \/ kind = "CREDIT" /\ da + dh = a
             \/ kind \in {"DEBIT", "CONSUMED"} /\ da + dh = - a
             \/ kind \in {"HOLD", "RELEASED"} /\ da + dh = 0
      PROVE  \E u \in Wallets : \E row :
               /\ ledger' = Append(ledger, row)
               /\ row.wallet = u /\ row.before = Total(u) /\ row.after = TotalAfter(u)
               /\ TotalAfter(u) = Total(u) + Effect(row)
               /\ \A v \in Wallets : v # u => available'[v] = available[v] /\ held'[v] = held[v]
  <2> DEFINE row == [key |-> Call[c].key, wallet |-> w, kind |-> kind, amount |-> a,
                     before |-> Total(w), after |-> TotalAfter(w), hold |-> h]
  <2>1. /\ ledger' = Append(ledger, row) /\ row.wallet = w /\ row.before = Total(w)
        /\ row.after = TotalAfter(w) /\ row.kind = kind /\ row.amount = a
    BY <1>1 DEF Posts
  <2> HIDE DEF row
  <2>2. Effect(row) = da + dh
    BY <1>1, <2>1, EffectIs
  <2>3. TotalAfter(w) = Total(w) + (da + dh)
    <3>1. BucketTotal(available[w]) \in Int /\ BucketTotal(held[w]) \in Int
      BY <1>0, BucketsInt
    <3> QED BY <1>1, <3>1 DEF Moves, Total, TotalAfter
  <2> QED BY <1>1, <2>1, <2>2, <2>3 DEF Moves
<1>2. CASE CommitCredit(c)
  <2> DEFINE a == Call[c].amount
  <2>1. /\ Call[c].wallet \in Wallets /\ a \in Nat /\ Moves(Call[c].wallet, a, 0)
        /\ Posts(c, Call[c].wallet, "CREDIT", a, 0) /\ a + 0 = a /\ a \in Int /\ 0 \in Int
    BY <1>2, CreditMoves
  <2> HIDE DEF a
  <2> QED BY <1>1, <2>1, Zenon
<1>3. CASE CommitDebit(c)
  <2> DEFINE a == Call[c].amount
  <2>1. /\ Call[c].wallet \in Wallets /\ a \in Nat /\ Moves(Call[c].wallet, - a, 0)
        /\ Posts(c, Call[c].wallet, "DEBIT", a, 0) /\ - a + 0 = - a /\ - a \in Int /\ a \in Int /\ 0 \in Int
    BY <1>3, DebitMoves
  <2> HIDE DEF a
  <2> QED BY <1>1, <2>1, Zenon
<1>4. CASE CommitHold(c)
  <2> DEFINE a == Call[c].amount
  <2>1. /\ Call[c].wallet \in Wallets /\ a \in Nat /\ Moves(Call[c].wallet, - a, a)
        /\ Posts(c, Call[c].wallet, "HOLD", a, Len(holds) + 1) /\ - a + a = 0 /\ - a \in Int /\ a \in Int /\ 0 \in Int
    BY <1>4, HoldMoves
  <2> HIDE DEF a
  <2> QED BY <1>1, <2>1, Zenon
<1>5. CASE CommitRelease(c)
  <2>1. EndHold(c, "release", 1)
    BY <1>5 DEF CommitRelease
  <2> DEFINE w == holds[target[c]].wallet
             a == holds[target[c]].amount
  <2>2. /\ w \in Wallets /\ a \in Nat /\ Moves(w, a, - a)
        /\ Posts(c, w, "RELEASED", a, target[c]) /\ a + - a = 0 /\ - a \in Int /\ a \in Int /\ 0 \in Int
    BY <2>1, EndHoldMoves DEF HoldEndedBy
  <2> HIDE DEF a, w
  <2> QED BY <1>1, <2>2, Zenon
<1>6. CASE CommitConsume(c)
  <2>1. EndHold(c, "consume", 0)
    BY <1>6 DEF CommitConsume
  <2> DEFINE w == holds[target[c]].wallet
             a == holds[target[c]].amount
  <2>2. /\ w \in Wallets /\ a \in Nat /\ Moves(w, 0, - a)
        /\ Posts(c, w, "CONSUMED", a, target[c]) /\ 0 + - a = - a /\ - a \in Int /\ a \in Int /\ 0 \in Int
    BY <2>1, EndHoldMoves DEF HoldEndedBy
  <2> HIDE DEF a, w
  <2> QED BY <1>1, <2>2, Zenon
<1> QED BY <1>2, <1>3, <1>4, <1>5, <1>6 DEF Commit

\* Steps other than commits write neither ledger nor balances.
LEMMA OthersPostNothing ==
  ASSUME [Next]_vars, ~ \E c \in Calls : Commit(c)
  PROVE  UNCHANGED rows
  BY DEF Next, Advance, Quiescent, Begin, LockHold, LockBalance, LoseUniqueRace, Abort, vars

\* A commit adds a link to the chain of its wallet.
LEMMA CommitKeepsChainInv ==
  ASSUME ChainInv, AmountInv', NEW c \in Calls, Commit(c)
  PROVE  ChainInv'
<1> DEFINE n == Len(ledger)
<1>0. TypeOK /\ AmountInv
  BY DEF ChainInv, AmountInv, DriftInv, LockInv
<1>1. PICK w \in Wallets : \E row :
        /\ ledger' = Append(ledger, row)
        /\ row.wallet = w /\ row.before = Total(w) /\ row.after = TotalAfter(w)
        /\ TotalAfter(w) = Total(w) + Effect(row)
        /\ \A v \in Wallets : v # w => available'[v] = available[v] /\ held'[v] = held[v]
  BY <1>0, CommitAppends
<1>2. PICK row :
        /\ ledger' = Append(ledger, row)
        /\ row.wallet = w /\ row.before = Total(w) /\ row.after = TotalAfter(w)
        /\ TotalAfter(w) = Total(w) + Effect(row)
        /\ \A v \in Wallets : v # w => available'[v] = available[v] /\ held'[v] = held[v]
  BY <1>1
<1>3. /\ n \in Nat /\ DOMAIN ledger = 1..n /\ DOMAIN ledger' = 1..n+1 /\ Len(ledger') = n + 1
      /\ ledger'[n+1] = row /\ \A q \in 1..n : ledger'[q] = ledger[q]
      /\ \A q \in 1..n : ledger[q].wallet \in Wallets
  <2>1. ledger \in Seq(LedgerRow) /\ ledger \in Seq(LedgerRow \cup {row}) /\ row \in LedgerRow \cup {row}
    BY <1>0 DEF TypeOK
  <2>2. \A q \in 1..n : ledger[q] \in LedgerRow
    BY <2>1
  <2> HIDE DEF TypeOK
  <2>3. n \in Nat /\ DOMAIN ledger = 1..n
    BY <2>1
  <2>4. DOMAIN ledger' = 1..n+1 /\ Len(ledger') = n + 1 /\ ledger'[n+1] = row
        /\ \A q \in 1..n : ledger'[q] = ledger[q]
    BY <1>2, <2>1, <2>3, AppendProperties
  <2> QED BY <2>2, <2>3, <2>4 DEF LedgerRow
<1> HIDE DEF n
<1>4. ASSUME NEW r \in 1..n+1 PROVE Earlier(r)' = {q \in 1..r-1 : ledger[q].wallet = ledger'[r].wallet}
  <2>1. \A q \in 1..r-1 : q \in 1..n
    BY <1>3
  <2> QED BY <1>3, <2>1 DEF Earlier
<1>5. ASSUME NEW r \in 1..n PROVE RowChained(r)'
  <2>1. ledger'[r] = ledger[r] /\ Earlier(r)' = Earlier(r) /\ RowChained(r)
    BY <1>3, <1>4 DEF Earlier, ChainInv
  <2>2. Earlier(r) # {} => LastOf(Earlier(r)) \in 1..n
    <3>1. Earlier(r) \subseteq 1..n
      BY <1>3 DEF Earlier
    <3> QED BY <1>3, <3>1, LastRow
  <2>3. LastOf(Earlier(r))' = LastOf(Earlier(r))
    BY <2>1 DEF LastOf
  <2>4. Earlier(r) # {} => ledger'[LastOf(Earlier(r))] = ledger[LastOf(Earlier(r))]
    BY <1>3, <2>2
  <2>5. Effect(ledger[r])' = Effect(ledger[r])
    BY <2>1 DEF Effect
  <2> QED BY <2>1, <2>3, <2>4, <2>5 DEF RowChained
<1>6. ASSUME NEW k, k = n + 1 PROVE RowChained(k)'
  <2> DEFINE E == {q \in 1..n : ledger[q].wallet = w}
  <2>1. Earlier(k)' = E
    BY <1>2, <1>3, <1>4, <1>6
  <2>2. Total(w) = IF E = {} THEN 0 ELSE ledger'[LastOf(E)].after
    <3>1. CASE E = {}
      <4>1. \A r \in DOMAIN ledger : ledger[r].wallet # w
        BY <1>3, <3>1
      <4> QED BY <3>1, <4>1 DEF ChainInv, EmptyWithoutRows
    <3>2. CASE E # {}
      <4> DEFINE m == LastOf(E)
      <4>1. m \in E /\ \A p \in E : p <= m
        <5>1. E \subseteq 1..n
          OBVIOUS
        <5> QED BY <1>3, <3>2, <5>1, LastRow
      <4> HIDE DEF m
      <4>2. m \in 1..n /\ ledger[m].wallet = w /\ IsLastRow(m)
        BY <1>3, <4>1 DEF IsLastRow, n
      <4>3. ledger[m].after = Total(ledger[m].wallet)
        BY <1>3, <4>2 DEF ChainInv, LastRowsStand
      <4>4. ledger'[m].after = Total(w)
        BY <1>3, <4>2, <4>3
      <4> QED BY <3>2, <4>4 DEF m
    <3> QED BY <3>1, <3>2
  <2>3. LastOf(Earlier(k))' = LastOf(E)
    BY <2>1 DEF LastOf
  <2>4. ledger'[k].after = ledger'[k].before + Effect(ledger'[k])
        /\ ledger'[k].before = Total(w)
    BY <1>2, <1>3, <1>6
  <2>5. Effect(ledger[k])' = Effect(ledger'[k])
    BY Zenon DEF Effect
  <2> HIDE DEF E
  <2> QED BY <2>1, <2>2, <2>3, <2>4, <2>5 DEF RowChained
<1>7. LastRowsStand'
  <2> SUFFICES ASSUME NEW r \in DOMAIN ledger', IsLastRow(r)'
               PROVE  ledger'[r].after = TotalAfter(ledger'[r].wallet)
    BY DEF LastRowsStand, Total, TotalAfter
  <2>1. CASE r = n + 1
    BY <1>2, <1>3, <2>1
  <2>2. CASE r # n + 1
    <3>1. r \in 1..n /\ ledger'[r] = ledger[r] /\ ledger[r].wallet \in Wallets
      BY <1>3, <2>2
    <3>2. ledger[r].wallet # w
      BY <1>2, <1>3, <3>1 DEF IsLastRow
    <3>3. IsLastRow(r)
      BY <1>3, <3>1 DEF IsLastRow, n
    <3>4. ledger[r].after = Total(ledger[r].wallet)
      BY <1>3, <3>1, <3>3 DEF ChainInv, LastRowsStand
    <3>5. TotalAfter(ledger[r].wallet) = Total(ledger[r].wallet)
      BY <1>2, <3>1, <3>2 DEF Total, TotalAfter
    <3> QED BY <3>1, <3>4, <3>5
  <2> QED BY <2>1, <2>2
<1>8. EmptyWithoutRows'
  <2> SUFFICES ASSUME NEW v \in Wallets, \A r \in DOMAIN ledger' : ledger'[r].wallet # v
               PROVE  TotalAfter(v) = 0
    BY DEF EmptyWithoutRows, Total, TotalAfter
  <2>1. v # w
    BY <1>2, <1>3
  <2>2. \A r \in DOMAIN ledger : ledger[r].wallet # v
    BY <1>3
  <2>3. TotalAfter(v) = Total(v)
    BY <1>2, <2>1 DEF Total, TotalAfter
  <2> QED BY <2>2, <2>3 DEF ChainInv, EmptyWithoutRows
<1>9. \A r \in DOMAIN ledger' : RowChained(r)'
  BY <1>3, <1>5, <1>6
<1> QED BY <1>7, <1>8, <1>9 DEF ChainInv

\* ChainInv is inductive.
LEMMA StepKeepsChainInv == ChainInv /\ [Next]_vars => ChainInv'
<1> SUFFICES ASSUME ChainInv, [Next]_vars PROVE ChainInv'
  OBVIOUS
<1>1. AmountInv'
  BY StepKeepsAmountInv DEF ChainInv
<1>2. CASE \E c \in Calls : Commit(c)
  BY <1>1, <1>2, CommitKeepsChainInv
<1>3. CASE ~ \E c \in Calls : Commit(c)
  <2>1. UNCHANGED <<ledger, available, held>>
    BY <1>3, OthersPostNothing DEF rows
  <2>2. (\A r \in DOMAIN ledger : RowChained(r))'
    BY <2>1, SMTT(30) DEF ChainInv, RowChained, Earlier, LastOf, Effect
  <2>3. LastRowsStand' /\ EmptyWithoutRows'
    BY <2>1 DEF ChainInv, LastRowsStand, EmptyWithoutRows, IsLastRow, Total
  <2> QED BY <1>1, <2>2, <2>3 DEF ChainInv
<1> QED BY <1>2, <1>3

\* The ledger of every wallet is a chain that ends in the balance it has: no
\* commit is computed from a balance row another commit has overwritten, and
\* each moves exactly the amount it states.
THEOREM LedgerIsChained == Spec => []LedgerChained
<1>1. Init => ChainInv
  <2> SUFFICES ASSUME Init PROVE ChainInv
    OBVIOUS
  <2>1. AmountInv
    BY InitAmountInv
  <2> QED BY <2>1 DEF Init, ChainInv, LastRowsStand, EmptyWithoutRows, Total, BucketTotal
<1> QED BY <1>1, StepKeepsChainInv, ChainInvChains, PTL DEF Spec


-----------------------------------------------------------------------------
(* Refinement.  A commit is the request taking effect on the account; every *)
(* other step changes nothing the rest of the backend can see.             *)

Spendables == [w \in Wallets |-> BucketTotal(available[w])]
Reserveds == [w \in Wallets |-> BucketTotal(held[w])]
HoldsSeen == [h \in DOMAIN holds |-> [wallet |-> holds[h].wallet, amount |-> holds[h].amount,
                                      status |-> holds[h].status]]
KeysDone == {ledger[r].key : r \in DOMAIN ledger}
AmountsAsked == {Call[c].amount : c \in Calls}

\* Points that can be spent are never negative: they are those of the lots.
LEMMA SpendableNat ==
  ASSUME TypeOK, AvailableNonNegative, NoDrift, NEW w \in Wallets
  PROVE  BucketTotal(available[w]) \in Nat
<1>1. ASSUME NEW s \in Sources PROVE available[w][s] \in Nat
  <2> DEFINE f == [i \in DOMAIN lots[w] |->
                     IF lots[w][i].source = s THEN lots[w][i].available ELSE 0]
  <2>1. \A i \in 1..Len(lots[w]) : f[i] \in Nat
    BY LotsOfWallet DEF AvailableNonNegative
  <2>2. LotAvailable(w, s) = SumTo(f, Len(lots[w])) /\ Len(lots[w]) \in Nat
    BY LotsOfWallet DEF LotAvailable
  <2> HIDE DEF f
  <2>3. SumTo(f, Len(lots[w])) \in Nat
    BY <2>1, <2>2, SumToNat
  <2> QED BY <2>2, <2>3 DEF NoDrift
<1> QED BY <1>1 DEF BucketTotal

\* So they are after a step.
\* The same of every wallet.
LEMMA SpendablesNat ==
  TypeOK /\ AvailableNonNegative /\ NoDrift => \A w \in Wallets : BucketTotal(available[w]) \in Nat
  BY SpendableNat

\* What a wallet can spend after a step is a natural.
LEMMA SpendableAfter ==
  (TypeOK /\ AvailableNonNegative /\ NoDrift => \A w \in Wallets : BucketTotal(available[w]) \in Nat)'
  BY SpendablesNat, PTL

\* What a commit moves is moved in the account.
LEMMA MovesInAccount ==
  ASSUME TypeOK, TypeOK', NEW w \in Wallets, NEW a, NEW h, Moves(w, a, h)
  PROVE  /\ Spendables' = [Spendables EXCEPT ![w] = @ + a]
         /\ Reserveds' = [Reserveds EXCEPT ![w] = @ + h]
         /\ a = 0 => Spendables' = Spendables
         /\ h = 0 => Reserveds' = Reserveds
<1>1. /\ Spendables' = [Spendables EXCEPT ![w] = @ + a]
      /\ Reserveds' = [Reserveds EXCEPT ![w] = @ + h]
  BY DEF Moves, Spendables, Reserveds
<1>2. /\ a = 0 => BucketTotal(available'[w]) = BucketTotal(available[w])
      /\ h = 0 => BucketTotal(held'[w]) = BucketTotal(held[w])
  BY BucketsInt DEF Moves
<1>3. a = 0 => Spendables' = Spendables
  BY <1>2 DEF Moves, Spendables
<1>4. h = 0 => Reserveds' = Reserveds
  BY <1>2 DEF Moves, Reserveds
<1> QED BY <1>1, <1>3, <1>4

\* The key of a commit is done with it, and was not before.
LEMMA PostMakesDone ==
  ASSUME TypeOK, NEW c \in Calls, ~ KeyPosted(Call[c].key),
         NEW w, NEW kind, NEW a, NEW h, Posts(c, w, kind, a, h)
  PROVE  Call[c].key \notin KeysDone /\ KeysDone' = KeysDone \cup {Call[c].key}
<1> DEFINE row == [key |-> Call[c].key, wallet |-> w, kind |-> kind,
                   amount |-> a, before |-> Total(w), after |-> TotalAfter(w), hold |-> h]
           n == Len(ledger)
<1>1. ledger' = Append(ledger, row) /\ row.key = Call[c].key
  BY DEF Posts
<1> HIDE DEF row
<1>2. /\ n \in Nat /\ DOMAIN ledger = 1..n /\ DOMAIN ledger' = 1..n+1
      /\ ledger'[n+1] = row /\ \A q \in 1..n : ledger'[q] = ledger[q]
  <2>1. ledger \in Seq(LedgerRow) /\ ledger \in Seq(LedgerRow \cup {row}) /\ row \in LedgerRow \cup {row}
    BY DEF TypeOK
  <2> HIDE DEF TypeOK
  <2>2. n \in Nat /\ DOMAIN ledger = 1..n
    BY <2>1
  <2> QED BY <1>1, <2>1, <2>2, AppendProperties
<1> HIDE DEF n
<1>3. Call[c].key \notin KeysDone
  BY DEF KeyPosted, KeysDone
<1>4. KeysDone' = {ledger'[r].key : r \in 1..n} \cup {Call[c].key}
  BY <1>1, <1>2 DEF KeysDone
<1>5. {ledger'[r].key : r \in 1..n} = KeysDone
  BY <1>2 DEF KeysDone
<1> QED BY <1>3, <1>4, <1>5

\* A step of the account under a fresh key.
Effects ==
  \/ \E w \in Wallets, a \in AmountsAsked :
       Account!Credit(w, a) \/ Account!Debit(w, a) \/ Account!Hold(w, a)
  \/ \E h \in DOMAIN HoldsSeen : Account!Release(h) \/ Account!Consume(h)

\* An effect under a fresh key is a step of the account.
LEMMA FreshEffect ==
  ASSUME NEW c \in Calls, Call[c].key \notin KeysDone, KeysDone' = KeysDone \cup {Call[c].key},
         Effects
  PROVE  Account!Next
<1>1. Call[c].key \in Keys
  BY DEF Keys
<1>2. Account!Fresh(Call[c].key)
  BY DEF Account!Fresh, KeysDone
<1> QED BY <1>1, <1>2 DEF Account!Next, Effects, AmountsAsked, HoldsSeen

\* A committing credit is a credit of the account.
LEMMA CreditIsCredit ==
  ASSUME AmountInv, AmountInv', NEW c \in Calls, CommitCredit(c)
  PROVE  Account!Next
<1> DEFINE w == Call[c].wallet
           a == Call[c].amount
<1>0. TypeOK /\ TypeOK'
  BY DEF AmountInv, DriftInv, LockInv
<1>1. w \in Wallets /\ a \in Nat /\ Moves(w, a, 0) /\ Posts(c, w, "CREDIT", a, 0)
  BY CreditMoves
<1>2. ~ KeyPosted(Call[c].key) /\ UNCHANGED holds /\ a \in AmountsAsked
  BY DEF CommitCredit, Committing, AmountsAsked
<1> HIDE DEF w, a
<1>3. Call[c].key \notin KeysDone /\ KeysDone' = KeysDone \cup {Call[c].key}
  BY <1>0, <1>1, <1>2, PostMakesDone
<1>4. Spendables' = [Spendables EXCEPT ![w] = @ + a] /\ Reserveds' = Reserveds
  BY <1>0, <1>1, MovesInAccount
<1>5. HoldsSeen' = HoldsSeen
  BY <1>2 DEF HoldsSeen
<1>6. Account!Credit(w, a)
  BY <1>4, <1>5 DEF Account!Credit, Spendables, Reserveds, HoldsSeen
<1> QED BY <1>1, <1>2, <1>3, <1>6, FreshEffect DEF Effects

\* A committing debit is a debit of points that are there.
LEMMA DebitIsDebit ==
  ASSUME AmountInv, AmountInv', NEW c \in Calls, CommitDebit(c)
  PROVE  Account!Next
<1> DEFINE w == Call[c].wallet
           a == Call[c].amount
<1>0. /\ TypeOK /\ TypeOK' /\ AvailableNonNegative' /\ NoDrift'
  BY DEF AmountInv, DriftInv, LockInv
<1>1. w \in Wallets /\ a \in Nat /\ Moves(w, - a, 0) /\ Posts(c, w, "DEBIT", a, 0)
  BY DebitMoves
<1>2. ~ KeyPosted(Call[c].key) /\ UNCHANGED holds /\ a \in AmountsAsked
  BY DEF CommitDebit, Committing, AmountsAsked
<1> HIDE DEF w, a
<1>3. Call[c].key \notin KeysDone /\ KeysDone' = KeysDone \cup {Call[c].key}
  BY <1>0, <1>1, <1>2, PostMakesDone
<1>4. Spendables' = [Spendables EXCEPT ![w] = @ + - a] /\ Reserveds' = Reserveds
  BY <1>0, <1>1, MovesInAccount
<1>5. HoldsSeen' = HoldsSeen
  BY <1>2 DEF HoldsSeen
<1>6. a <= BucketTotal(available[w])
  BY <1>0, <1>1, BucketsInt, SpendableAfter DEF Moves
<1>7. Spendables' = [Spendables EXCEPT ![w] = @ - a]
  BY <1>0, <1>1, <1>4, BucketsInt DEF Spendables
<1>8. Account!Debit(w, a)
  BY <1>1, <1>4, <1>5, <1>6, <1>7 DEF Account!Debit, Spendables, Reserveds, HoldsSeen
<1> QED BY <1>1, <1>2, <1>3, <1>8, FreshEffect DEF Effects

\* A committing hold is a hold on points that are there.
LEMMA HoldIsHold ==
  ASSUME AmountInv, AmountInv', NEW c \in Calls, CommitHold(c)
  PROVE  Account!Next
<1> DEFINE w == Call[c].wallet
           a == Call[c].amount
           new == [wallet |-> w, type |-> Call[c].type, ref |-> Call[c].ref,
                   amount |-> a, status |-> "ACTIVE", alloc |-> take[c]]
           seenNew == [wallet |-> w, amount |-> a, status |-> "ACTIVE"]
           n == Len(holds)
<1>0. /\ TypeOK /\ TypeOK' /\ AvailableNonNegative' /\ NoDrift'
  BY DEF AmountInv, DriftInv, LockInv
<1>1. /\ w \in Wallets /\ a \in Nat /\ Moves(w, - a, a)
      /\ Posts(c, w, "HOLD", a, Len(holds) + 1)
  BY HoldMoves
<1>2. ~ KeyPosted(Call[c].key) /\ a \in AmountsAsked /\ holds' = Append(holds, new)
  BY DEF CommitHold, Committing, AmountsAsked
<1>3. /\ new.wallet = w /\ new.amount = a /\ new.status = "ACTIVE" /\ new \in HoldRow
      /\ n \in Nat /\ DOMAIN holds = 1..n /\ holds \in Seq(HoldRow)
  BY <1>0, HoldsTyped, WalletLedgerAssumption DEF HoldRow, TypeOK, Refs
<1> HIDE DEF w, a, new, n
<1>4. /\ DOMAIN holds' = 1..n+1 /\ holds'[n+1] = new
      /\ \A h \in 1..n : holds'[h] = holds[h]
  BY <1>2, <1>3 DEF n
<1>5. Call[c].key \notin KeysDone /\ KeysDone' = KeysDone \cup {Call[c].key}
  BY <1>0, <1>1, <1>2, PostMakesDone
<1>6. /\ Spendables' = [Spendables EXCEPT ![w] = @ + - a]
      /\ Reserveds' = [Reserveds EXCEPT ![w] = @ + a]
  BY <1>0, <1>1, MovesInAccount
<1>7. HoldsSeen' = Append(HoldsSeen, seenNew)
  <2> DEFINE R == [wallet : Wallets, amount : Nat, status : {"ACTIVE", "RELEASED", "CONSUMED"}]
  <2>1. \A h \in 1..n : holds[h] \in HoldRow
    BY <1>3 DEF n
  <2>2. HoldsSeen \in [1..n -> R]
    BY <1>3, <2>1 DEF HoldsSeen, HoldRow
  <2>9. seenNew \in R
    BY <1>1
  <2> HIDE DEF R
  <2>3. HoldsSeen \in Seq(R) /\ Len(HoldsSeen) = n
    BY <1>3, <2>2
  <2> DEFINE T == Append(HoldsSeen, seenNew)
  <2>4. /\ T \in Seq(R) /\ Len(T) = n + 1 /\ T[n+1] = seenNew
        /\ \A h \in 1..n : T[h] = HoldsSeen[h]
    BY <1>3, <2>3, <2>9, AppendProperties
  <2> HIDE DEF T
  <2>5. T = [h \in 1..n+1 |-> T[h]]
    BY <1>3, <2>4
  <2>6. HoldsSeen' = [h \in 1..n+1 |-> [wallet |-> holds'[h].wallet, amount |-> holds'[h].amount,
                                        status |-> holds'[h].status]]
    BY <1>4 DEF HoldsSeen
  <2>7. \A h \in 1..n+1 : T[h] = [wallet |-> holds'[h].wallet, amount |-> holds'[h].amount,
                                  status |-> holds'[h].status]
    <3>1. ASSUME NEW h \in 1..n
          PROVE  T[h] = [wallet |-> holds'[h].wallet, amount |-> holds'[h].amount,
                         status |-> holds'[h].status]
      <4>1. T[h] = HoldsSeen[h] /\ holds'[h] = holds[h] /\ h \in DOMAIN holds
        BY <1>3, <1>4, <2>4 DEF n
      <4> QED BY <4>1 DEF HoldsSeen
    <3>2. T[n+1] = [wallet |-> holds'[n+1].wallet, amount |-> holds'[n+1].amount,
                    status |-> holds'[n+1].status]
      <4>1. holds'[n+1].wallet = w /\ holds'[n+1].amount = a /\ holds'[n+1].status = "ACTIVE"
        BY <1>3, <1>4
      <4>2. T[n+1] = seenNew
        BY <2>4
      <4> QED BY <4>1, <4>2
    <3>3. \A h \in 1..n+1 : h \in 1..n \/ h = n+1
      BY <1>3
    <3> QED BY <3>1, <3>2, <3>3, Zenon
  <2>8. HoldsSeen' = T
    BY <2>5, <2>6, <2>7
  <2> QED BY <2>8 DEF T
<1>8. a <= BucketTotal(available[w])
  BY <1>0, <1>1, BucketsInt, SpendableAfter DEF Moves
<1>9. Spendables' = [Spendables EXCEPT ![w] = @ - a]
  BY <1>0, <1>1, <1>6, BucketsInt DEF Spendables
<1>10. Account!Hold(w, a)
  BY <1>1, <1>6, <1>7, <1>8, <1>9 DEF Account!Hold, Spendables, Reserveds, HoldsSeen
<1> QED BY <1>1, <1>2, <1>5, <1>10, FreshEffect DEF Effects

\* A hold ends in the account as it ends in the table.
LEMMA EndIsFinish ==
  ASSUME AmountInv, AmountInv', NEW c \in Calls, NEW op \in {"release", "consume"},
         NEW x \in {0, 1}, EndHold(c, op, x)
  PROVE  LET h == target[c]
             w == holds[h].wallet
             a == holds[h].amount
         IN  /\ h \in DOMAIN HoldsSeen
             /\ Account!Finish(h, HoldEndedBy(op))
             /\ Spendables' = [Spendables EXCEPT ![HoldsSeen[h].wallet] =
                                 @ + IF x = 1 THEN HoldsSeen[h].amount ELSE 0]
             /\ x = 0 => Spendables' = Spendables
             /\ Call[c].key \notin KeysDone /\ KeysDone' = KeysDone \cup {Call[c].key}
<1> DEFINE h == target[c]
           w == holds[h].wallet
           a == holds[h].amount
           back == IF x = 1 THEN a ELSE 0
           r == [holds[h] EXCEPT !.status = HoldEndedBy(op)]
           n == Len(holds)
<1>0. TypeOK /\ TypeOK'
  BY DEF AmountInv, DriftInv, LockInv
<1>1. /\ h \in DOMAIN holds /\ holds[h].status = "ACTIVE" /\ w \in Wallets /\ a \in Nat
      /\ Moves(w, back, - a) /\ Posts(c, w, HoldEndedBy(op), a, h)
  BY EndHoldMoves
<1>2. ~ KeyPosted(Call[c].key) /\ holds' = [holds EXCEPT ![h] = r]
  BY DEF EndHold, Committing
<1>3. /\ holds[h] \in HoldRow /\ r.wallet = w /\ r.amount = a /\ r.status = HoldEndedBy(op)
      /\ n \in Nat /\ DOMAIN holds = 1..n
  BY <1>0, <1>1, HoldsTyped DEF HoldRow
<1> HIDE DEF r, a, w, h, back, n
<1>4. Call[c].key \notin KeysDone /\ KeysDone' = KeysDone \cup {Call[c].key}
  BY <1>0, <1>1, <1>2, PostMakesDone
<1>5. /\ Spendables' = [Spendables EXCEPT ![w] = @ + back]
      /\ Reserveds' = [Reserveds EXCEPT ![w] = @ + - a]
      /\ back = 0 => Spendables' = Spendables
  BY <1>0, <1>1, MovesInAccount
<1>6. Reserveds' = [Reserveds EXCEPT ![w] = @ - a]
  BY <1>0, <1>1, <1>5, BucketsInt DEF Reserveds
<1>7. /\ h \in DOMAIN HoldsSeen /\ HoldsSeen[h].wallet = w /\ HoldsSeen[h].amount = a
      /\ HoldsSeen[h].status = "ACTIVE"
  BY <1>1 DEF HoldsSeen, w, a
<1>8. HoldsSeen' = [HoldsSeen EXCEPT ![h].status = HoldEndedBy(op)]
  <2> DEFINE q == [HoldsSeen[h] EXCEPT !.status = HoldEndedBy(op)]
  <2>1. DOMAIN holds' = DOMAIN holds /\ holds'[h] = r
        /\ \A g \in DOMAIN holds : g # h => holds'[g] = holds[g]
    BY <1>1, <1>2
  <2>2. q = [wallet |-> w, amount |-> a, status |-> HoldEndedBy(op)]
    BY <1>1 DEF HoldsSeen, w, a
  <2>3. q = [wallet |-> holds'[h].wallet, amount |-> holds'[h].amount, status |-> holds'[h].status]
    BY <1>3, <2>1, <2>2
  <2> HIDE DEF q
  <2>4. HoldsSeen' = [HoldsSeen EXCEPT ![h] = q]
    BY <1>1, <2>1, <2>3 DEF HoldsSeen
  <2> QED BY <2>4 DEF q
<1>9. Account!Finish(h, HoldEndedBy(op))
  BY <1>6, <1>7, <1>8 DEF Account!Finish, HoldsSeen, Reserveds
<1>10. /\ Spendables' = [Spendables EXCEPT ![HoldsSeen[h].wallet] =
                           @ + IF x = 1 THEN HoldsSeen[h].amount ELSE 0]
       /\ x = 0 => Spendables' = Spendables
  BY <1>5, <1>7 DEF back
<1> QED BY <1>4, <1>7, <1>9, <1>10 DEF h

\* A committing release is a release of the account.
LEMMA ReleaseIsRelease ==
  ASSUME AmountInv, AmountInv', NEW c \in Calls, CommitRelease(c)
  PROVE  Account!Next
<1> DEFINE h == target[c]
<1>1. /\ h \in DOMAIN HoldsSeen /\ Account!Finish(h, "RELEASED")
      /\ Spendables' = [Spendables EXCEPT ![HoldsSeen[h].wallet] = @ + HoldsSeen[h].amount]
      /\ Call[c].key \notin KeysDone /\ KeysDone' = KeysDone \cup {Call[c].key}
  BY EndIsFinish DEF CommitRelease, HoldEndedBy
<1> HIDE DEF h
<1>2. \E g \in DOMAIN HoldsSeen : Account!Release(g)
  BY <1>1 DEF Account!Release, Account!Finish, Spendables, HoldsSeen
<1> QED BY <1>1, <1>2, FreshEffect DEF Effects

\* A committing consumption is a consumption of the account.
LEMMA ConsumeIsConsume ==
  ASSUME AmountInv, AmountInv', NEW c \in Calls, CommitConsume(c)
  PROVE  Account!Next
<1> DEFINE h == target[c]
<1>1. /\ h \in DOMAIN HoldsSeen /\ Account!Finish(h, "CONSUMED")
      /\ Spendables' = Spendables
      /\ Call[c].key \notin KeysDone /\ KeysDone' = KeysDone \cup {Call[c].key}
  BY EndIsFinish DEF CommitConsume, HoldEndedBy
<1> HIDE DEF h
<1>2. \E g \in DOMAIN HoldsSeen : Account!Consume(g)
  BY <1>1 DEF Account!Consume, Account!Finish, Spendables
<1> QED BY <1>1, <1>2, FreshEffect DEF Effects

\* Every step of the wallet is a step of the account or none.
LEMMA StepIsAccountStep == AmountInv /\ AmountInv' /\ [Next]_vars => [Account!Next]_(Account!vars)
<1> SUFFICES ASSUME AmountInv, AmountInv', [Next]_vars PROVE [Account!Next]_(Account!vars)
  OBVIOUS
<1>1. CASE \E c \in Calls : Commit(c)
  BY <1>1, CreditIsCredit, DebitIsDebit, HoldIsHold, ReleaseIsRelease, ConsumeIsConsume DEF Commit
<1>2. CASE ~ \E c \in Calls : Commit(c)
  BY <1>2, OthersPostNothing DEF rows, Account!vars
<1> QED BY <1>1, <1>2

\* An empty wallet is an empty account.
LEMMA InitIsAccountInit == Init => Account!Init
  BY DEF Init, Account!Init, BucketTotal

\* Behind row locks, lots, unique indexes, lost races and retries, a wallet is
\* an account: every request takes effect at once, at most once, in full and
\* only when the points are there.
THEOREM WalletImplementsAccount == Spec => ImplementsAccount
<1>1. AmountInv /\ [Next]_vars => AmountInv'
  BY StepKeepsAmountInv
<1> QED
  BY <1>1, InitAmountInv, InitIsAccountInit, StepIsAccountStep, PTL DEF Spec, ImplementsAccount, Account!Spec

-----------------------------------------------------------------------------
(* What TLC checks of the ledger is this small instance: two races, each   *)
(* explored by itself, of a wallet credited from two sources, set aside    *)
(* twice, released and consumed, and of a retried debit against a hold and *)
(* a credit to a second wallet under a key that is already taken.          *)

Request(op, wallet, key, amount, source, type, ref) ==
  [op |-> op, wallet |-> wallet, key |-> key, amount |-> amount,
   source |-> source, type |-> type, ref |-> ref]

Credit(wallet, key, amount, source) ==
  Request("credit", wallet, key, amount, source, "WITHDRAWAL", "none")
Debit(key) == Request("debit", "w", key, 2, "PURCHASED", "WITHDRAWAL", "none")
OnHold(op, key, amount, type) == Request(op, "w", key, amount, "PURCHASED", type, "r")

\* A retried hold, and a release racing a consume of what it placed.
HoldRace == {"earn", "buy", "hold1", "hold2", "release", "consume"}

\* A retried debit racing a hold and a credit.
DebitRace == {"earn", "promo", "other", "pay", "payAgain", "hold"}

Races ==
  [c \in HoldRace \cup DebitRace |->
     CASE c = "earn" -> Credit("w", "k1", 2, "DRIVER_EARNED")
       [] c = "buy" -> Credit("w", "k2", 1, "PURCHASED")
       [] c = "promo" -> Credit("w", "k2", 1, "PROMOTIONAL")
       [] c = "other" -> Credit("v", "k2", 1, "PURCHASED")
       [] c \in {"pay", "payAgain"} -> Debit("k3")
       [] c = "hold1" -> OnHold("hold", "k3", 2, "ASSURED_DEPOSIT")
       [] c \in {"hold", "hold2"} -> OnHold("hold", "k4", IF c = "hold" THEN 2 ELSE 1, "WITHDRAWAL")
       [] c = "release" -> OnHold("release", "k5", 1, "WITHDRAWAL")
       [] c = "consume" -> OnHold("consume", "k6", 1, "WITHDRAWAL")]

OneRace == \E race \in {HoldRace, DebitRace} : \A c \in DOMAIN Races : pc[c] # "idle" => c \in race

=============================================================================
