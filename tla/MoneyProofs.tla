---------------------------- MODULE MoneyProofs ----------------------------
(***************************************************************************)
(* The payouts of Withdrawals, proved for any users, keys, amounts, admins *)
(* and removals.  An admin's status change is begun and committed in two   *)
(* steps, so what keeps the hold in step with the status is the row lock   *)
(* (LocksHold): what the admin read still stands when the change commits.  *)
(* Then the platform wallet's float, the top-ups, and the three together.  *)
(***************************************************************************)
EXTENDS MCMoney, FiniteSetTheorems, TLAPS

\* A status change in progress has its withdrawal to itself, as it was read.
LocksHold ==
  \A a \in Admins : admin[a] # NoUpdate =>
    /\ admin[a].withdrawal \in DOMAIN withdrawals
    /\ admin[a].from = withdrawals[admin[a].withdrawal].status
    /\ admin[a].to \in AllowedTransitions(admin[a].from)
    /\ \A b \in Admins : admin[b].withdrawal = admin[a].withdrawal => a = b

PayoutInv == TypeOK /\ LocksHold /\ HoldFollowsStatus

\* Nothing has been asked for at first.
LEMMA InitPayout == Init => PayoutInv
BY WithdrawalsAssumption DEF Init, PayoutInv, TypeOK, LocksHold, HoldFollowsStatus,
  NoUpdate, NoRemoval, Update, WithdrawalRow, Statuses, Answered

\* A withdrawal row is typed.
LEMMA RowsTyped ==
  ASSUME TypeOK
  PROVE  /\ Len(withdrawals) \in Nat
         /\ DOMAIN withdrawals = 1..Len(withdrawals)
         /\ \A w \in DOMAIN withdrawals :
              /\ withdrawals[w] \in WithdrawalRow
              /\ withdrawals[w].user \in Users /\ withdrawals[w].key \in Keys
              /\ withdrawals[w].amount \in Nat /\ withdrawals[w].method \in Methods \cup {"none"}
              /\ withdrawals[w].status \in Statuses
              /\ withdrawals[w].hold \in {"ACTIVE", "CONSUMED", "RELEASED"}
<1>1. withdrawals \in Seq(WithdrawalRow)
  BY DEF TypeOK
<1>2. Len(withdrawals) \in Nat /\ DOMAIN withdrawals = 1..Len(withdrawals)
  BY <1>1
<1>3. \A w \in DOMAIN withdrawals : withdrawals[w] \in WithdrawalRow
  BY <1>1, <1>2
<1> QED BY <1>1, <1>2, <1>3 DEF WithdrawalRow

\* PayoutInv is inductive: one case per action.
LEMMA NextPayout == PayoutInv /\ [Next]_vars => PayoutInv'
<1> SUFFICES ASSUME PayoutInv, [Next]_vars PROVE PayoutInv'
  OBVIOUS
<1> USE DEF PayoutInv
<1>0. TypeOK /\ LocksHold /\ HoldFollowsStatus
  OBVIOUS
<1>r. /\ \A r \in Requests : /\ Request[r].user \in Users /\ Request[r].method \in Methods
                            /\ Request[r].amount \in Nat \ {0} /\ Request[r].key \in Keys
  BY WithdrawalsAssumption DEF Keys
<1>1. CASE UNCHANGED vars
  BY <1>1, <1>0 DEF vars, wallet, TypeOK, LocksHold, HoldFollowsStatus
<1>2. ASSUME NEW r \in Requests, Validate(r) PROVE PayoutInv'
  <2>1. pc' \in [Requests -> {"idle", "validated", "inserted"} \cup Answered]
    BY <1>2, <1>0, Zenon DEF Validate, AnswerOriginal, TypeOK, Answered
  <2> QED BY <1>2, <1>0, <2>1 DEF Validate, TypeOK, LocksHold, HoldFollowsStatus, wallet
<1>3. ASSUME NEW r \in Requests, Insert(r) PROVE PayoutInv'
  <2>1. pc' \in [Requests -> {"idle", "validated", "inserted"} \cup Answered]
    BY <1>3, <1>0, Zenon DEF Insert, AnswerOriginal, TypeOK, Answered
  <2> QED BY <1>3, <1>0, <2>1 DEF Insert, TypeOK, LocksHold, HoldFollowsStatus, wallet
<1>4. ASSUME NEW r \in Requests, Reserve(r) PROVE PayoutInv'
  <2> DEFINE row == [user |-> Request[r].user, key |-> Request[r].key,
                     amount |-> Request[r].amount, method |-> Request[r].method,
                     status |-> "INITIATED", hold |-> "ACTIVE"]
  <2>1. row \in WithdrawalRow
    BY <1>r DEF WithdrawalRow, Statuses
  <2>2. CASE ~ Covered(r)
    BY <1>4, <2>2, <1>0 DEF Reserve, TypeOK, LocksHold, HoldFollowsStatus, wallet, Answered
  <2>3. CASE Covered(r)
    <3>1. /\ withdrawals' = Append(withdrawals, row) /\ SetAside(Request[r].user, Request[r].amount)
          /\ pc' = [pc EXCEPT ![r] = "created"]
          /\ UNCHANGED <<income, history, methods, admin, removal, aborts>>
      BY <1>4, <2>3 DEF Reserve
    <3>2. withdrawals' \in Seq(WithdrawalRow) /\ Len(withdrawals') = Len(withdrawals) + 1
      BY <3>1, <2>1, <1>0 DEF TypeOK
    <3>3. /\ DOMAIN withdrawals' = 1..Len(withdrawals) + 1
          /\ \A w \in DOMAIN withdrawals : w \in DOMAIN withdrawals' /\ withdrawals'[w] = withdrawals[w]
          /\ withdrawals'[Len(withdrawals) + 1] = row
      BY <3>1, <3>2, <2>1, <1>0, RowsTyped DEF TypeOK
    <3>4. earned' \in [Users -> Nat] /\ reserved' \in [Users -> Int]
      BY <3>1, <2>3, <1>r, <1>0 DEF SetAside, Covered, TypeOK
    <3>5. TypeOK'
      BY <3>1, <3>2, <3>3, <3>4, <1>0 DEF TypeOK, Answered
    <3>6. LocksHold'
      BY <3>1, <3>3, <1>0 DEF LocksHold
    <3>7. HoldFollowsStatus'
      BY <3>3, <1>0, RowsTyped DEF HoldFollowsStatus
    <3> QED BY <3>5, <3>6, <3>7
  <2> QED BY <2>2, <2>3
<1>5. ASSUME NEW r \in Requests, Abort(r) PROVE PayoutInv'
  BY <1>5, <1>0, WithdrawalsAssumption DEF Abort, TypeOK, LocksHold, HoldFollowsStatus, wallet, Answered
<1>6. ASSUME NEW a \in Admins, BeginUpdate(a) PROVE PayoutInv'
  <2>1. PICK w \in DOMAIN withdrawals :
          /\ ~ WithdrawalLocked(w)
          /\ \E to \in AllowedTransitions(withdrawals[w].status) :
               admin' = [admin EXCEPT ![a] = [withdrawal |-> w, from |-> withdrawals[w].status, to |-> to]]
    BY <1>6 DEF BeginUpdate
  <2>2. PICK to \in AllowedTransitions(withdrawals[w].status) :
          admin' = [admin EXCEPT ![a] = [withdrawal |-> w, from |-> withdrawals[w].status, to |-> to]]
    BY <2>1
  <2>3. UNCHANGED <<wallet, withdrawals, history, methods, pc, removal, aborts>>
    BY <1>6 DEF BeginUpdate
  <2>4. to \in Statuses /\ w \in Nat /\ withdrawals[w].status \in Statuses
    BY <2>2, <1>0, RowsTyped DEF AllowedTransitions, Statuses
  <2>5. TypeOK'
    BY <2>2, <2>3, <2>4, <1>0 DEF TypeOK, Update, wallet, NoUpdate
  <2>6. LocksHold'
    BY <2>1, <2>2, <2>3, <1>0 DEF LocksHold, WithdrawalLocked, TypeOK
  <2> QED BY <2>3, <2>5, <2>6, <1>0 DEF HoldFollowsStatus
<1>7. ASSUME NEW a \in Admins, CommitUpdate(a) PROVE PayoutInv'
  <2> DEFINE w == admin[a].withdrawal
             to == admin[a].to
             row == withdrawals[w]
             ended == HoldAfter(row.hold, to)
             new == [user |-> row.user, key |-> row.key, amount |-> row.amount,
                     method |-> row.method, status |-> to, hold |-> ended]
  <2>1. /\ w # 0
        /\ ~ HoldRefuses(row.hold, to)
        /\ withdrawals' = [withdrawals EXCEPT ![w] = new]
        /\ reserved' = IF ended = row.hold THEN reserved
                       ELSE [reserved EXCEPT ![row.user] = @ - row.amount]
        /\ earned' = IF ended = row.hold \/ ended = "CONSUMED" THEN earned
                     ELSE [earned EXCEPT ![row.user] = @ + row.amount]
        /\ history' = Append(history, [withdrawal |-> w, from |-> admin[a].from, to |-> to])
        /\ admin' = [admin EXCEPT ![a] = NoUpdate]
        /\ UNCHANGED <<income, methods, pc, removal, aborts>>
    BY <1>7, Zenon DEF CommitUpdate
  <2>2. admin[a] # NoUpdate
    BY <2>1 DEF NoUpdate
  <2>3. /\ w \in DOMAIN withdrawals /\ admin[a].from = row.status
        /\ to \in AllowedTransitions(row.status)
        /\ \A b \in Admins : admin[b].withdrawal = w => a = b
    BY <2>2, <1>0, Zenon DEF LocksHold
  <2> HIDE DEF w, to
  <2>4. /\ row.user \in Users /\ row.key \in Keys /\ row.amount \in Nat
        /\ row.method \in Methods \cup {"none"} /\ row.status \in Statuses
        /\ row.hold \in {"ACTIVE", "CONSUMED", "RELEASED"} /\ w \in Nat
    BY <2>3, <1>0, RowsTyped
  <2>5. /\ row.status \in {"INITIATED", "PROCESSING"}
        /\ to \in {"PROCESSING", "COMPLETED", "FAILED", "CANCELLED"}
    BY <2>3 DEF AllowedTransitions
  <2>6. row.hold = "ACTIVE"
    BY <2>3, <2>5, <1>0 DEF HoldFollowsStatus
  <2>7. /\ to = "PROCESSING" => ended = "ACTIVE"
        /\ to = "COMPLETED" => ended = "CONSUMED"
        /\ to \in {"FAILED", "CANCELLED"} => ended = "RELEASED"
    BY <2>5, <2>6 DEF HoldAfter, Returns
  <2> HIDE DEF ended
  <2>8. new \in WithdrawalRow /\ new.status = to /\ new.hold = ended
    BY <2>4, <2>5, <2>7 DEF WithdrawalRow, Statuses
  <2> HIDE DEF new
  <2>9. /\ withdrawals' \in Seq(WithdrawalRow) /\ DOMAIN withdrawals' = DOMAIN withdrawals
        /\ withdrawals'[w] = new
        /\ \A v \in DOMAIN withdrawals : v # w => withdrawals'[v] = withdrawals[v]
    BY <2>1, <2>3, <2>8, <1>0 DEF TypeOK
  <2> HIDE DEF row
  <2>10. earned' \in [Users -> Nat] /\ reserved' \in [Users -> Int]
    <3>1. /\ earned \in [Users -> Nat] /\ reserved \in [Users -> Int]
          /\ row.user \in Users /\ row.amount \in Nat
      BY <2>4, <1>0 DEF TypeOK
    <3>2. /\ earned' = earned \/ earned' = [earned EXCEPT ![row.user] = @ + row.amount]
          /\ reserved' = reserved \/ reserved' = [reserved EXCEPT ![row.user] = @ - row.amount]
      BY <2>1, Zenon
    <3> QED BY <3>1, <3>2
  <2>11. history' \in Seq([withdrawal : Nat, from : Statuses, to : Statuses])
    <3>1. [withdrawal |-> w, from |-> admin[a].from, to |-> to]
            \in [withdrawal : Nat, from : Statuses, to : Statuses]
      BY <2>3, <2>4, <2>5 DEF Statuses
    <3> QED BY <2>1, <3>1, <1>0 DEF TypeOK
  <2>12. admin' \in [Admins -> Update]
    BY <2>1, <1>0 DEF TypeOK, Update, NoUpdate
  <2>13. TypeOK'
    BY <2>1, <2>9, <2>10, <2>11, <2>12, <1>0 DEF TypeOK
  <2>14. LocksHold'
    <3> SUFFICES ASSUME NEW b \in Admins, admin'[b] # NoUpdate
                 PROVE /\ admin'[b].withdrawal \in DOMAIN withdrawals'
                       /\ admin'[b].from = withdrawals'[admin'[b].withdrawal].status
                       /\ admin'[b].to \in AllowedTransitions(admin'[b].from)
                       /\ \A c \in Admins : admin'[c].withdrawal = admin'[b].withdrawal => b = c
      BY Zenon DEF LocksHold
    <3>1. b # a /\ admin'[b] = admin[b] /\ admin'[a] = NoUpdate
      BY <2>1, <1>0 DEF TypeOK
    <3>2. /\ admin[b].withdrawal \in DOMAIN withdrawals
          /\ admin[b].from = withdrawals[admin[b].withdrawal].status
          /\ admin[b].to \in AllowedTransitions(admin[b].from)
          /\ \A c \in Admins : admin[c].withdrawal = admin[b].withdrawal => b = c
      BY <3>1, <1>0, Zenon DEF LocksHold
    <3>3. admin[b].withdrawal # w
      BY <3>1, <2>3
    <3>4. admin[b].withdrawal # 0
      BY <3>2, <1>0, RowsTyped
    <3>5. ASSUME NEW c \in Admins, admin'[c].withdrawal = admin'[b].withdrawal PROVE b = c
      <4>1. CASE c = a
        BY <4>1, <3>5, <3>1, <3>4 DEF NoUpdate
      <4>2. CASE c # a
        BY <4>2, <3>5, <3>1, <3>2, <2>1, <1>0 DEF TypeOK
      <4> QED BY <4>1, <4>2
    <3> QED BY <3>1, <3>2, <3>3, <3>5, <2>9
  <2>15. HoldFollowsStatus'
    <3> SUFFICES ASSUME NEW v \in DOMAIN withdrawals
                 PROVE withdrawals'[v].hold =
                         CASE withdrawals'[v].status \in {"INITIATED", "PROCESSING"} -> "ACTIVE"
                           [] withdrawals'[v].status = "COMPLETED" -> "CONSUMED"
                           [] OTHER -> "RELEASED"
      BY <2>9, Zenon DEF HoldFollowsStatus
    <3>1. CASE v = w
      BY <3>1, <2>9, <2>8, <2>5, <2>7
    <3>2. CASE v # w
      BY <3>2, <2>9, <1>0, Zenon DEF HoldFollowsStatus
    <3> QED BY <3>1, <3>2
  <2> QED BY <2>13, <2>14, <2>15
<1>8. ASSUME NEW a \in Admins, RollbackUpdate(a) PROVE PayoutInv'
  <2>1. admin' = [admin EXCEPT ![a] = NoUpdate]
        /\ UNCHANGED <<wallet, withdrawals, history, methods, pc, removal, aborts>>
    BY <1>8 DEF RollbackUpdate
  <2>2. TypeOK'
    BY <2>1, <1>0 DEF TypeOK, wallet, NoUpdate, Update
  <2>3. LocksHold'
    <3> SUFFICES ASSUME NEW b \in Admins, admin'[b] # NoUpdate
                 PROVE /\ admin'[b].withdrawal \in DOMAIN withdrawals
                       /\ admin'[b].from = withdrawals[admin'[b].withdrawal].status
                       /\ admin'[b].to \in AllowedTransitions(admin'[b].from)
                       /\ \A c \in Admins : admin'[c].withdrawal = admin'[b].withdrawal => b = c
      BY <2>1, Zenon DEF LocksHold
    <3>1. b # a /\ admin'[b] = admin[b] /\ admin'[a] = NoUpdate
      BY <2>1, <1>0 DEF TypeOK
    <3>2. /\ admin[b].withdrawal \in DOMAIN withdrawals
          /\ admin[b].from = withdrawals[admin[b].withdrawal].status
          /\ admin[b].to \in AllowedTransitions(admin[b].from)
          /\ \A c \in Admins : admin[c].withdrawal = admin[b].withdrawal => b = c
      BY <3>1, <1>0, Zenon DEF LocksHold
    <3>4. admin[b].withdrawal # 0
      BY <3>2, <1>0, RowsTyped
    <3>5. ASSUME NEW c \in Admins, admin'[c].withdrawal = admin'[b].withdrawal PROVE b = c
      <4>1. CASE c = a
        BY <4>1, <3>5, <3>1, <3>4 DEF NoUpdate
      <4>2. CASE c # a
        BY <4>2, <3>5, <3>1, <3>2, <2>1, <1>0 DEF TypeOK
      <4> QED BY <4>1, <4>2
    <3> QED BY <3>1, <3>2, <3>5
  <2> QED BY <2>1, <2>2, <2>3, <1>0, Zenon DEF HoldFollowsStatus
<1>9. ASSUME NEW d \in Removals, CountUses(d) PROVE PayoutInv'
  BY <1>9, <1>0 DEF CountUses, TypeOK, LocksHold, HoldFollowsStatus, wallet, NoRemoval
<1>10. ASSUME NEW d \in Removals, FinishRemoval(d) PROVE PayoutInv'
  <2> DEFINE m == removal[d].method
  <2>1. /\ m # "none" /\ removal' = [removal EXCEPT ![d] = NoRemoval]
        /\ UNCHANGED <<wallet, history, pc, admin, aborts>>
    BY <1>10 DEF FinishRemoval
  <2>2. m \in Methods
    BY <2>1, <1>0 DEF TypeOK
  <2>3. removal' \in [Removals -> [method : Methods \cup {"none"}, used : BOOLEAN]]
    BY <2>1, <1>0 DEF TypeOK, NoRemoval
  <2>4. CASE /\ methods' = [methods EXCEPT ![m] = "INACTIVE"]
             /\ UNCHANGED withdrawals
    <3>1. TypeOK'
      BY <2>1, <2>2, <2>3, <2>4, <1>0 DEF TypeOK, wallet
    <3>2. LocksHold' /\ HoldFollowsStatus'
      BY <2>1, <2>4, <1>0, Zenon DEF LocksHold, HoldFollowsStatus
    <3> QED BY <3>1, <3>2
  <2>5. CASE /\ methods' = [methods EXCEPT ![m] = "DELETED"]
             /\ withdrawals' = [w \in DOMAIN withdrawals |->
                  IF withdrawals[w].method = m THEN [withdrawals[w] EXCEPT !.method = "none"]
                  ELSE withdrawals[w]]
    <3>1. /\ DOMAIN withdrawals' = DOMAIN withdrawals
          /\ \A w \in DOMAIN withdrawals :
               /\ withdrawals'[w] \in WithdrawalRow
               /\ withdrawals'[w].status = withdrawals[w].status
               /\ withdrawals'[w].hold = withdrawals[w].hold
      BY <2>5, <1>0, RowsTyped DEF WithdrawalRow
    <3>2. withdrawals' \in Seq(WithdrawalRow)
      BY <3>1, <2>5, <1>0, RowsTyped
    <3>3. TypeOK'
      BY <2>1, <2>2, <2>3, <2>5, <3>1, <3>2, <1>0 DEF TypeOK, wallet
    <3>4. LocksHold'
      BY <2>1, <3>1, <1>0, Zenon DEF LocksHold
    <3>5. HoldFollowsStatus'
      BY <3>1, <1>0, Zenon DEF HoldFollowsStatus
    <3> QED BY <3>3, <3>4, <3>5
  <2> QED BY <1>10, <2>4, <2>5 DEF FinishRemoval
<1>11. ASSUME NEW u \in Users, Earn(u) PROVE PayoutInv'
  BY <1>11, <1>0 DEF Earn, TypeOK, LocksHold, HoldFollowsStatus
<1>12. ASSUME NEW u \in Users, Spend(u) PROVE PayoutInv'
  BY <1>12, <1>0 DEF Spend, TypeOK, LocksHold, HoldFollowsStatus
<1> QED
  BY <1>1, <1>2, <1>3, <1>4, <1>5, <1>6, <1>7, <1>8, <1>9, <1>10, <1>11, <1>12
  DEF Next, Advance, Quiescent

\* Nobody has an answer at first.
LEMMA InitAnswer == Init => AnswerIsWhatWasAsked
BY DEF Init, AnswerIsWhatWasAsked

\* Rows are added, and those that are there keep user, key and amount.
KeepsRows ==
  \A w \in DOMAIN withdrawals :
    /\ w \in DOMAIN withdrawals'
    /\ withdrawals'[w].user = withdrawals[w].user
    /\ withdrawals'[w].key = withdrawals[w].key
    /\ withdrawals'[w].amount = withdrawals[w].amount

\* A withdrawal that answers a request goes on answering it.
LEMMA OriginalsStay ==
  ASSUME KeepsRows, AnswerIsWhatWasAsked,
         NEW r \in Requests, pc[r] \in {"created", "original"}
  PROVE  \E w \in Original(r)' : withdrawals'[w].amount = Request[r].amount
<1>1. PICK w \in Original(r) : withdrawals[w].amount = Request[r].amount
  BY DEF AnswerIsWhatWasAsked
<1>2. w \in Original(r)' /\ withdrawals'[w].amount = Request[r].amount
  BY <1>1 DEF KeepsRows, Original
<1> QED BY <1>2

\* Every step keeps the answers right.
LEMMA NextAnswer == PayoutInv /\ AnswerIsWhatWasAsked /\ [Next]_vars => AnswerIsWhatWasAsked'
<1> SUFFICES ASSUME PayoutInv, AnswerIsWhatWasAsked, [Next]_vars PROVE AnswerIsWhatWasAsked'
  OBVIOUS
<1>0. TypeOK
  BY DEF PayoutInv
<1>p. pc \in [Requests -> {"idle", "validated", "inserted"} \cup Answered]
  BY <1>0 DEF TypeOK
<1>s. ASSUME KeepsRows, UNCHANGED pc PROVE AnswerIsWhatWasAsked'
  BY <1>s, OriginalsStay DEF AnswerIsWhatWasAsked
<1>k. ASSUME UNCHANGED withdrawals PROVE KeepsRows
  BY <1>k DEF KeepsRows
<1>a. ASSUME NEW r \in Requests, KeepsRows,
             \A q \in Requests : q # r => pc'[q] = pc[q],
             pc'[r] \in {"created", "original"} =>
               \E w \in Original(r)' : withdrawals'[w].amount = Request[r].amount
      PROVE  AnswerIsWhatWasAsked'
  <2> SUFFICES ASSUME NEW q \in Requests, pc'[q] \in {"created", "original"}
               PROVE  \E w \in Original(q)' : withdrawals'[w].amount = Request[q].amount
    BY Zenon DEF AnswerIsWhatWasAsked
  <2>1. CASE q = r
    BY <2>1, <1>a, Zenon
  <2>2. CASE q # r
    BY <2>2, <1>a, OriginalsStay, Zenon
  <2> QED BY <2>1, <2>2
<1>o. ASSUME NEW r \in Requests, AnswerOriginal(r), UNCHANGED withdrawals
      PROVE  AnswerIsWhatWasAsked'
  <2>1. PICK w \in Original(r) :
          pc' = [pc EXCEPT ![r] = IF IdempotentMatch(w, r) THEN "original" ELSE "conflict"]
    BY <1>o DEF AnswerOriginal
  <2>2. pc'[r] = "original" => withdrawals[w].amount = Request[r].amount
    BY <2>1, <1>p DEF IdempotentMatch
  <2>3. pc'[r] # "created" /\ \A q \in Requests : q # r => pc'[q] = pc[q]
    BY <2>1, <1>p
  <2>4. w \in Original(r)'
    BY <2>1, <1>o DEF Original
  <2> QED BY <2>2, <2>3, <2>4, <1>o, <1>a, <1>k, Zenon
<1>1. CASE UNCHANGED vars
  BY <1>1, <1>s, <1>k DEF vars
<1>2. ASSUME NEW r \in Requests, Validate(r) PROVE AnswerIsWhatWasAsked'
  <2>1. UNCHANGED withdrawals
    BY <1>2 DEF Validate
  <2>2. CASE AnswerOriginal(r)
    BY <2>1, <2>2, <1>o
  <2>3. CASE pc' = [pc EXCEPT ![r] =
                      IF methods[Request[r].method] = "ACTIVE" THEN "validated" ELSE "refused"]
    <3>1. /\ pc'[r] \notin {"created", "original"}
          /\ \A q \in Requests : q # r => pc'[q] = pc[q]
      BY <2>3, <1>p
    <3> QED BY <3>1, <2>1, <1>k, <1>a
  <2> QED BY <1>2, <2>2, <2>3 DEF Validate
<1>3. ASSUME NEW r \in Requests, Insert(r) PROVE AnswerIsWhatWasAsked'
  <2>1. UNCHANGED withdrawals
    BY <1>3 DEF Insert
  <2>2. CASE AnswerOriginal(r)
    BY <2>1, <2>2, <1>o
  <2>3. CASE pc' = [pc EXCEPT ![r] =
                      IF methods[Request[r].method] = "DELETED" THEN "refused" ELSE "inserted"]
    <3>1. /\ pc'[r] \notin {"created", "original"}
          /\ \A q \in Requests : q # r => pc'[q] = pc[q]
      BY <2>3, <1>p
    <3> QED BY <3>1, <2>1, <1>k, <1>a
  <2> QED BY <1>3, <2>2, <2>3 DEF Insert
<1>4. ASSUME NEW r \in Requests, Reserve(r) PROVE AnswerIsWhatWasAsked'
  <2>1. CASE pc' = [pc EXCEPT ![r] = "refused"] /\ UNCHANGED withdrawals
    <3>1. /\ pc'[r] \notin {"created", "original"}
          /\ \A q \in Requests : q # r => pc'[q] = pc[q]
      BY <2>1, <1>p
    <3> QED BY <3>1, <2>1, <1>k, <1>a
  <2> DEFINE row == [user |-> Request[r].user, key |-> Request[r].key,
                     amount |-> Request[r].amount, method |-> Request[r].method,
                     status |-> "INITIATED", hold |-> "ACTIVE"]
             n == Len(withdrawals) + 1
  <2>2. CASE /\ pc' = [pc EXCEPT ![r] = "created"]
             /\ withdrawals' = Append(withdrawals, row)
    <3>1. row \in WithdrawalRow
      BY WithdrawalsAssumption DEF WithdrawalRow, Statuses, Keys
    <3>2. /\ n \in DOMAIN withdrawals' /\ withdrawals'[n] = row
          /\ \A w \in DOMAIN withdrawals :
               w \in DOMAIN withdrawals' /\ withdrawals'[w] = withdrawals[w]
      BY <2>2, <3>1, <1>0, RowsTyped DEF TypeOK
    <3>3. KeepsRows
      BY <3>2 DEF KeepsRows
    <3>4. n \in Original(r)' /\ withdrawals'[n].amount = Request[r].amount
      BY <3>2 DEF Original
    <3>5. \A q \in Requests : q # r => pc'[q] = pc[q]
      BY <2>2, <1>p
    <3> QED BY <3>3, <3>4, <3>5, <1>a
  <2> QED BY <1>4, <2>1, <2>2 DEF Reserve
<1>5. ASSUME NEW r \in Requests, Abort(r) PROVE AnswerIsWhatWasAsked'
  <2>1. /\ UNCHANGED withdrawals /\ pc'[r] \notin {"created", "original"}
        /\ \A q \in Requests : q # r => pc'[q] = pc[q]
    BY <1>5, <1>p DEF Abort
  <2> QED BY <2>1, <1>k, <1>a
<1>6. ASSUME NEW a \in Admins, BeginUpdate(a) \/ RollbackUpdate(a) PROVE AnswerIsWhatWasAsked'
  BY <1>6, <1>s, <1>k DEF BeginUpdate, RollbackUpdate
<1>7. ASSUME NEW a \in Admins, CommitUpdate(a) PROVE AnswerIsWhatWasAsked'
  <2> DEFINE v == admin[a].withdrawal
             row == withdrawals[v]
  <2>1. PICK t, h : withdrawals' = [withdrawals EXCEPT ![v] =
                       [user |-> row.user, key |-> row.key, amount |-> row.amount,
                        method |-> row.method, status |-> t, hold |-> h]]
    BY <1>7, Zenon DEF CommitUpdate
  <2>2. KeepsRows
    BY <2>1, <1>0, RowsTyped DEF KeepsRows
  <2>3. UNCHANGED pc
    BY <1>7 DEF CommitUpdate
  <2> QED BY <2>2, <2>3, <1>s
<1>8. ASSUME NEW d \in Removals, CountUses(d) PROVE AnswerIsWhatWasAsked'
  BY <1>8, <1>s, <1>k DEF CountUses
<1>9. ASSUME NEW d \in Removals, FinishRemoval(d) PROVE AnswerIsWhatWasAsked'
  <2>1. UNCHANGED pc
    BY <1>9 DEF FinishRemoval
  <2>2. CASE UNCHANGED withdrawals
    BY <2>1, <2>2, <1>s, <1>k
  <2>3. CASE withdrawals' = [w \in DOMAIN withdrawals |->
               IF withdrawals[w].method = removal[d].method
               THEN [withdrawals[w] EXCEPT !.method = "none"]
               ELSE withdrawals[w]]
    <3>1. KeepsRows
      BY <2>3, <1>0, RowsTyped DEF KeepsRows, WithdrawalRow
    <3> QED BY <3>1, <2>1, <1>s
  <2> QED BY <1>9, <2>2, <2>3 DEF FinishRemoval
<1>10. ASSUME NEW u \in Users, Earn(u) \/ Spend(u) PROVE AnswerIsWhatWasAsked'
  BY <1>10, <1>s, <1>k DEF Earn, Spend
<1> QED
  BY <1>1, <1>2, <1>3, <1>4, <1>5, <1>6, <1>7, <1>8, <1>9, <1>10
  DEF Next, Advance, Quiescent

\* The rows of the withdrawal tables hold what their columns allow, and no
\* balance is negative: an admin never works on a withdrawal that is not there.
THEOREM PayoutsTyped == Spec => []TypeOK
<1>1. Spec => []PayoutInv
  BY InitPayout, NextPayout, PTL DEF Spec
<1>2. PayoutInv => TypeOK
  BY DEF PayoutInv
<1> QED BY <1>1, <1>2, PTL

\* Points are set aside exactly while a payout is open, gone once it is paid and
\* back once it is not, whichever admins change its status at the same time.
THEOREM HoldsFollow == Spec => []HoldFollowsStatus
<1>1. Spec => []PayoutInv
  BY InitPayout, NextPayout, PTL DEF Spec
<1>2. PayoutInv => HoldFollowsStatus
  BY DEF PayoutInv
<1> QED BY <1>1, <1>2, PTL

\* A request answered with a withdrawal is answered with the one it asked for,
\* also when another request took its key.
THEOREM AnswersMatch == Spec => []AnswerIsWhatWasAsked
<1>1. Spec => []PayoutInv
  BY InitPayout, NextPayout, PTL DEF Spec
<1> QED BY <1>1, InitAnswer, NextAnswer, PTL DEF Spec

-----------------------------------------------------------------------------
(* One payout per key.  A request that has inserted its row waits for no   *)
(* other, and every other one with its key waits for it.                   *)

UniqueRows ==
  \A v, w \in DOMAIN withdrawals :
    withdrawals[v].user = withdrawals[w].user /\ withdrawals[v].key = withdrawals[w].key => v = w

\* An uncommitted insert is the only one of its key, committed or not.
InsertersAlone ==
  \A r \in Requests : pc[r] = "inserted" =>
    /\ Original(r) = {}
    /\ \A q \in Requests : pc[q] = "inserted" /\ SameKey(q, r) => q = r

KeyInv == PayoutInv /\ UniqueRows /\ InsertersAlone

\* A step other than the commit of a request adds no row.
LEMMA OthersAddNoRow ==
  ASSUME TypeOK, LocksHold, [Next]_vars, ~ \E r \in Requests : Reserve(r) /\ Covered(r)
  PROVE  DOMAIN withdrawals' = DOMAIN withdrawals /\ KeepsRows
<1>1. UNCHANGED withdrawals => DOMAIN withdrawals' = DOMAIN withdrawals /\ KeepsRows
  BY DEF KeepsRows
<1>2. ASSUME NEW a \in Admins, CommitUpdate(a)
      PROVE  DOMAIN withdrawals' = DOMAIN withdrawals /\ KeepsRows
  <2> DEFINE v == admin[a].withdrawal
             row == withdrawals[v]
  <2>1. PICK t, h : withdrawals' = [withdrawals EXCEPT ![v] =
                       [user |-> row.user, key |-> row.key, amount |-> row.amount,
                        method |-> row.method, status |-> t, hold |-> h]]
    BY <1>2, Zenon DEF CommitUpdate
  <2> QED BY <2>1, RowsTyped DEF KeepsRows
<1>3. ASSUME NEW d \in Removals, FinishRemoval(d)
      PROVE  DOMAIN withdrawals' = DOMAIN withdrawals /\ KeepsRows
  <2>1. CASE withdrawals' = [w \in DOMAIN withdrawals |->
               IF withdrawals[w].method = removal[d].method
               THEN [withdrawals[w] EXCEPT !.method = "none"]
               ELSE withdrawals[w]]
    BY <2>1, RowsTyped DEF KeepsRows, WithdrawalRow
  <2> QED BY <1>1, <1>3, <2>1 DEF FinishRemoval
<1>4. ASSUME NEW r \in Requests, Validate(r) \/ Insert(r) \/ Abort(r) PROVE UNCHANGED withdrawals
  BY <1>4 DEF Validate, Insert, Abort
<1>5. ASSUME NEW r \in Requests, Reserve(r) PROVE UNCHANGED withdrawals
  BY <1>5 DEF Reserve
<1>6. ASSUME NEW a \in Admins, BeginUpdate(a) \/ RollbackUpdate(a) PROVE UNCHANGED withdrawals
  BY <1>6 DEF BeginUpdate, RollbackUpdate
<1>7. ASSUME NEW d \in Removals, CountUses(d) PROVE UNCHANGED withdrawals
  BY <1>7 DEF CountUses
<1>8. ASSUME NEW u \in Users, Earn(u) \/ Spend(u) PROVE UNCHANGED withdrawals
  BY <1>8 DEF Earn, Spend
<1> QED BY <1>1, <1>2, <1>3, <1>4, <1>5, <1>6, <1>7, <1>8 DEF Next, Advance, Quiescent, vars

\* The commit of a request adds the row of its key.
LEMMA ReserveAddsRow ==
  ASSUME TypeOK, NEW r \in Requests, Reserve(r), Covered(r)
  PROVE  LET n == Len(withdrawals) + 1
         IN  /\ n \notin DOMAIN withdrawals /\ DOMAIN withdrawals' = DOMAIN withdrawals \cup {n}
             /\ withdrawals'[n].user = Request[r].user /\ withdrawals'[n].key = Request[r].key
             /\ withdrawals'[n].amount = Request[r].amount /\ withdrawals'[n].status = "INITIATED"
             /\ \A w \in DOMAIN withdrawals : withdrawals'[w] = withdrawals[w]
             /\ pc' = [pc EXCEPT ![r] = "created"]
<1> DEFINE row == [user |-> Request[r].user, key |-> Request[r].key,
                   amount |-> Request[r].amount, method |-> Request[r].method,
                   status |-> "INITIATED", hold |-> "ACTIVE"]
           n == Len(withdrawals) + 1
<1>1. withdrawals' = Append(withdrawals, row) /\ pc' = [pc EXCEPT ![r] = "created"]
  BY DEF Reserve
<1>2. row \in WithdrawalRow
  BY WithdrawalsAssumption DEF WithdrawalRow, Statuses, Keys
<1>3. /\ row.user = Request[r].user /\ row.key = Request[r].key
      /\ row.amount = Request[r].amount /\ row.status = "INITIATED"
  OBVIOUS
<1> HIDE DEF row
<1>4. /\ DOMAIN withdrawals' = 1..n /\ DOMAIN withdrawals = 1..n-1 /\ n \in Nat \ {0}
      /\ withdrawals'[n] = row
      /\ \A w \in DOMAIN withdrawals : withdrawals'[w] = withdrawals[w]
  BY <1>1, <1>2, RowsTyped DEF TypeOK
<1> HIDE DEF n
<1>5. n \notin DOMAIN withdrawals /\ DOMAIN withdrawals' = DOMAIN withdrawals \cup {n}
  BY <1>4
<1> QED BY <1>1, <1>3, <1>4, <1>5 DEF n

\* Who has inserted a row after the step: the same requests, or one more.
LEMMA StepInserts ==
  ASSUME TypeOK, [Next]_vars, NEW r \in Requests, pc'[r] = "inserted"
  PROVE  \/ pc[r] = "inserted"
         \/ /\ UNCHANGED withdrawals /\ Original(r) = {}
            /\ \A q \in Requests \ {r} : pc'[q] = pc[q]
            /\ ~ \E q \in Requests \ {r} : pc[q] = "inserted" /\ SameKey(q, r)
<1>0. pc \in [Requests -> {"idle", "validated", "inserted"} \cup Answered]
  BY DEF TypeOK
<1>1. ASSUME NEW q \in Requests, NEW x, x # "inserted", pc' = [pc EXCEPT ![q] = x]
      PROVE  pc[r] = "inserted"
  BY <1>0, <1>1
<1>2. ASSUME NEW q \in Requests, AnswerOriginal(q) PROVE pc[r] = "inserted"
  BY <1>0, <1>2 DEF AnswerOriginal
<1>3. ASSUME NEW q \in Requests, Validate(q) \/ Reserve(q) \/ Abort(q) PROVE pc[r] = "inserted"
  BY <1>1, <1>2, <1>3 DEF Validate, Reserve, Abort
<1>4. ASSUME NEW q \in Requests, Insert(q), pc[r] # "inserted"
      PROVE  /\ UNCHANGED withdrawals /\ Original(r) = {}
             /\ \A p \in Requests \ {r} : pc'[p] = pc[p]
             /\ ~ \E p \in Requests \ {r} : pc[p] = "inserted" /\ SameKey(p, r)
  <2>1. /\ UNCHANGED withdrawals /\ Original(q) = {}
        /\ pc' = [pc EXCEPT ![q] = IF methods[Request[q].method] = "DELETED"
                                   THEN "refused" ELSE "inserted"]
        /\ ~ \E p \in Requests \ {q} : pc[p] = "inserted" /\ SameKey(p, q)
    BY <1>2, <1>4 DEF Insert
  <2>2. q = r
    BY <1>0, <1>4, <2>1
  <2> QED BY <1>0, <2>1, <2>2
<1>5. ASSUME UNCHANGED pc PROVE pc[r] = "inserted"
  BY <1>5
<1>6. ASSUME NEW a \in Admins, BeginUpdate(a) \/ CommitUpdate(a) \/ RollbackUpdate(a)
      PROVE  UNCHANGED pc
  BY <1>6 DEF BeginUpdate, CommitUpdate, RollbackUpdate
<1>7. ASSUME NEW d \in Removals, CountUses(d) \/ FinishRemoval(d) PROVE UNCHANGED pc
  BY <1>7 DEF CountUses, FinishRemoval
<1>8. ASSUME NEW u \in Users, Earn(u) \/ Spend(u) PROVE UNCHANGED pc
  BY <1>8 DEF Earn, Spend
<1> QED BY <1>3, <1>4, <1>5, <1>6, <1>7, <1>8 DEF Next, Advance, Quiescent, vars

\* KeyInv is inductive.
LEMMA NextKeyInv == KeyInv /\ [Next]_vars => KeyInv'
<1> SUFFICES ASSUME KeyInv, [Next]_vars PROVE KeyInv'
  OBVIOUS
<1>0. TypeOK /\ LocksHold /\ UniqueRows /\ InsertersAlone /\ PayoutInv'
  BY NextPayout DEF KeyInv, PayoutInv
<1>1. CASE ~ \E r \in Requests : Reserve(r) /\ Covered(r)
  <2>1. DOMAIN withdrawals' = DOMAIN withdrawals /\ KeepsRows
    BY <1>0, <1>1, OthersAddNoRow
  <2>2. UniqueRows'
    BY <1>0, <2>1 DEF UniqueRows, KeepsRows
  <2>3. \A r \in Requests : Original(r)' = Original(r)
    BY <2>1 DEF Original, KeepsRows
  <2>4. InsertersAlone'
    BY <1>0, <2>3, StepInserts DEF InsertersAlone, SameKey
  <2> QED BY <1>0, <2>2, <2>4 DEF KeyInv
<1>2. ASSUME NEW r \in Requests, Reserve(r), Covered(r) PROVE KeyInv'
  <2> DEFINE n == Len(withdrawals) + 1
  <2>1. /\ n \notin DOMAIN withdrawals /\ DOMAIN withdrawals' = DOMAIN withdrawals \cup {n}
        /\ withdrawals'[n].user = Request[r].user /\ withdrawals'[n].key = Request[r].key
        /\ \A w \in DOMAIN withdrawals : withdrawals'[w] = withdrawals[w]
        /\ pc' = [pc EXCEPT ![r] = "created"]
    BY <1>0, <1>2, ReserveAddsRow
  <2> HIDE DEF n
  <2>2. pc[r] = "inserted"
    BY <1>2 DEF Reserve
  <2>3. \A w \in DOMAIN withdrawals :
          ~ (withdrawals[w].user = Request[r].user /\ withdrawals[w].key = Request[r].key)
    BY <1>0, <2>2 DEF InsertersAlone, Original
  <2>4. UniqueRows'
    BY <1>0, <2>1, <2>3 DEF UniqueRows
  <2>5. \A q \in Requests : pc'[q] = "inserted" => q # r /\ pc[q] = "inserted"
    BY <1>0, <2>1 DEF TypeOK
  <2>6. ASSUME NEW q \in Requests, pc'[q] = "inserted" PROVE Original(q)' = {}
    <3>1. Original(q) = {} /\ ~ SameKey(q, r)
      BY <1>0, <2>2, <2>5, <2>6 DEF InsertersAlone
    <3> QED BY <2>1, <3>1 DEF Original, SameKey
  <2>7. InsertersAlone'
    BY <1>0, <2>5, <2>6 DEF InsertersAlone, SameKey
  <2> QED BY <1>0, <2>4, <2>7 DEF KeyInv
<1> QED BY <1>1, <1>2

-----------------------------------------------------------------------------
(* Refinement.  The rows of the table, one per user and key, are payouts.  *)

PayoutsSeen == [p \in Users \X Keys |-> PayoutOf(p[1], p[2])]

\* The payout of a key is the stage and the amount of its row.
LEMMA PayoutIsRow ==
  UniqueRows =>
    \A u, k :
      /\ \A w \in DOMAIN withdrawals :
           withdrawals[w].user = u /\ withdrawals[w].key = k =>
             PayoutOf(u, k) = [stage |-> withdrawals[w].status, amount |-> withdrawals[w].amount]
      /\ (~ \E w \in DOMAIN withdrawals : withdrawals[w].user = u /\ withdrawals[w].key = k) =>
             PayoutOf(u, k) = [stage |-> "NONE", amount |-> 0]
<1> SUFFICES ASSUME UniqueRows, NEW u, NEW k
             PROVE  /\ \A w \in DOMAIN withdrawals :
                         withdrawals[w].user = u /\ withdrawals[w].key = k =>
                           PayoutOf(u, k) = [stage |-> withdrawals[w].status,
                                             amount |-> withdrawals[w].amount]
                    /\ (~ \E w \in DOMAIN withdrawals :
                            withdrawals[w].user = u /\ withdrawals[w].key = k) =>
                           PayoutOf(u, k) = [stage |-> "NONE", amount |-> 0]
  OBVIOUS
<1>1. ASSUME NEW w \in DOMAIN withdrawals, withdrawals[w].user = u, withdrawals[w].key = k
      PROVE  PayoutOf(u, k) = [stage |-> withdrawals[w].status, amount |-> withdrawals[w].amount]
  <2>1. (CHOOSE v \in DOMAIN withdrawals :
           withdrawals[v].user = u /\ withdrawals[v].key = k) = w
    BY <1>1 DEF UniqueRows
  <2> QED BY <1>1, <2>1 DEF PayoutOf
<1> QED BY <1>1 DEF PayoutOf

\* The same of the state after a step.
LEMMA PayoutIsRowAfter ==
  (UniqueRows =>
    \A u, k :
      /\ \A w \in DOMAIN withdrawals :
           withdrawals[w].user = u /\ withdrawals[w].key = k =>
             PayoutOf(u, k) = [stage |-> withdrawals[w].status, amount |-> withdrawals[w].amount]
      /\ (~ \E w \in DOMAIN withdrawals : withdrawals[w].user = u /\ withdrawals[w].key = k) =>
             PayoutOf(u, k) = [stage |-> "NONE", amount |-> 0])'
  BY PayoutIsRow, PTL

\* A step that adds or changes one row changes the payout of its key.
LEMMA RowChangesPayout ==
  ASSUME UniqueRows, UniqueRows', NEW v \in DOMAIN withdrawals',
         DOMAIN withdrawals' = DOMAIN withdrawals \cup {v},
         \A w \in DOMAIN withdrawals : w # v => withdrawals'[w] = withdrawals[w],
         v \in DOMAIN withdrawals => /\ withdrawals'[v].user = withdrawals[v].user
                                     /\ withdrawals'[v].key = withdrawals[v].key,
         NEW u \in Users, NEW k \in Keys, withdrawals'[v].user = u, withdrawals'[v].key = k
  PROVE  PayoutsSeen' = [PayoutsSeen EXCEPT ![<<u, k>>] =
                           [stage |-> withdrawals'[v].status, amount |-> withdrawals'[v].amount]]
<1>1. PayoutOf(u, k)' = [stage |-> withdrawals'[v].status, amount |-> withdrawals'[v].amount]
  BY PayoutIsRowAfter
<1>2. ASSUME NEW x \in Users, NEW y \in Keys, x # u \/ y # k
      PROVE  PayoutOf(x, y)' = PayoutOf(x, y)
  <2>1. CASE \E w \in DOMAIN withdrawals : withdrawals[w].user = x /\ withdrawals[w].key = y
    <3>1. PICK w \in DOMAIN withdrawals : withdrawals[w].user = x /\ withdrawals[w].key = y
      BY <2>1
    <3>2. w \in DOMAIN withdrawals' /\ withdrawals'[w] = withdrawals[w]
      BY <1>2, <3>1
    <3>3. PayoutOf(x, y) = [stage |-> withdrawals[w].status, amount |-> withdrawals[w].amount]
      BY <3>1, PayoutIsRow
    <3>4. PayoutOf(x, y)' = [stage |-> withdrawals'[w].status, amount |-> withdrawals'[w].amount]
      BY <3>1, <3>2, PayoutIsRowAfter
    <3> QED BY <3>2, <3>3, <3>4
  <2>2. CASE ~ \E w \in DOMAIN withdrawals : withdrawals[w].user = x /\ withdrawals[w].key = y
    <3>1. ~ \E w \in DOMAIN withdrawals' : withdrawals'[w].user = x /\ withdrawals'[w].key = y
      BY <1>2, <2>2
    <3>2. PayoutOf(x, y)' = [stage |-> "NONE", amount |-> 0]
      BY <3>1, PayoutIsRowAfter
    <3> QED BY <2>2, <3>2, PayoutIsRow
  <2> QED BY <2>1, <2>2
<1>3. \A p \in Users \X Keys : p # <<u, k>> => PayoutOf(p[1], p[2])' = PayoutOf(p[1], p[2])
  BY <1>2
<1> DEFINE new == [stage |-> withdrawals'[v].status, amount |-> withdrawals'[v].amount]
<1>4. <<u, k>> \in Users \X Keys /\ PayoutOf(u, k)' = new
  BY <1>1
<1> HIDE DEF new
<1>5. \A p \in Users \X Keys :
        PayoutOf(p[1], p[2])' = IF p = <<u, k>> THEN new ELSE PayoutOf(p[1], p[2])
  BY <1>3, <1>4
<1>6. PayoutsSeen' = [PayoutsSeen EXCEPT ![<<u, k>>] = new]
  BY <1>5 DEF PayoutsSeen
<1> QED BY <1>6 DEF new

\* A step that leaves keys, amounts and stages alone changes no payout.
LEMMA SamePayouts ==
  ASSUME UniqueRows, UniqueRows', KeepsRows, DOMAIN withdrawals' = DOMAIN withdrawals,
         \A w \in DOMAIN withdrawals : withdrawals'[w].status = withdrawals[w].status
  PROVE  PayoutsSeen' = PayoutsSeen
<1>1. ASSUME NEW x \in Users, NEW y \in Keys PROVE PayoutOf(x, y)' = PayoutOf(x, y)
  <2>1. CASE \E w \in DOMAIN withdrawals : withdrawals[w].user = x /\ withdrawals[w].key = y
    <3>1. PICK w \in DOMAIN withdrawals : withdrawals[w].user = x /\ withdrawals[w].key = y
      BY <2>1
    <3>2. /\ withdrawals'[w].user = x /\ withdrawals'[w].key = y
          /\ withdrawals'[w].status = withdrawals[w].status
          /\ withdrawals'[w].amount = withdrawals[w].amount
      BY <3>1 DEF KeepsRows
    <3>3. PayoutOf(x, y) = [stage |-> withdrawals[w].status, amount |-> withdrawals[w].amount]
      BY <3>1, PayoutIsRow
    <3>4. PayoutOf(x, y)' = [stage |-> withdrawals'[w].status, amount |-> withdrawals'[w].amount]
      BY <3>1, <3>2, PayoutIsRowAfter
    <3> QED BY <3>2, <3>3, <3>4
  <2>2. CASE ~ \E w \in DOMAIN withdrawals : withdrawals[w].user = x /\ withdrawals[w].key = y
    <3>1. ~ \E w \in DOMAIN withdrawals' : withdrawals'[w].user = x /\ withdrawals'[w].key = y
      BY <2>2 DEF KeepsRows
    <3>2. PayoutOf(x, y)' = [stage |-> "NONE", amount |-> 0]
      BY <3>1, PayoutIsRowAfter
    <3> QED BY <2>2, <3>2, PayoutIsRow
  <2> QED BY <2>1, <2>2
<1>2. \A p \in Users \X Keys : PayoutOf(p[1], p[2])' = PayoutOf(p[1], p[2])
  BY <1>1
<1> QED BY <1>2 DEF PayoutsSeen

\* The commit of a request is a payout being reserved.
LEMMA ReserveIsReserve ==
  ASSUME KeyInv, KeyInv', NEW r \in Requests, Reserve(r), Covered(r)
  PROVE  Promise!Next
<1> DEFINE u == Request[r].user
           k == Request[r].key
           a == Request[r].amount
           n == Len(withdrawals) + 1
<1>0. TypeOK /\ UniqueRows /\ UniqueRows' /\ InsertersAlone
  BY DEF KeyInv, PayoutInv
<1>1. u \in Users /\ k \in Keys /\ a \in Nat
  BY WithdrawalsAssumption DEF Keys
<1>2. /\ n \notin DOMAIN withdrawals /\ DOMAIN withdrawals' = DOMAIN withdrawals \cup {n}
      /\ withdrawals'[n].user = u /\ withdrawals'[n].key = k
      /\ withdrawals'[n].amount = a /\ withdrawals'[n].status = "INITIATED"
      /\ \A w \in DOMAIN withdrawals : withdrawals'[w] = withdrawals[w]
  BY <1>0, ReserveAddsRow
<1>3. a <= earned[u] /\ earned' = [earned EXCEPT ![u] = @ - a] /\ pc[r] = "inserted"
  BY DEF Reserve, Covered, SetAside
<1>4. ~ \E w \in DOMAIN withdrawals : withdrawals[w].user = u /\ withdrawals[w].key = k
  BY <1>0, <1>3 DEF InsertersAlone, Original
<1> HIDE DEF n
<1>5. PayoutsSeen' = [PayoutsSeen EXCEPT ![<<u, k>>] = [stage |-> "INITIATED", amount |-> a]]
  BY <1>0, <1>1, <1>2, RowChangesPayout
<1>6. PayoutsSeen[<<u, k>>] = [stage |-> "NONE", amount |-> 0]
  BY <1>0, <1>1, <1>4, PayoutIsRow DEF PayoutsSeen
<1>7. Promise!Reserve(u, k, a)
  BY <1>3, <1>5, <1>6 DEF Promise!Reserve, Promise!NoPayout, PayoutsSeen
<1> QED BY <1>1, <1>7 DEF Promise!Next

\* A committed change of status is the payout being processed, paid or undone.
LEMMA UpdateIsStep ==
  ASSUME KeyInv, KeyInv', NEW b \in Admins, CommitUpdate(b)
  PROVE  Promise!Next
<1> DEFINE w == admin[b].withdrawal
           to == admin[b].to
           row == withdrawals[w]
           ended == HoldAfter(row.hold, to)
           new == [user |-> row.user, key |-> row.key, amount |-> row.amount,
                   method |-> row.method, status |-> to, hold |-> ended]
<1>0. TypeOK /\ UniqueRows /\ UniqueRows' /\ LocksHold /\ HoldFollowsStatus
  BY DEF KeyInv, PayoutInv
<1>1. /\ w # 0
      /\ withdrawals' = [withdrawals EXCEPT ![w] = new]
      /\ earned' = IF ended = row.hold \/ ended = "CONSUMED" THEN earned
                   ELSE [earned EXCEPT ![row.user] = @ + row.amount]
  BY Zenon DEF CommitUpdate
<1>2. admin[b] # NoUpdate
  BY <1>1 DEF NoUpdate
<1>3. w \in DOMAIN withdrawals /\ to \in AllowedTransitions(row.status)
  BY <1>0, <1>2, Zenon DEF LocksHold
<1> HIDE DEF w, to
<1>4. row.user \in Users /\ row.key \in Keys /\ row.amount \in Nat /\ row.status \in Statuses
  BY <1>0, <1>3, RowsTyped
<1>5. /\ row.status = "INITIATED" => to \in {"PROCESSING", "FAILED", "CANCELLED"}
      /\ row.status = "PROCESSING" => to \in {"COMPLETED", "FAILED", "CANCELLED"}
      /\ row.status \in {"INITIATED", "PROCESSING"}
  BY <1>3 DEF AllowedTransitions
<1>6. row.hold = "ACTIVE"
  BY <1>0, <1>3, <1>5 DEF HoldFollowsStatus
<1>7. /\ to = "PROCESSING" => ended = "ACTIVE"
      /\ to = "COMPLETED" => ended = "CONSUMED"
      /\ to \in {"FAILED", "CANCELLED"} => ended = "RELEASED"
  BY <1>5, <1>6 DEF HoldAfter, Returns
<1> DEFINE u == row.user
           k == row.key
           a == row.amount
<1>8. /\ DOMAIN withdrawals' = DOMAIN withdrawals
      /\ withdrawals'[w].user = u /\ withdrawals'[w].key = k
      /\ withdrawals'[w].amount = a /\ withdrawals'[w].status = to
      /\ \A v \in DOMAIN withdrawals : v # w => withdrawals'[v] = withdrawals[v]
  BY <1>1, <1>3
<1>9. PayoutsSeen[<<u, k>>] = [stage |-> row.status, amount |-> a]
  BY <1>0, <1>3, <1>4, PayoutIsRow DEF PayoutsSeen
<1>10. PayoutsSeen' = [PayoutsSeen EXCEPT ![<<u, k>>] = [stage |-> to, amount |-> a]]
  <2>1. u \in Users /\ k \in Keys
    BY <1>4
  <2> HIDE DEF u, k, a
  <2> QED BY <1>0, <1>3, <1>8, <2>1, RowChangesPayout DEF u, k
<1>11. PayoutsSeen' = [PayoutsSeen EXCEPT ![<<u, k>>].stage = to]
  <2> DEFINE p == <<u, k>>
             before == PayoutsSeen[p]
             after == [stage |-> to, amount |-> a]
  <2>1. after = [before EXCEPT !.stage = to]
    BY <1>9
  <2>2. PayoutsSeen' = [PayoutsSeen EXCEPT ![p] = after]
    BY <1>10
  <2> HIDE DEF after, p
  <2> QED BY <2>1, <2>2 DEF p
<1>12. to \in {"PROCESSING", "COMPLETED"} => UNCHANGED earned
  BY <1>1, <1>6, <1>7
<1>13. to \in {"FAILED", "CANCELLED"} => earned' = [earned EXCEPT ![u] = @ + a]
  BY <1>1, <1>6, <1>7
<1> HIDE DEF u, k, a, row, ended, new
<1>14. u \in Users /\ k \in Keys
  BY <1>4 DEF u, k
<1>15. \/ to = "PROCESSING" /\ Promise!Process(u, k)
       \/ to = "COMPLETED" /\ Promise!Pay(u, k)
       \/ to \in {"FAILED", "CANCELLED"} /\ Promise!GiveBack(u, k)
  <2>1. PayoutsSeen[<<u, k>>].stage = row.status /\ PayoutsSeen[<<u, k>>].amount = a
    BY <1>9
  <2>2. CASE to = "PROCESSING"
    BY <1>5, <1>11, <1>12, <2>1, <2>2 DEF Promise!Process, PayoutsSeen
  <2>3. CASE to = "COMPLETED"
    BY <1>5, <1>11, <1>12, <2>1, <2>3 DEF Promise!Pay, PayoutsSeen
  <2>4. CASE to \in {"FAILED", "CANCELLED"}
    BY <1>5, <1>11, <1>13, <2>1, <2>4 DEF Promise!GiveBack, PayoutsSeen
  <2> QED BY <1>5, <2>2, <2>3, <2>4
<1>16. \E x \in Users, y \in Keys : Promise!Process(x, y) \/ Promise!Pay(x, y) \/ Promise!GiveBack(x, y)
  BY <1>14, <1>15 DEF Promise!Process, Promise!Pay, Promise!GiveBack
<1> QED BY <1>16 DEF Promise!Next

\* Every step is a step of a payout, of the earnings, or none.
LEMMA StepIsPayoutStep == KeyInv /\ KeyInv' /\ [Next]_vars => [Promise!Next]_(Promise!vars)
<1> SUFFICES ASSUME KeyInv, KeyInv', [Next]_vars PROVE [Promise!Next]_(Promise!vars)
  OBVIOUS
<1>0. TypeOK /\ LocksHold /\ UniqueRows /\ UniqueRows'
  BY DEF KeyInv, PayoutInv
<1>1. ASSUME NEW u \in Users, Earn(u) PROVE Promise!Next
  <2>1. PayoutsSeen' = PayoutsSeen
    BY <1>1 DEF Earn, PayoutsSeen, PayoutOf
  <2> QED BY <1>1, <2>1 DEF Earn, Promise!Earn, Promise!Next, PayoutsSeen
<1>2. ASSUME NEW u \in Users, Spend(u) PROVE Promise!Next
  <2>1. PayoutsSeen' = PayoutsSeen
    BY <1>2 DEF Spend, PayoutsSeen, PayoutOf
  <2> QED BY <1>2, <2>1 DEF Spend, Promise!Spend, Promise!Next, PayoutsSeen
<1>3. ASSUME NEW r \in Requests, Reserve(r), ~ Covered(r) PROVE UNCHANGED <<earned, withdrawals>>
  BY <1>3 DEF Reserve
<1>4. ASSUME NEW r \in Requests, Validate(r) \/ Insert(r) \/ Abort(r)
      PROVE  UNCHANGED <<earned, withdrawals>>
  BY <1>4 DEF Validate, Insert, Abort, wallet
<1>5. ASSUME NEW a \in Admins, BeginUpdate(a) \/ RollbackUpdate(a)
      PROVE  UNCHANGED <<earned, withdrawals>>
  BY <1>5 DEF BeginUpdate, RollbackUpdate, wallet
<1>6. ASSUME NEW d \in Removals, CountUses(d) PROVE UNCHANGED <<earned, withdrawals>>
  BY <1>6 DEF CountUses, wallet
<1>7. UNCHANGED <<earned, withdrawals>> => UNCHANGED Promise!vars
  BY DEF Promise!vars, PayoutOf
<1>8. ASSUME NEW d \in Removals, FinishRemoval(d) PROVE UNCHANGED Promise!vars
  <2>1. UNCHANGED earned
    BY <1>8 DEF FinishRemoval, wallet
  <2>2. CASE UNCHANGED withdrawals
    BY <1>7, <2>1, <2>2
  <2>3. CASE withdrawals' = [w \in DOMAIN withdrawals |->
               IF withdrawals[w].method = removal[d].method
               THEN [withdrawals[w] EXCEPT !.method = "none"]
               ELSE withdrawals[w]]
    <3>1. /\ DOMAIN withdrawals' = DOMAIN withdrawals /\ KeepsRows
          /\ \A w \in DOMAIN withdrawals : withdrawals'[w].status = withdrawals[w].status
      BY <1>0, <2>3, RowsTyped DEF KeepsRows, WithdrawalRow
    <3>2. PayoutsSeen' = PayoutsSeen
      BY <1>0, <3>1, SamePayouts
    <3> QED BY <2>1, <3>2 DEF Promise!vars, PayoutsSeen
  <2> QED BY <1>8, <2>2, <2>3 DEF FinishRemoval
<1> QED BY <1>1, <1>2, <1>3, <1>4, <1>5, <1>6, <1>7, <1>8, ReserveIsReserve, UpdateIsStep
        DEF Next, Advance, Quiescent, vars, wallet

\* There are no rows at first.
LEMMA InitKeyInv == Init => KeyInv
<1> SUFFICES ASSUME Init PROVE KeyInv
  OBVIOUS
<1>1. PayoutInv
  BY InitPayout
<1> QED BY <1>1 DEF Init, KeyInv, UniqueRows, InsertersAlone

\* Nothing earned, nothing paid out.
LEMMA InitIsPayoutInit == Init => Promise!Init
<1> SUFFICES ASSUME Init PROVE Promise!Init
  OBVIOUS
<1>1. \A p \in Users \X Keys : PayoutOf(p[1], p[2]) = [stage |-> "NONE", amount |-> 0]
  BY DEF Init, PayoutOf
<1> QED BY <1>1 DEF Init, Promise!Init, Promise!NoPayout

\* Behind transactions, unique indexes and row locks, a key stands for one
\* payout, whose points leave the earnings once and return at most once.
THEOREM WithdrawalsImplementPayouts == Spec => ImplementsPayouts
<1> QED
  BY InitKeyInv, NextKeyInv, InitIsPayoutInit, StepIsPayoutStep, PTL
  DEF Spec, ImplementsPayouts, Promise!Spec

-----------------------------------------------------------------------------
(* What is proved of the platform's wallet (PlatformSeed), for any         *)
(* processes that start, any credits and any float: the float is given     *)
(* once, and only to a wallet without a history.                           *)

\* An empty set of rows is well typed.
LEMMA NoRowsTyped == Seed!NoRows \in Seed!Rows /\ Seed!NoRows.lots = {} /\ Seed!NoRows.ledger = {}
BY DEF Seed!NoRows, Seed!Rows, Seed!None, Seed!Lots

\* An idle transaction is well typed.
LEMMA IdleTyped == Seed!Idle \in Seed!Step /\ Seed!Idle.at = "idle"
BY DEF Seed!Idle, Seed!Step, Seed!Places, Seed!None, Seed!Lots

\* The lots are worth a whole number of points.
LEMMA WorthTyped ==
  ASSUME Seed!Parameters, NEW lots \in Seed!Lots
  PROVE  Seed!Worth(lots) \in Int
<1>1. IsFiniteSet(lots \ {"seed"})
  <2>1. lots \ {"seed"} \in SUBSET Seed!Transactions
    BY DEF Seed!Lots
  <2>2. IsFiniteSet(Seed!Transactions)
    BY DEF Seed!Parameters, Seed!IsFiniteSet, IsFiniteSet
  <2> QED BY <2>1, <2>2, FS_Subset
<1>2. Cardinality(lots \ {"seed"}) \in Nat
  BY <1>1, FS_CardinalityType
<1>3. Seed!Cardinality(lots \ {"seed"}) \in Nat
  BY <1>2 DEF Seed!Cardinality, Cardinality
<1> QED BY <1>3 DEF Seed!Worth, Seed!Parameters

\* What a statement reads is rows; a history is seen by everyone.
LEMMA SeenTyped ==
  ASSUME Seed!TypeOK, NEW t \in Seed!Transactions
  PROVE  /\ Seed!Seen(t) \in Seed!Rows
         /\ Seed!Seen(t).lots = platform.lots \cup writes[t].lots
         /\ Seed!Seen(t).ledger = platform.ledger \cup writes[t].ledger
BY DEF Seed!TypeOK, Seed!Rows, Seed!Seen, Seed!Lots

\* The initial rows, with or without a history, satisfy the invariant.
LEMMA InitSeedInv == ASSUME Seed!Parameters, Seed!Init PROVE Seed!SeedInv
<1> DEFINE Row(hasUser, hasWallet, balance, lots, ledger) ==
             [user |-> hasUser, wallet |-> hasWallet, balance |-> balance,
              lots |-> lots, ledger |-> ledger]
<1>0. platform \in {Row(FALSE, FALSE, Seed!None, {}, {}), Row(TRUE, FALSE, Seed!None, {}, {}),
              Row(TRUE, TRUE, Seed!None, {}, {}), Row(TRUE, TRUE, Seed!None, {"seed"}, {"seed"}),
              Row(TRUE, TRUE, Seed!None, {}, {"old"}), Row(TRUE, TRUE, Float, {"seed"}, {"seed"})}
  BY DEF Seed!Init, Seed!NoRows
<1>1. platform \in Seed!Rows
  <2>1. \A hasUser, hasWallet \in BOOLEAN, balance \in {Seed!None, Float}, lots \in {{}, {"seed"}},
          ledger \in {{}, {"seed"}, {"old"}} :
            Row(hasUser, hasWallet, balance, lots, ledger) \in Seed!Rows
    BY DEF Seed!Rows, Seed!None, Seed!Lots, Seed!Parameters
  <2> HIDE DEF Row
  <2> QED BY <1>0, <2>1
<1>2. Seed!TypeOK
  BY <1>1, NoRowsTyped, IdleTyped DEF Seed!Init, Seed!TypeOK
<1>3. Seed!WrittenTogether /\ Seed!NoSeedAfterHistory
  BY NoRowsTyped, IdleTyped DEF Seed!Init, Seed!WrittenTogether, Seed!NoSeedAfterHistory
<1>4. Seed!FloatIsNotInvented
  BY <1>0 DEF Seed!FloatIsNotInvented
<1> QED BY <1>2, <1>3, <1>4 DEF Seed!SeedInv

\* Steps that read: the transaction goes on, to where it may.
LEMMA ReadingKeeps ==
  ASSUME Seed!SeedInv, NEW t \in Seed!Transactions, NEW step \in Seed!Step,
         transactions' = [transactions EXCEPT ![t] = step], UNCHANGED <<platform, writes>>, sees' \in [Seed!Transactions -> BOOLEAN],
         "old" \in platform.ledger =>
           /\ step.at # "seed"
           /\ step.at \in {"absent", "save", "write"} => step.lots # {} \/ step.amount # Float
  PROVE  Seed!SeedInv'
<1>1. \A s \in Seed!Transactions : transactions'[s] = IF s = t THEN step ELSE transactions[s]
  BY DEF Seed!SeedInv, Seed!TypeOK
<1>2. Seed!TypeOK'
  BY DEF Seed!SeedInv, Seed!TypeOK
<1>3. Seed!NoSeedAfterHistory'
  BY <1>1 DEF Seed!SeedInv, Seed!NoSeedAfterHistory, Seed!Seeding
<1> QED BY <1>2, <1>3 DEF Seed!SeedInv, Seed!WrittenTogether, Seed!FloatIsNotInvented

\* Steps that write rows other than lots of the seed, or give everything up.
LEMMA WritingKeeps ==
  ASSUME Seed!SeedInv, NEW t \in Seed!Transactions, NEW step \in Seed!Step, NEW rows \in Seed!Rows,
         transactions' = [transactions EXCEPT ![t] = step], writes' = [writes EXCEPT ![t] = rows], UNCHANGED <<platform, sees>>,
         rows.lots = rows.ledger, "old" \notin rows.ledger,
         "old" \in platform.ledger => /\ "seed" \notin rows.lots
                                      /\ step.at \notin {"absent", "save", "write", "seed"}
  PROVE  Seed!SeedInv'
<1>1. \A s \in Seed!Transactions : /\ transactions'[s] = IF s = t THEN step ELSE transactions[s]
                              /\ writes'[s] = IF s = t THEN rows ELSE writes[s]
  BY DEF Seed!SeedInv, Seed!TypeOK
<1>2. Seed!TypeOK'
  BY DEF Seed!SeedInv, Seed!TypeOK
<1>3. Seed!WrittenTogether' /\ Seed!NoSeedAfterHistory'
  BY <1>1 DEF Seed!SeedInv, Seed!WrittenTogether, Seed!NoSeedAfterHistory, Seed!Seeding
<1> QED BY <1>2, <1>3 DEF Seed!SeedInv, Seed!FloatIsNotInvented

\* A commit adds its rows to those that are stored.
LEMMA CommitKeeps ==
  ASSUME Seed!Parameters, Seed!SeedInv, NEW t \in Seed!Transactions, Seed!Commit(t)
  PROVE  Seed!SeedInv'
<1>1. Seed!TypeOK /\ Seed!WrittenTogether /\ Seed!NoSeedAfterHistory /\ Seed!FloatIsNotInvented
  BY DEF Seed!SeedInv
<1>2. /\ platform' = Seed!Seen(t) /\ writes' = [writes EXCEPT ![t] = Seed!NoRows]
      /\ transactions' = [transactions EXCEPT ![t] = [Seed!Idle EXCEPT !.at = "done"]] /\ UNCHANGED sees
  BY DEF Seed!Commit
<1>3. [Seed!Idle EXCEPT !.at = "done"] \in Seed!Step /\ [Seed!Idle EXCEPT !.at = "done"].at = "done"
  <2>1. [Seed!Idle EXCEPT !.at = "done"] = [at |-> "done", lots |-> {}, amount |-> Seed!None]
    BY DEF Seed!Idle
  <2>2. [at |-> "done", lots |-> {}, amount |-> Seed!None] \in Seed!Step
    BY DEF Seed!Step, Seed!Places, Seed!None, Seed!Lots
  <2> QED BY <2>1, <2>2
<1>4. \A s \in Seed!Transactions :
        /\ transactions'[s] = IF s = t THEN [Seed!Idle EXCEPT !.at = "done"] ELSE transactions[s]
        /\ writes'[s] = IF s = t THEN Seed!NoRows ELSE writes[s]
  BY <1>1, <1>2 DEF Seed!TypeOK
<1>5. /\ platform' \in Seed!Rows /\ platform'.lots = platform.lots \cup writes[t].lots
      /\ platform'.ledger = platform.ledger \cup writes[t].ledger
  BY <1>1, <1>2, SeenTyped
<1>6. Seed!TypeOK'
  BY <1>1, <1>2, <1>3, <1>5, NoRowsTyped DEF Seed!TypeOK
<1>7. Seed!WrittenTogether'
  BY <1>1, <1>4, NoRowsTyped DEF Seed!WrittenTogether
<1>8. "old" \in platform'.ledger => "old" \in platform.ledger
  BY <1>1, <1>5 DEF Seed!WrittenTogether
<1>9. Seed!NoSeedAfterHistory'
  BY <1>1, <1>3, <1>4, <1>8, NoRowsTyped DEF Seed!NoSeedAfterHistory, Seed!Seeding
<1>10. Seed!FloatIsNotInvented'
  BY <1>1, <1>5, <1>8 DEF Seed!FloatIsNotInvented, Seed!WrittenTogether, Seed!NoSeedAfterHistory
<1> QED BY <1>6, <1>7, <1>9, <1>10 DEF Seed!SeedInv

\* A transaction that only moves on.
LEMMA GoToKeeps ==
  ASSUME Seed!SeedInv, NEW t \in Seed!Transactions, NEW next \in Seed!Places,
         Seed!GoTo(t, next), UNCHANGED <<platform, writes>>,
         sees' \in [Seed!Transactions -> BOOLEAN],
         "old" \in platform.ledger =>
           /\ next # "seed"
           /\ next \in {"absent", "save", "write"} => ~Seed!Seeding(t)
  PROVE  Seed!SeedInv'
<1> DEFINE step == [transactions[t] EXCEPT !.at = next]
<1>1. transactions[t] \in Seed!Step
  BY DEF Seed!SeedInv, Seed!TypeOK
<1>2. /\ step \in Seed!Step /\ step.at = next
      /\ step.lots = transactions[t].lots /\ step.amount = transactions[t].amount
  BY <1>1 DEF Seed!Step
<1>3. transactions' = [transactions EXCEPT ![t] = step]
  BY DEF Seed!GoTo
<1> HIDE DEF step
<1> QED BY <1>2, <1>3, ReadingKeeps DEF Seed!Seeding

\* A transaction that fails leaves no row.
LEMMA AbortKeeps == ASSUME Seed!SeedInv, NEW t \in Seed!Transactions, Seed!Abort(t) PROVE Seed!SeedInv'
<1>1. /\ transactions' = [transactions EXCEPT ![t] = Seed!Idle] /\ writes' = [writes EXCEPT ![t] = Seed!NoRows] /\ UNCHANGED <<platform, sees>>
  BY DEF Seed!Abort
<1> QED BY <1>1, NoRowsTyped, IdleTyped, WritingKeeps

\* A row that is inserted does not touch lots and ledger.
LEMMA InsertKeeps ==
  ASSUME Seed!SeedInv, NEW t \in Seed!Transactions, NEW next \in {"wallet", "balance"},
         Seed!GoTo(t, next),
         \/ writes' = [writes EXCEPT ![t].user = TRUE]
         \/ writes' = [writes EXCEPT ![t].wallet = TRUE],
         UNCHANGED <<platform, sees>>
  PROVE  Seed!SeedInv'
<1> DEFINE step == [transactions[t] EXCEPT !.at = next]
<1>1. transactions[t] \in Seed!Step /\ writes[t] \in Seed!Rows /\ writes \in [Seed!Transactions -> Seed!Rows]
  BY DEF Seed!SeedInv, Seed!TypeOK
<1>2. step \in Seed!Step /\ step.at = next
  BY <1>1 DEF Seed!Step, Seed!Places
<1>3. transactions' = [transactions EXCEPT ![t] = step]
  BY DEF Seed!GoTo
<1>4. PICK rows \in Seed!Rows : /\ writes' = [writes EXCEPT ![t] = rows]
                           /\ rows.lots = writes[t].lots /\ rows.ledger = writes[t].ledger
  <2>1. CASE writes' = [writes EXCEPT ![t].user = TRUE]
    <3>1. writes' = [writes EXCEPT ![t] = [writes[t] EXCEPT !.user = TRUE]]
      BY <2>1
    <3>2. /\ [writes[t] EXCEPT !.user = TRUE] \in Seed!Rows
          /\ [writes[t] EXCEPT !.user = TRUE].lots = writes[t].lots
          /\ [writes[t] EXCEPT !.user = TRUE].ledger = writes[t].ledger
      BY <1>1 DEF Seed!Rows
    <3> QED BY <3>1, <3>2
  <2>2. CASE writes' = [writes EXCEPT ![t].wallet = TRUE]
    <3>1. writes' = [writes EXCEPT ![t] = [writes[t] EXCEPT !.wallet = TRUE]]
      BY <2>2
    <3>2. /\ [writes[t] EXCEPT !.wallet = TRUE] \in Seed!Rows
          /\ [writes[t] EXCEPT !.wallet = TRUE].lots = writes[t].lots
          /\ [writes[t] EXCEPT !.wallet = TRUE].ledger = writes[t].ledger
      BY <1>1 DEF Seed!Rows
    <3> QED BY <3>1, <3>2
  <2> QED BY <2>1, <2>2
<1>5. rows.lots = rows.ledger /\ "old" \notin rows.ledger
      /\ ("old" \in platform.ledger => "seed" \notin rows.lots)
  BY <1>4 DEF Seed!SeedInv, Seed!WrittenTogether, Seed!NoSeedAfterHistory
<1> HIDE DEF step
<1> QED BY <1>2, <1>3, <1>4, <1>5, WritingKeeps

\* A missing user or wallet is inserted, or waited for.
LEMMA EnsureRowKeeps ==
  ASSUME Seed!SeedInv, NEW t \in Seed!Transactions,
         Seed!ensurePlatformUser(t) \/ Seed!ensurePlatformWallet(t)
  PROVE  Seed!SeedInv'
<1>1. ASSUME NEW next \in {"no user", "no wallet", "wallet", "balance"}, Seed!GoTo(t, next),
             UNCHANGED <<platform, writes, sees>>
      PROVE  Seed!SeedInv'
  <2>1. next \in Seed!Places /\ next \notin {"seed", "absent", "save", "write"}
    BY DEF Seed!Places
  <2>2. sees' \in [Seed!Transactions -> BOOLEAN]
    BY <1>1 DEF Seed!SeedInv, Seed!TypeOK
  <2> QED BY <1>1, <2>1, <2>2, GoToKeeps
<1>2. CASE Seed!ensurePlatformUser(t)
  <2>1. CASE Seed!Find(t, "user", "no user", "wallet")
    <3>1. Seed!GoTo(t, "no user") \/ Seed!GoTo(t, "wallet")
      BY <2>1 DEF Seed!Find
    <3> QED BY <1>1, <2>1, <3>1 DEF Seed!Find
  <2>2. CASE Seed!InsertRow(t, "user", "no user", "wallet")
    <3>1. \/ Seed!Abort(t)
          \/ writes' = [writes EXCEPT ![t].user = TRUE] /\ Seed!GoTo(t, "wallet") /\ UNCHANGED <<platform, sees>>
      BY <2>2 DEF Seed!InsertRow
    <3> QED BY <3>1, AbortKeeps, InsertKeeps
  <2> QED BY <1>2, <2>1, <2>2 DEF Seed!ensurePlatformUser
<1>3. CASE Seed!ensurePlatformWallet(t)
  <2>1. CASE Seed!Find(t, "wallet", "no wallet", "balance")
    <3>1. Seed!GoTo(t, "no wallet") \/ Seed!GoTo(t, "balance")
      BY <2>1 DEF Seed!Find
    <3> QED BY <1>1, <2>1, <3>1 DEF Seed!Find
  <2>2. CASE Seed!InsertRow(t, "wallet", "no wallet", "balance")
    <3>1. \/ Seed!Abort(t)
          \/ writes' = [writes EXCEPT ![t].wallet = TRUE] /\ Seed!GoTo(t, "balance") /\ UNCHANGED <<platform, sees>>
      BY <2>2 DEF Seed!InsertRow
    <3> QED BY <3>1, AbortKeeps, InsertKeeps
  <2> QED BY <1>3, <2>1, <2>2 DEF Seed!ensurePlatformWallet
<1> QED BY <1>2, <1>3

\* What follows the rows that were ensured is a place of the program.
LEMMA EnsuredPlace ==
  ASSUME NEW t \in Seed!Transactions
  PROVE  Seed!Ensured(t) \in Seed!Places /\ Seed!Ensured(t) \in {"lock", "commit"}
BY DEF Seed!Ensured, Seed!Places

\* A transaction that begins, or looks for the balance.
LEMMA LookingKeeps ==
  ASSUME Seed!SeedInv, NEW t \in Seed!Transactions,
         \/ Seed!ensureInitialized(t) \/ Seed!ensurePlatformWalletBalance(t)
         \/ Seed!insertPlatformBalanceIfAbsent(t) \/ Seed!SaveFinds(t)
  PROVE  Seed!SeedInv'
<1>1. sees \in [Seed!Transactions -> BOOLEAN] /\ (Seed!Seen(t).balance # Seed!None) \in BOOLEAN
  BY DEF Seed!SeedInv, Seed!TypeOK
<1>2. CASE Seed!ensureInitialized(t) \/ Seed!ensurePlatformWalletBalance(t)
  <2>1. PICK next \in {"user", "lock"} : Seed!GoTo(t, next) /\ UNCHANGED <<platform, writes, sees>>
    BY <1>2 DEF Seed!ensureInitialized, Seed!ensurePlatformWalletBalance
  <2>2. next \in Seed!Places /\ next \notin {"seed", "absent", "save", "write"}
    BY DEF Seed!Places
  <2> QED BY <1>1, <2>1, <2>2, GoToKeeps
<1>3. CASE Seed!insertPlatformBalanceIfAbsent(t)
  <2>1. /\ transactions[t].at = "absent" /\ UNCHANGED <<platform, writes, sees>>
        /\ Seed!GoTo(t, "save") \/ (Seed!Seeding(t) /\ Seed!GoTo(t, "seed")) \/ Seed!GoTo(t, Seed!Ensured(t))
    BY <1>3 DEF Seed!insertPlatformBalanceIfAbsent
  <2>2. "old" \in platform.ledger => ~Seed!Seeding(t)
    BY <2>1 DEF Seed!SeedInv, Seed!NoSeedAfterHistory
  <2>3. {"save", "seed"} \subseteq Seed!Places
    BY DEF Seed!Places
  <2>4. CASE Seed!GoTo(t, "save")
    BY <1>1, <2>1, <2>2, <2>3, <2>4, GoToKeeps
  <2>5. CASE Seed!Seeding(t) /\ Seed!GoTo(t, "seed")
    BY <1>1, <2>1, <2>2, <2>3, <2>5, GoToKeeps
  <2>6. CASE Seed!GoTo(t, Seed!Ensured(t))
    <3> HIDE DEF Seed!Ensured
    <3> QED BY <1>1, <2>1, <2>6, EnsuredPlace, GoToKeeps
  <2> QED BY <2>1, <2>4, <2>5, <2>6
<1>4. CASE Seed!SaveFinds(t)
  <2>1. /\ transactions[t].at = "save" /\ UNCHANGED <<platform, writes>> /\ Seed!GoTo(t, "write")
        /\ sees' = [sees EXCEPT ![t] = Seed!Seen(t).balance # Seed!None]
    BY <1>4 DEF Seed!SaveFinds
  <2>2. sees' \in [Seed!Transactions -> BOOLEAN]
    BY <1>1, <2>1
  <2>3. "old" \in platform.ledger => ~Seed!Seeding(t)
    BY <2>1 DEF Seed!SeedInv, Seed!NoSeedAfterHistory
  <2>4. "write" \in Seed!Places
    BY DEF Seed!Places
  <2> QED BY <2>1, <2>2, <2>3, <2>4, GoToKeeps
<1> QED BY <1>2, <1>3, <1>4

\* The lots and then the history are read: with a history, nobody seeds.
LEMMA MeasuringKeeps ==
  ASSUME Seed!Parameters, Seed!SeedInv, NEW t \in Seed!Transactions,
         Seed!ensurePlatformBalance(t) \/ Seed!seedOpeningFloatIfAbsent(t)
  PROVE  Seed!SeedInv'
<1>1. Seed!TypeOK /\ sees \in [Seed!Transactions -> BOOLEAN] /\ transactions[t] \in Seed!Step
  BY DEF Seed!SeedInv, Seed!TypeOK
<1>2. CASE transactions[t].at = "balance" /\ Seed!ensurePlatformBalance(t)
  <2>1. UNCHANGED <<platform, writes, sees>> /\ (Seed!GoTo(t, Seed!Ensured(t)) \/ Seed!GoTo(t, "lots"))
    BY <1>2 DEF Seed!ensurePlatformBalance
  <2>2. "lots" \in Seed!Places
    BY DEF Seed!Places
  <2>3. CASE Seed!GoTo(t, "lots")
    BY <1>1, <2>1, <2>2, <2>3, GoToKeeps
  <2>4. CASE Seed!GoTo(t, Seed!Ensured(t))
    <3> HIDE DEF Seed!Ensured
    <3> QED BY <1>1, <2>1, <2>4, EnsuredPlace, GoToKeeps
  <2> QED BY <2>1, <2>3, <2>4
<1>3. CASE transactions[t].at # "balance" /\ Seed!ensurePlatformBalance(t)
  <2> DEFINE read == Seed!Seen(t).lots
             step == [at |-> IF read = {} THEN "history" ELSE "absent",
                      lots |-> read, amount |-> Seed!Worth(read)]
  <2>1. transactions' = [transactions EXCEPT ![t] = step] /\ UNCHANGED <<platform, writes, sees>>
    BY <1>3 DEF Seed!ensurePlatformBalance
  <2>2. read \in Seed!Lots
    BY <1>1, SeenTyped DEF Seed!Rows
  <2>3. Seed!Worth(read) \in Int
    BY <2>2, WorthTyped
  <2> HIDE DEF read
  <2>4. /\ step \in Seed!Step /\ step.at \in {"history", "absent"}
        /\ step.at = "absent" => step.lots # {}
    BY <2>2, <2>3 DEF Seed!Step, Seed!Places
  <2> HIDE DEF step
  <2> QED BY <1>1, <2>1, <2>4, ReadingKeeps
<1>4. CASE Seed!seedOpeningFloatIfAbsent(t)
  <2> DEFINE opens == Seed!shouldSeedPlatformOpeningFloat([lots |-> transactions[t].lots, ledger |-> Seed!Seen(t).ledger])
             amount == IF opens THEN Float ELSE 0
             step == [transactions[t] EXCEPT !.at = "absent", !.amount = amount]
  <2>1. UNCHANGED <<platform, writes, sees>> /\ transactions' = [transactions EXCEPT ![t] = step]
    <3>1. transactions' = [transactions EXCEPT ![t].at = "absent", ![t].amount = amount]
      BY <1>4 DEF Seed!seedOpeningFloatIfAbsent
    <3> HIDE DEF amount
    <3> QED BY <1>1, <1>4, <3>1 DEF Seed!seedOpeningFloatIfAbsent, Seed!TypeOK
  <2>2. "old" \in platform.ledger => ~opens
    BY <1>1, SeenTyped DEF Seed!shouldSeedPlatformOpeningFloat
  <2> HIDE DEF opens
  <2>3. amount \in Int /\ ("old" \in platform.ledger => amount # Float)
    BY <2>2 DEF Seed!Parameters
  <2> HIDE DEF amount
  <2>4. step \in Seed!Step /\ step.at = "absent" /\ step.amount = amount
    BY <1>1, <2>3 DEF Seed!Step, Seed!Places
  <2> HIDE DEF step
  <2> QED BY <1>1, <2>1, <2>3, <2>4, ReadingKeeps
<1> QED BY <1>2, <1>3, <1>4

\* Balances, lots and ledger rows are written.
LEMMA PostingKeeps ==
  ASSUME Seed!Parameters, Seed!SeedInv, NEW t \in Seed!Transactions,
         Seed!SaveWrites(t) \/ Seed!SeedLotAndLedger(t) \/ Seed!creditPointsInTransaction(t)
  PROVE  Seed!SeedInv'
<1>1. /\ Seed!TypeOK /\ transactions[t] \in Seed!Step /\ writes[t] \in Seed!Rows /\ writes \in [Seed!Transactions -> Seed!Rows]
      /\ writes[t].lots = writes[t].ledger /\ "old" \notin writes[t].ledger
      /\ "old" \in platform.ledger => "seed" \notin writes[t].lots
  BY DEF Seed!SeedInv, Seed!TypeOK, Seed!WrittenTogether, Seed!NoSeedAfterHistory
<1>2. ASSUME NEW next \in Seed!Places
      PROVE  [transactions[t] EXCEPT !.at = next] \in Seed!Step /\ [transactions[t] EXCEPT !.at = next].at = next
  BY <1>1 DEF Seed!Step
<1>3. CASE Seed!SaveWrites(t)
  <2> DEFINE rows == [writes[t] EXCEPT !.balance = transactions[t].amount]
             next == IF Seed!Seeding(t) THEN "seed" ELSE Seed!Ensured(t)
  <2>1. /\ transactions[t].at = "write"
        /\ \/ Seed!Abort(t)
           \/ /\ writes' = [writes EXCEPT ![t] = rows] /\ UNCHANGED <<platform, sees>>
              /\ transactions' = [transactions EXCEPT ![t] = [transactions[t] EXCEPT !.at = next]]
    BY <1>3 DEF Seed!SaveWrites, Seed!GoTo
  <2>2. rows \in Seed!Rows /\ rows.lots = writes[t].lots /\ rows.ledger = writes[t].ledger
    BY <1>1 DEF Seed!Rows, Seed!Step
  <2>3. /\ next \in Seed!Places
        /\ "old" \in platform.ledger => next \notin {"absent", "save", "write", "seed"}
    <3>1. "old" \in platform.ledger => ~Seed!Seeding(t)
      BY <2>1 DEF Seed!SeedInv, Seed!NoSeedAfterHistory
    <3>2. "seed" \in Seed!Places
      BY DEF Seed!Places
    <3> QED BY <3>1, <3>2, EnsuredPlace
  <2> HIDE DEF rows, next
  <2> DEFINE step == [transactions[t] EXCEPT !.at = next]
  <2>4. step \in Seed!Step /\ step.at = next
    BY <1>2, <2>3
  <2>5. \/ Seed!Abort(t)
        \/ /\ writes' = [writes EXCEPT ![t] = rows] /\ UNCHANGED <<platform, sees>>
           /\ transactions' = [transactions EXCEPT ![t] = step]
    BY <2>1
  <2>6. ("old" \in platform.ledger => "seed" \notin rows.lots) /\ rows.lots = rows.ledger
        /\ "old" \notin rows.ledger
    BY <1>1, <2>2
  <2> HIDE DEF step
  <2>7. CASE Seed!Abort(t)
    BY <2>7, AbortKeeps
  <2>8. CASE /\ writes' = [writes EXCEPT ![t] = rows] /\ UNCHANGED <<platform, sees>>
             /\ transactions' = [transactions EXCEPT ![t] = step]
    BY <2>2, <2>3, <2>4, <2>6, <2>8, WritingKeeps
  <2> QED BY <2>5, <2>7, <2>8
<1>4. CASE Seed!SeedLotAndLedger(t)
  <2> DEFINE rows == [writes[t] EXCEPT !.lots = @ \cup {"seed"}, !.ledger = @ \cup {"seed"}]
             step == [transactions[t] EXCEPT !.at = Seed!Ensured(t)]
  <2>1. /\ transactions[t].at = "seed" /\ writes' = [writes EXCEPT ![t] = rows] /\ UNCHANGED <<platform, sees>>
        /\ transactions' = [transactions EXCEPT ![t] = step]
    BY <1>1, <1>4 DEF Seed!SeedLotAndLedger, Seed!GoTo
  <2>2. /\ rows \in Seed!Rows /\ rows.lots = writes[t].lots \cup {"seed"}
        /\ rows.ledger = writes[t].ledger \cup {"seed"}
    BY <1>1 DEF Seed!Rows, Seed!Lots
  <2>3. step \in Seed!Step /\ step.at = Seed!Ensured(t)
    BY <1>2, EnsuredPlace
  <2>4. "old" \notin platform.ledger
    BY <2>1 DEF Seed!SeedInv, Seed!NoSeedAfterHistory
  <2> HIDE DEF rows, step
  <2> QED BY <1>1, <2>1, <2>2, <2>3, <2>4, WritingKeeps
<1>5. CASE Seed!creditPointsInTransaction(t)
  <2> DEFINE balance == Seed!Seen(t).balance + 1
             rows == [writes[t] EXCEPT !.balance = balance, !.lots = @ \cup {t}, !.ledger = @ \cup {t}]
             step == [transactions[t] EXCEPT !.at = "commit"]
  <2>1. /\ writes' = [writes EXCEPT ![t] = rows] /\ UNCHANGED <<platform, sees>>
        /\ transactions' = [transactions EXCEPT ![t] = step]
    BY <1>1, <1>5 DEF Seed!creditPointsInTransaction, Seed!GoTo
  <2>2. balance \in Int
    BY <1>1, SeenTyped DEF Seed!Rows
  <2> HIDE DEF balance
  <2>3. /\ rows \in Seed!Rows /\ rows.lots = writes[t].lots \cup {t}
        /\ rows.ledger = writes[t].ledger \cup {t}
    BY <1>1, <2>2 DEF Seed!Rows, Seed!Lots
  <2>4. step \in Seed!Step /\ step.at = "commit"
    BY <1>2 DEF Seed!Places
  <2>5. t # "old" /\ t # "seed"
    BY DEF Seed!Parameters
  <2> HIDE DEF rows, step
  <2> QED BY <1>1, <2>1, <2>3, <2>4, <2>5, WritingKeeps
<1> QED BY <1>3, <1>4, <1>5

\* Every step of Next, or none, keeps the invariant.
LEMMA StepKeepsSeedInv == ASSUME Seed!Parameters, Seed!SeedInv, [Seed!Next]_(Seed!vars) PROVE Seed!SeedInv'
<1>1. CASE UNCHANGED Seed!vars \/ Seed!Over
  <2>1. UNCHANGED <<platform, writes, transactions, sees>>
    BY <1>1 DEF Seed!vars, Seed!Over
  <2> QED BY <2>1 DEF Seed!SeedInv, Seed!TypeOK, Seed!WrittenTogether, Seed!NoSeedAfterHistory,
                      Seed!Seeding, Seed!FloatIsNotInvented
<1>2. ASSUME NEW t \in Seed!Transactions,
             \/ Seed!ensureInitialized(t) \/ Seed!ensurePlatformWalletBalance(t)
             \/ Seed!ensurePlatformUser(t) \/ Seed!ensurePlatformWallet(t) \/ Seed!ensurePlatformBalance(t)
             \/ Seed!seedOpeningFloatIfAbsent(t) \/ Seed!insertPlatformBalanceIfAbsent(t)
             \/ Seed!SaveFinds(t) \/ Seed!SaveWrites(t) \/ Seed!SeedLotAndLedger(t)
             \/ Seed!creditPointsInTransaction(t)
             \/ Seed!Commit(t) \/ Seed!EndDeadlock(t)
      PROVE  Seed!SeedInv'
  BY <1>2, LookingKeeps, EnsureRowKeeps, MeasuringKeeps, PostingKeeps, CommitKeeps, AbortKeeps,
     Zenon
  DEF Seed!EndDeadlock
<1> QED BY <1>1, <1>2 DEF Seed!Next

\* The rows and the transactions keep their shape.
THEOREM SeedTyped == ASSUME Seed!Parameters PROVE Seed!Spec => []Seed!TypeOK
<1>1. Seed!Init => Seed!SeedInv
  BY InitSeedInv
<1>2. Seed!SeedInv /\ [Seed!Next]_(Seed!vars) => Seed!SeedInv'
  BY StepKeepsSeedInv
<1>3. Seed!SeedInv => Seed!TypeOK
  BY DEF Seed!SeedInv
<1> QED BY <1>1, <1>2, <1>3, PTL DEF Seed!Spec

\* platform-wallet.service.ts, shouldSeedPlatformOpeningFloat: however processes
\* that start and credits that repair the wallet interleave, the float is never
\* given to a wallet with a history, nor without its ledger row.
THEOREM FloatIsGivenOnce == ASSUME Seed!Parameters PROVE Seed!Spec => []Seed!FloatIsNotInvented
<1>1. Seed!Init => Seed!SeedInv
  BY InitSeedInv
<1>2. Seed!SeedInv /\ [Seed!Next]_(Seed!vars) => Seed!SeedInv'
  BY StepKeepsSeedInv
<1>3. Seed!SeedInv => Seed!FloatIsNotInvented
  BY DEF Seed!SeedInv
<1> QED BY <1>1, <1>2, <1>3, PTL DEF Seed!Spec

-----------------------------------------------------------------------------
(* What is proved of top-ups (TopUp), for any keys, requests, handlers and *)
(* bounds that fit together: points stand for captured money, and a        *)
(* captured payment is acknowledged only once its points are there.        *)

\* A handler at work has an event the gateway emitted.
LEMMA HandlerEvent ==
  ASSUME TopUps!TypeOK, NEW h \in Handlers, handler[h].phase \in {"recorded", "handled"}
  PROVE  /\ handler[h].event \in emitted
         /\ handler[h].event \in TopUps!Event
BY DEF TopUps!TypeOK, TopUps!Idle

\* With no order and no call the invariant holds.
LEMMA InitTopUpInv == ASSUME TopUps!Parameters, TopUps!Init PROVE TopUps!TopUpInv
<1>1. gateway = <<>> /\ DOMAIN gateway = {} /\ Len(gateway) = 0 /\ gateway \in Seq(TopUps!GatewayOrder)
  BY DEF TopUps!Init
<1>2. TopUps!TypeOK
  BY <1>1 DEF TopUps!Parameters, TopUps!Init, TopUps!TypeOK, TopUps!NoOrder, TopUps!Statuses,
     TopUps!Kinds, TopUps!CreatePhases, TopUps!GatewayOrder
<1>3. TopUps!OrdersKnowTheirs /\ TopUps!AnnouncedIsTrue /\ TopUps!SuccessIsCredited
  BY <1>1 DEF TopUps!Parameters, TopUps!Init, TopUps!NoOrder, TopUps!Idle, TopUps!OrdersKnowTheirs,
     TopUps!AnnouncedIsTrue, TopUps!SuccessIsCredited
<1>4. TopUps!CreditIsPaidFor /\ TopUps!AcknowledgedIsCredited
  BY DEF TopUps!Init, TopUps!CreditIsPaidFor, TopUps!AcknowledgedIsCredited
<1>5. TopUps!CallsBounded
  BY <1>1 DEF TopUps!Parameters, TopUps!CallsBounded
<1> QED BY <1>2, <1>3, <1>4, <1>5 DEF TopUps!TopUpInv

\* A payment order is written with another status only.
LEMMA StatusWritten ==
  ASSUME TopUps!TypeOK, NEW k \in TopUpKeys, NEW status \in TopUps!Statuses,
         UNCHANGED orders \/ orders' = [orders EXCEPT ![k].status = status]
  PROVE  /\ orders' \in [TopUpKeys -> TopUps!OrderRow]
         /\ \A l \in TopUpKeys : /\ orders'[l].gateway = orders[l].gateway
                                 /\ orders'[l].status \in {orders[l].status, status}
<1>1. orders \in [TopUpKeys -> TopUps!OrderRow]
  BY DEF TopUps!TypeOK, TopUps!OrderRow
<1>2. CASE UNCHANGED orders
  BY <1>1, <1>2
<1>3. CASE orders' = [orders EXCEPT ![k].status = status]
  <2>1. [orders[k] EXCEPT !.status = status] \in TopUps!OrderRow
    BY <1>1 DEF TopUps!OrderRow
  <2>2. \A l \in TopUpKeys : orders'[l] = IF l = k THEN [orders[k] EXCEPT !.status = status] ELSE orders[l]
    BY <1>1, <1>3
  <2>3. orders' \in [TopUpKeys -> TopUps!OrderRow]
    BY <1>1, <1>3, <2>1
  <2> QED BY <1>1, <2>2, <2>3 DEF TopUps!OrderRow
<1> QED BY <1>2, <1>3

\* Steps that leave the gateway's orders and what it emitted alone.
LEMMA RowsKeepInv ==
  ASSUME TopUps!Parameters, TopUps!TopUpInv, UNCHANGED <<credits, gateway, emitted, events, verify, handler, crashes>>,
         TopUps!TypeOK', TopUps!OrdersKnowTheirs',
         \A k \in TopUpKeys : orders'[k].status = "SUCCESS" => orders[k].status = "SUCCESS"
  PROVE  TopUps!TopUpInv'
BY DEF TopUps!TopUpInv, TopUps!CallsBounded, TopUps!AnnouncedIsTrue, TopUps!SuccessIsCredited,
   TopUps!Paid, TopUps!CreditIsPaidFor, TopUps!AcknowledgedIsCredited

\* A request that goes from one phase to the next keeps what it knows.
LEMMA GotoKeepsTypes ==
  ASSUME TopUps!TypeOK, NEW c \in Creates, NEW phase \in TopUps!CreatePhases, TopUps!Goto(c, phase)
  PROVE  /\ create' \in [Creates -> [phase : TopUps!CreatePhases, gateway : 0..Len(gateway)]]
         /\ known' = known
         /\ \A d \in Creates : /\ create'[d].gateway = create[d].gateway
                               /\ create'[d].phase = IF d = c THEN phase ELSE create[d].phase
BY DEF TopUps!TypeOK, TopUps!Goto

\* An answer to the client names an order of the gateway, or none.
LEMMA RespondKeepsTypes ==
  ASSUME TopUps!TypeOK, NEW c \in Creates, NEW row, row.gateway = 0 \/ row.gateway \in DOMAIN gateway,
         TopUps!Respond(c, row)
  PROVE  /\ create' \in [Creates -> [phase : TopUps!CreatePhases, gateway : 0..Len(gateway)]]
         /\ known' \subseteq DOMAIN gateway
         /\ \A d \in Creates : create'[d].phase = "called" => create'[d] = create[d]
<1>1. row.gateway \in 0..Len(gateway)
  BY DEF TopUps!TypeOK
<1>2. create' = [create EXCEPT ![c] = [phase |-> "done", gateway |-> row.gateway]]
  BY DEF TopUps!Respond
<1>3. create' \in [Creates -> [phase : TopUps!CreatePhases, gateway : 0..Len(gateway)]]
  BY <1>1, <1>2 DEF TopUps!TypeOK, TopUps!CreatePhases
<1>4. known' \subseteq DOMAIN gateway
  BY DEF TopUps!TypeOK, TopUps!Respond
<1> QED BY <1>2, <1>3, <1>4 DEF TopUps!TypeOK

\* Looking an order up by its key.
LEMMA LookUpKeeps == ASSUME TopUps!Parameters, TopUps!TopUpInv, NEW c \in Creates, TopUps!LookUp(c) PROVE TopUps!TopUpInv'
<1> DEFINE row == orders[KeyOf[c]]
<1>1. TopUps!TypeOK /\ TopUps!OrdersKnowTheirs /\ KeyOf[c] \in TopUpKeys
  BY DEF TopUps!TopUpInv, TopUps!Parameters
<1>2. row.gateway = 0 \/ row.gateway \in DOMAIN gateway
  BY <1>1 DEF TopUps!OrdersKnowTheirs
<1>3. /\ UNCHANGED <<orders, credits, gateway, emitted, events, verify, handler, crashes>>
      /\ TopUps!Respond(c, row) \/ TopUps!Goto(c, "found") \/ TopUps!Goto(c, "inserting")
  BY DEF TopUps!LookUp
<1> HIDE DEF row
<1>4. /\ create' \in [Creates -> [phase : TopUps!CreatePhases, gateway : 0..Len(gateway)]]
      /\ known' \subseteq DOMAIN gateway
      /\ \A d \in Creates : create'[d].phase = "called" =>
           create[d].phase = "called" /\ create'[d].gateway = create[d].gateway
  <2>1. CASE TopUps!Respond(c, row)
    BY <1>1, <1>2, <2>1, RespondKeepsTypes
  <2>2. CASE TopUps!Goto(c, "found") \/ TopUps!Goto(c, "inserting")
    <3>1. {"found", "inserting"} \subseteq TopUps!CreatePhases /\ known \subseteq DOMAIN gateway
      BY <1>1 DEF TopUps!CreatePhases, TopUps!TypeOK
    <3> QED BY <1>1, <2>2, <3>1, GotoKeepsTypes
  <2> QED BY <1>3, <2>1, <2>2
<1>5. TopUps!TypeOK'
  BY <1>1, <1>3, <1>4 DEF TopUps!TypeOK
<1>6. TopUps!OrdersKnowTheirs'
  BY <1>1, <1>3, <1>4 DEF TopUps!OrdersKnowTheirs
<1> QED BY <1>3, <1>5, <1>6, RowsKeepInv

\* An order is stored under its key, or the one there is used.
LEMMA InsertOrderKeeps == ASSUME TopUps!Parameters, TopUps!TopUpInv, NEW c \in Creates, TopUps!InsertOrder(c) PROVE TopUps!TopUpInv'
<1> DEFINE k == KeyOf[c]
           row == orders[k]
<1>1. TopUps!TypeOK /\ TopUps!OrdersKnowTheirs /\ k \in TopUpKeys
  BY DEF TopUps!TopUpInv, TopUps!Parameters
<1>2. row.gateway = 0 \/ row.gateway \in DOMAIN gateway
  BY <1>1 DEF TopUps!OrdersKnowTheirs
<1>3. /\ UNCHANGED <<credits, gateway, emitted, events, verify, handler, crashes>>
      /\ \/ TopUps!Respond(c, row) /\ UNCHANGED orders
         \/ TopUps!Goto(c, "calling") /\ (UNCHANGED orders \/ orders' = [orders EXCEPT ![k].status = "PENDING"])
  BY DEF TopUps!InsertOrder
<1> HIDE DEF row
<1>4. /\ create' \in [Creates -> [phase : TopUps!CreatePhases, gateway : 0..Len(gateway)]]
      /\ known' \subseteq DOMAIN gateway
      /\ \A d \in Creates : create'[d].phase = "called" =>
           create[d].phase = "called" /\ create'[d].gateway = create[d].gateway
  <2>1. CASE TopUps!Respond(c, row)
    BY <1>1, <1>2, <2>1, RespondKeepsTypes
  <2>2. CASE TopUps!Goto(c, "calling")
    <3>1. "calling" \in TopUps!CreatePhases /\ known \subseteq DOMAIN gateway
      BY <1>1 DEF TopUps!CreatePhases, TopUps!TypeOK
    <3> QED BY <1>1, <2>2, <3>1, GotoKeepsTypes
  <2> QED BY <1>3, <2>1, <2>2
<1>5. /\ orders' \in [TopUpKeys -> TopUps!OrderRow]
      /\ \A l \in TopUpKeys : /\ orders'[l].gateway = orders[l].gateway
                              /\ orders'[l].status \in {orders[l].status, "PENDING"}
  <2>1. "PENDING" \in TopUps!Statuses
    BY DEF TopUps!Statuses
  <2> QED BY <1>1, <1>3, <2>1, StatusWritten
<1>6. TopUps!TypeOK'
  BY <1>1, <1>3, <1>4, <1>5 DEF TopUps!TypeOK, TopUps!OrderRow
<1>7. TopUps!OrdersKnowTheirs'
  BY <1>1, <1>3, <1>4, <1>5 DEF TopUps!OrdersKnowTheirs
<1> QED BY <1>3, <1>5, <1>6, <1>7, RowsKeepInv

\* A gateway that fails leaves an order without a payment.
LEMMA FailureKeeps ==
  ASSUME TopUps!Parameters, TopUps!TopUpInv, NEW c \in Creates, TopUps!GatewayFails(c) \/ TopUps!RecordFailure(c)
  PROVE  TopUps!TopUpInv'
<1>1. TopUps!TypeOK /\ TopUps!OrdersKnowTheirs /\ KeyOf[c] \in TopUpKeys
  BY DEF TopUps!TopUpInv, TopUps!Parameters
<1>2. /\ UNCHANGED <<credits, gateway, emitted, events, verify, handler, crashes>>
      /\ TopUps!Goto(c, "failing") \/ TopUps!Goto(c, "error")
      /\ UNCHANGED orders \/ orders' = [orders EXCEPT ![KeyOf[c]].status = "FAILED"]
  BY DEF TopUps!GatewayFails, TopUps!RecordFailure
<1>3. {"failing", "error"} \subseteq TopUps!CreatePhases
  BY DEF TopUps!CreatePhases
<1>4. /\ create' \in [Creates -> [phase : TopUps!CreatePhases, gateway : 0..Len(gateway)]]
      /\ known' = known
      /\ \A d \in Creates : create'[d].phase = "called" =>
           create[d].phase = "called" /\ create'[d].gateway = create[d].gateway
  BY <1>1, <1>2, <1>3, GotoKeepsTypes
<1>5. /\ orders' \in [TopUpKeys -> TopUps!OrderRow]
      /\ \A l \in TopUpKeys : /\ orders'[l].gateway = orders[l].gateway
                              /\ orders'[l].status \in {orders[l].status, "FAILED"}
  <2>1. "FAILED" \in TopUps!Statuses
    BY DEF TopUps!Statuses
  <2> QED BY <1>1, <1>2, <2>1, StatusWritten
<1>6. TopUps!TypeOK'
  BY <1>1, <1>2, <1>4, <1>5 DEF TopUps!TypeOK, TopUps!OrderRow
<1>7. TopUps!OrdersKnowTheirs'
  BY <1>1, <1>2, <1>4, <1>5 DEF TopUps!OrdersKnowTheirs
<1> QED BY <1>2, <1>5, <1>6, <1>7, RowsKeepInv

\* The gateway's order is stored with ours.
LEMMA RecordOrderKeeps == ASSUME TopUps!Parameters, TopUps!TopUpInv, NEW c \in Creates, TopUps!RecordOrder(c) PROVE TopUps!TopUpInv'
<1> DEFINE k == KeyOf[c]
           row == IF orders[k].status = "PENDING"
                  THEN [orders[k] EXCEPT !.gateway = create[c].gateway] ELSE orders[k]
<1>1. TopUps!TypeOK /\ TopUps!OrdersKnowTheirs /\ k \in TopUpKeys
  BY DEF TopUps!TopUpInv, TopUps!Parameters
<1>2. /\ UNCHANGED <<credits, gateway, emitted, events, verify, handler, crashes>>
      /\ TopUps!Respond(c, row) /\ orders' = [orders EXCEPT ![k] = row] /\ create[c].phase = "called"
  BY DEF TopUps!RecordOrder
<1>3. /\ row \in TopUps!OrderRow
      /\ row.status = orders[k].status
      /\ row.gateway # 0 => row.gateway \in DOMAIN gateway /\ gateway[row.gateway].key = k
  <2>1. /\ create[c].gateway \in DOMAIN gateway /\ gateway[create[c].gateway].key = k
        /\ create[c].gateway \in Nat
    BY <1>1, <1>2 DEF TopUps!OrdersKnowTheirs, TopUps!TypeOK
  <2>2. orders[k] \in TopUps!OrderRow
    BY <1>1 DEF TopUps!TypeOK, TopUps!OrderRow
  <2>3. CASE orders[k].status = "PENDING"
    <3>1. row = [orders[k] EXCEPT !.gateway = create[c].gateway]
      BY <2>3
    <3> HIDE DEF row
    <3> QED BY <2>1, <2>2, <3>1 DEF TopUps!OrderRow
  <2>4. CASE orders[k].status # "PENDING"
    <3>1. row = orders[k]
      BY <2>4
    <3> QED BY <1>1, <2>2, <3>1 DEF TopUps!OrdersKnowTheirs, TopUps!OrderRow
  <2> QED BY <2>3, <2>4
<1> HIDE DEF row
<1>4. /\ create' \in [Creates -> [phase : TopUps!CreatePhases, gateway : 0..Len(gateway)]]
      /\ known' \subseteq DOMAIN gateway
      /\ \A d \in Creates : create'[d].phase = "called" =>
           create[d].phase = "called" /\ create'[d].gateway = create[d].gateway
  BY <1>1, <1>2, <1>3, RespondKeepsTypes
<1>5. orders' \in [TopUpKeys -> TopUps!OrderRow]
      /\ \A l \in TopUpKeys : orders'[l] = IF l = k THEN row ELSE orders[l]
  BY <1>1, <1>2, <1>3 DEF TopUps!TypeOK, TopUps!OrderRow
<1>6. TopUps!TypeOK'
  BY <1>1, <1>2, <1>4, <1>5 DEF TopUps!TypeOK, TopUps!OrderRow
<1>7. TopUps!OrdersKnowTheirs'
  BY <1>1, <1>2, <1>3, <1>4, <1>5 DEF TopUps!OrdersKnowTheirs
<1>8. \A l \in TopUpKeys : orders'[l].status = "SUCCESS" => orders[l].status = "SUCCESS"
  BY <1>3, <1>5
<1> QED BY <1>2, <1>6, <1>7, <1>8, RowsKeepInv

\* A new order of the gateway is nobody's yet and not paid.
LEMMA CallGatewayKeeps == ASSUME TopUps!Parameters, TopUps!TopUpInv, NEW c \in Creates, TopUps!CallGateway(c) PROVE TopUps!TopUpInv'
<1> DEFINE n == Len(gateway) + 1
           made == [key |-> KeyOf[c], paid |-> "created"]
<1>1. /\ TopUps!TypeOK /\ TopUps!OrdersKnowTheirs /\ TopUps!AnnouncedIsTrue /\ TopUps!SuccessIsCredited
      /\ TopUps!CreditIsPaidFor /\ TopUps!AcknowledgedIsCredited /\ TopUps!CallsBounded /\ KeyOf[c] \in TopUpKeys
  BY DEF TopUps!TopUpInv, TopUps!Parameters
<1>2. /\ gateway' = Append(gateway, made)
      /\ create' = [create EXCEPT ![c] = [phase |-> "called", gateway |-> n]]
      /\ UNCHANGED <<orders, credits, known, emitted, events, verify, handler, crashes>>
      /\ Len(gateway) < MaxCalls
  BY DEF TopUps!CallGateway
<1>3. gateway \in Seq(TopUps!GatewayOrder) /\ made \in TopUps!GatewayOrder
  BY <1>1 DEF TopUps!TypeOK, TopUps!GatewayOrder
<1>4. /\ gateway' \in Seq(TopUps!GatewayOrder) /\ Len(gateway') = n /\ DOMAIN gateway' = 1..n
      /\ DOMAIN gateway = 1..(n - 1) /\ n \in Nat
      /\ gateway'[n] = made /\ \A g \in DOMAIN gateway : gateway'[g] = gateway[g]
  BY <1>2, <1>3
<1>5. DOMAIN gateway \subseteq DOMAIN gateway' /\ n \in DOMAIN gateway'
  BY <1>4
<1> HIDE DEF n, made
<1>6. TopUps!TypeOK'
  <2>1. create' \in [Creates -> [phase : TopUps!CreatePhases, gateway : 0..Len(gateway')]]
    <3>1. create \in [Creates -> [phase : TopUps!CreatePhases, gateway : 0..n]]
      BY <1>1, <1>4 DEF TopUps!TypeOK, n
    <3>2. [phase |-> "called", gateway |-> n] \in [phase : TopUps!CreatePhases, gateway : 0..n]
      BY <1>4 DEF TopUps!CreatePhases
    <3> QED BY <1>2, <1>4, <3>1, <3>2
  <2>2. gateway' \in Seq([key : TopUpKeys, paid : {"created", "authorized", "captured"}])
    BY <1>4 DEF TopUps!GatewayOrder
  <2> QED BY <1>1, <1>2, <1>5, <2>1, <2>2 DEF TopUps!TypeOK
<1>7. TopUps!OrdersKnowTheirs'
  <2>1. ASSUME NEW d \in Creates, create'[d].phase = "called"
        PROVE  create'[d].gateway \in DOMAIN gateway' /\ gateway'[create'[d].gateway].key = KeyOf[d]
    <3>1. CASE d = c
      <4>1. create'[d].gateway = n
        BY <1>1, <1>2, <3>1 DEF TopUps!TypeOK
      <4> QED BY <1>4, <1>5, <3>1, <4>1 DEF made
    <3>2. CASE d # c
      <4>1. create'[d] = create[d]
        BY <1>1, <1>2, <3>2 DEF TopUps!TypeOK
      <4> QED BY <1>1, <1>4, <1>5, <2>1, <4>1 DEF TopUps!OrdersKnowTheirs
    <3> QED BY <3>1, <3>2
  <2>2. \A k \in TopUpKeys : orders'[k].gateway # 0 =>
          orders'[k].gateway \in DOMAIN gateway' /\ gateway'[orders'[k].gateway].key = k
    BY <1>1, <1>2, <1>4, <1>5 DEF TopUps!OrdersKnowTheirs
  <2> QED BY <2>1, <2>2 DEF TopUps!OrdersKnowTheirs
<1>8. TopUps!AnnouncedIsTrue'
  BY <1>1, <1>2, <1>4, <1>5 DEF TopUps!AnnouncedIsTrue, TopUps!Paid
<1>9. TopUps!SuccessIsCredited'
  <2>1. ASSUME NEW h \in Handlers, handler[h].phase = "handled", handler[h].event.kind = "captured"
        PROVE  gateway'[handler[h].event.gateway].key \in credits
    <3>1. handler[h].event \in emitted
      BY <1>1, <2>1, HandlerEvent
    <3> QED BY <1>1, <1>4, <2>1, <3>1 DEF TopUps!SuccessIsCredited, TopUps!AnnouncedIsTrue
  <2> QED BY <1>1, <1>2, <2>1 DEF TopUps!SuccessIsCredited
<1>10. TopUps!CreditIsPaidFor'
  BY <1>1, <1>2, <1>4, <1>5 DEF TopUps!CreditIsPaidFor
<1>11. TopUps!AcknowledgedIsCredited'
  <2>1. \A e \in TopUps!Event : events[e] = "PROCESSED" => e.gateway \in DOMAIN gateway
    BY <1>1 DEF TopUps!AnnouncedIsTrue
  <2> QED BY <1>1, <1>2, <1>4, <2>1 DEF TopUps!AcknowledgedIsCredited
<1>12. TopUps!CallsBounded'
  BY <1>2, <1>4 DEF TopUps!CallsBounded, n, TopUps!Parameters
<1> QED BY <1>6, <1>7, <1>8, <1>9, <1>10, <1>11, <1>12 DEF TopUps!TopUpInv

\* Money is authorized and captured: captured money stays captured.
LEMMA PayKeeps ==
  ASSUME TopUps!Parameters, TopUps!TopUpInv, NEW g \in known, TopUps!FailAttempt(g) \/ TopUps!Authorize(g) \/ TopUps!Capture(g)
  PROVE  TopUps!TopUpInv'
<1>1. /\ TopUps!TypeOK /\ TopUps!OrdersKnowTheirs /\ TopUps!AnnouncedIsTrue /\ TopUps!SuccessIsCredited
      /\ TopUps!CreditIsPaidFor /\ TopUps!AcknowledgedIsCredited /\ TopUps!CallsBounded
  BY DEF TopUps!TopUpInv
<1>2. /\ gateway \in Seq(TopUps!GatewayOrder) /\ g \in DOMAIN gateway
      /\ Len(gateway) \in Nat /\ DOMAIN gateway = 1..Len(gateway)
  BY <1>1 DEF TopUps!TypeOK, TopUps!GatewayOrder
<1>3. PICK kind \in TopUps!Kinds :
        /\ emitted' = emitted \cup {[gateway |-> g, kind |-> kind]}
        /\ UNCHANGED <<orders, credits, known, events, create, verify, handler, crashes>>
        /\ \/ kind = "failed" /\ UNCHANGED gateway
           \/ kind = "authorized" /\ gateway[g].paid = "created"
                /\ gateway' = [gateway EXCEPT ![g].paid = "authorized"]
           \/ kind = "captured" /\ gateway' = [gateway EXCEPT ![g].paid = "captured"]
  BY DEF TopUps!FailAttempt, TopUps!Authorize, TopUps!Capture, TopUps!Emit, TopUps!Kinds
<1>4. /\ gateway' \in Seq(TopUps!GatewayOrder) /\ DOMAIN gateway' = DOMAIN gateway
      /\ Len(gateway') = Len(gateway)
      /\ \A f \in DOMAIN gateway :
           /\ gateway'[f].key = gateway[f].key
           /\ gateway[f].paid = "captured" => gateway'[f].paid = "captured"
      /\ kind = "captured" => gateway'[g].paid = "captured"
  <2>1. CASE kind = "failed" /\ UNCHANGED gateway
    BY <1>2, <2>1
  <2>2. ASSUME NEW paid \in {"authorized", "captured"}, gateway' = [gateway EXCEPT ![g].paid = paid],
               gateway[g].paid = "captured" => paid = "captured",
               kind = "captured" => paid = "captured"
        PROVE  /\ gateway' \in Seq(TopUps!GatewayOrder) /\ DOMAIN gateway' = DOMAIN gateway
               /\ Len(gateway') = Len(gateway)
               /\ \A f \in DOMAIN gateway :
                    /\ gateway'[f].key = gateway[f].key
                    /\ gateway[f].paid = "captured" => gateway'[f].paid = "captured"
               /\ kind = "captured" => gateway'[g].paid = "captured"
    <3>1. \A f \in DOMAIN gateway : gateway[f] \in TopUps!GatewayOrder
      BY <1>2
    <3>2. [gateway[g] EXCEPT !.paid = paid] \in TopUps!GatewayOrder
      BY <1>2, <3>1 DEF TopUps!GatewayOrder
    <3>3. gateway' = [gateway EXCEPT ![g] = [gateway[g] EXCEPT !.paid = paid]]
      BY <2>2
    <3>4. gateway' \in Seq(TopUps!GatewayOrder) /\ DOMAIN gateway' = DOMAIN gateway /\ Len(gateway') = Len(gateway)
      BY <1>2, <3>2, <3>3
    <3>5. \A f \in DOMAIN gateway : gateway'[f] = IF f = g THEN [gateway[g] EXCEPT !.paid = paid] ELSE gateway[f]
      BY <1>2, <3>3
    <3> QED BY <1>2, <2>2, <3>1, <3>4, <3>5 DEF TopUps!GatewayOrder
  <2> QED BY <1>3, <2>1, <2>2
<1>5. TopUps!TypeOK'
  <2>1. [gateway |-> g, kind |-> kind] \in TopUps!Event
    <3>1. Len(gateway) <= MaxCalls
      BY <1>1 DEF TopUps!CallsBounded
    <3> QED BY <1>2, <1>3, <3>1 DEF TopUps!Event, TopUps!Parameters
  <2>2. emitted' \subseteq TopUps!Event
    BY <1>1, <1>3, <2>1 DEF TopUps!TypeOK
  <2>3. handler' \in [Handlers -> {TopUps!Idle} \cup [phase : {"recorded", "handled"}, event : emitted']]
    BY <1>1, <1>3 DEF TopUps!TypeOK
  <2> QED BY <1>1, <1>3, <1>4, <2>2, <2>3 DEF TopUps!TypeOK, TopUps!GatewayOrder
<1>6. TopUps!OrdersKnowTheirs'
  BY <1>1, <1>3, <1>4 DEF TopUps!OrdersKnowTheirs
<1>7. TopUps!AnnouncedIsTrue'
  <2>1. \A k \in TopUpKeys : TopUps!Paid(k) => TopUps!Paid(k)'
    BY <1>4 DEF TopUps!Paid
  <2>2. \A e \in emitted' : /\ e.gateway \in DOMAIN gateway'
                            /\ e.kind = "captured" => gateway'[e.gateway].paid = "captured"
    BY <1>1, <1>2, <1>3, <1>4 DEF TopUps!AnnouncedIsTrue
  <2> QED BY <1>1, <1>3, <2>1, <2>2 DEF TopUps!AnnouncedIsTrue
<1>8. TopUps!SuccessIsCredited'
  <2>1. \A h \in Handlers : handler[h].phase = "handled" => handler[h].event \in emitted
    BY <1>1, HandlerEvent
  <2> QED BY <1>1, <1>3, <1>4, <2>1 DEF TopUps!SuccessIsCredited, TopUps!AnnouncedIsTrue
<1>9. TopUps!CreditIsPaidFor'
  BY <1>1, <1>3, <1>4 DEF TopUps!CreditIsPaidFor
<1>10. TopUps!AcknowledgedIsCredited'
  <2>1. \A e \in TopUps!Event : events[e] = "PROCESSED" => e.gateway \in DOMAIN gateway
    BY <1>1 DEF TopUps!AnnouncedIsTrue
  <2> QED BY <1>1, <1>3, <1>4, <2>1 DEF TopUps!AcknowledgedIsCredited
<1>11. TopUps!CallsBounded'
  BY <1>1, <1>4 DEF TopUps!CallsBounded
<1> QED BY <1>5, <1>6, <1>7, <1>8, <1>9, <1>10, <1>11 DEF TopUps!TopUpInv

\* Crediting an order whose money was captured.
LEMMA CreditOrderFits ==
  ASSUME TopUps!TypeOK, NEW k \in TopUpKeys, TopUps!CreditOrder(k)
  PROVE  /\ orders' \in [TopUpKeys -> TopUps!OrderRow] /\ credits' = credits \cup {k}
         /\ \A l \in TopUpKeys : /\ orders'[l].gateway = orders[l].gateway
                                 /\ l # k => orders'[l] = orders[l]
<1>1. orders \in [TopUpKeys -> TopUps!OrderRow]
  BY DEF TopUps!TypeOK, TopUps!OrderRow
<1>2. [orders[k] EXCEPT !.status = "SUCCESS", !.gatewayStatus = "captured"] \in TopUps!OrderRow
  BY <1>1 DEF TopUps!OrderRow, TopUps!Statuses, TopUps!Kinds
<1>3. /\ credits' = credits \cup {k}
      /\ orders' = [orders EXCEPT ![k] = [orders[k] EXCEPT !.status = "SUCCESS", !.gatewayStatus = "captured"]]
  BY <1>1 DEF TopUps!CreditOrder
<1> QED BY <1>1, <1>2, <1>3 DEF TopUps!OrderRow

\* A verification begins with a payment the gateway knows.
LEMMA BeginVerifyKeeps ==
  ASSUME TopUps!Parameters, TopUps!TopUpInv, NEW v \in Verifies, TopUps!BeginVerify(v) PROVE TopUps!TopUpInv'
<1>1. TopUps!TypeOK /\ TopUps!OrdersKnowTheirs /\ TopUps!AnnouncedIsTrue
  BY DEF TopUps!TopUpInv
<1>2. PICK g \in known, k \in TopUpKeys :
        k \in TopUps!OrderOf(g) /\ TopUps!VerifiedByGateway(g) /\ verify' = [verify EXCEPT ![v] = k]
  BY DEF TopUps!BeginVerify, TopUps!OrderOf
<1>3. UNCHANGED <<orders, credits, TopUps!client, events, create, handler, crashes>>
  BY DEF TopUps!BeginVerify
<1>4. k \in TopUpKeys /\ TopUps!Paid(k)
  BY <1>1, <1>2 DEF TopUps!OrderOf, TopUps!OrdersKnowTheirs, TopUps!VerifiedByGateway, TopUps!Paid,
     TopUps!TypeOK
<1>5. TopUps!TypeOK'
  <2>1. verify' \in [Verifies -> TopUpKeys \cup {"idle", "done"}]
    BY <1>1, <1>2, <1>4 DEF TopUps!TypeOK
  <2> QED BY <1>1, <1>3, <2>1 DEF TopUps!TypeOK, TopUps!client
<1>6. TopUps!AnnouncedIsTrue'
  <2>1. \A w \in Verifies : verify'[w] = IF w = v THEN k ELSE verify[w]
    BY <1>1, <1>2 DEF TopUps!TypeOK
  <2> QED BY <1>1, <1>3, <1>4, <2>1 DEF TopUps!AnnouncedIsTrue, TopUps!Paid, TopUps!client
<1> QED BY <1>3, <1>5, <1>6 DEF TopUps!TopUpInv, TopUps!CallsBounded, TopUps!OrdersKnowTheirs,
TopUps!SuccessIsCredited,
                              TopUps!CreditIsPaidFor, TopUps!AcknowledgedIsCredited, TopUps!client

\* A verification credits the order the gateway verified.
LEMMA FinishVerifyKeeps ==
  ASSUME TopUps!Parameters, TopUps!TopUpInv, NEW v \in Verifies, TopUps!FinishVerify(v) PROVE TopUps!TopUpInv'
<1> DEFINE k == verify[v]
<1>1. /\ TopUps!TypeOK /\ TopUps!CallsBounded /\ TopUps!OrdersKnowTheirs /\ TopUps!AnnouncedIsTrue /\ TopUps!SuccessIsCredited
      /\ TopUps!CreditIsPaidFor /\ TopUps!AcknowledgedIsCredited
  BY DEF TopUps!TopUpInv
<1>2. /\ k \in TopUpKeys /\ verify' = [verify EXCEPT ![v] = "done"]
      /\ TopUps!CreditOrder(k) \/ UNCHANGED <<orders, credits>>
      /\ UNCHANGED <<TopUps!client, events, create, handler, crashes>>
  BY DEF TopUps!FinishVerify
<1>3. TopUps!Paid(k)
  BY <1>1, <1>2 DEF TopUps!AnnouncedIsTrue
<1> HIDE DEF k
<1>4. /\ orders' \in [TopUpKeys -> TopUps!OrderRow]
      /\ credits \subseteq credits' /\ credits' \subseteq credits \cup {k}
      /\ \A l \in TopUpKeys : /\ orders'[l].gateway = orders[l].gateway
                              /\ orders'[l] = orders[l] \/ l \in credits'
  <2>1. CASE UNCHANGED <<orders, credits>>
    BY <1>1, <2>1 DEF TopUps!TypeOK, TopUps!OrderRow
  <2>2. CASE TopUps!CreditOrder(k)
    BY <1>1, <1>2, <2>2, CreditOrderFits
  <2> QED BY <1>2, <2>1, <2>2
<1>5. TopUps!TypeOK'
  <2>1. verify' \in [Verifies -> TopUpKeys \cup {"idle", "done"}]
    BY <1>1, <1>2 DEF TopUps!TypeOK
  <2> QED BY <1>1, <1>2, <1>4, <2>1 DEF TopUps!TypeOK, TopUps!OrderRow, TopUps!client
<1>6. TopUps!OrdersKnowTheirs'
  BY <1>1, <1>2, <1>4 DEF TopUps!OrdersKnowTheirs, TopUps!client
<1>7. TopUps!AnnouncedIsTrue'
  <2>1. \A w \in Verifies : verify'[w] = IF w = v THEN "done" ELSE verify[w]
    BY <1>1, <1>2 DEF TopUps!TypeOK
  <2>2. "done" \notin TopUpKeys
    BY DEF TopUps!Parameters
  <2> QED BY <1>1, <1>2, <2>1, <2>2 DEF TopUps!AnnouncedIsTrue, TopUps!Paid, TopUps!client
<1>8. TopUps!SuccessIsCredited'
  BY <1>1, <1>2, <1>4 DEF TopUps!SuccessIsCredited, TopUps!client
<1>9. TopUps!CreditIsPaidFor'
  BY <1>1, <1>2, <1>3, <1>4 DEF TopUps!CreditIsPaidFor, TopUps!Paid, TopUps!client
<1>10. TopUps!AcknowledgedIsCredited' /\ TopUps!CallsBounded'
  BY <1>1, <1>2, <1>4 DEF TopUps!AcknowledgedIsCredited, TopUps!CallsBounded, TopUps!client
<1> QED BY <1>5, <1>6, <1>7, <1>8, <1>9, <1>10 DEF TopUps!TopUpInv

\* Steps of a handler that leave the tables alone, but for the event's status.
LEMMA DeliverKeeps ==
  ASSUME TopUps!Parameters, TopUps!TopUpInv, NEW h \in Handlers, NEW e \in TopUps!Event, TopUps!Deliver(h, e) PROVE TopUps!TopUpInv'
<1> DEFINE at == [phase |-> "recorded", event |-> e]
<1>1. /\ TopUps!TypeOK /\ TopUps!CallsBounded /\ TopUps!OrdersKnowTheirs /\ TopUps!AnnouncedIsTrue /\ TopUps!SuccessIsCredited
      /\ TopUps!CreditIsPaidFor /\ TopUps!AcknowledgedIsCredited
  BY DEF TopUps!TopUpInv
<1>2. /\ e \in emitted /\ events' = [events EXCEPT ![e] = "PENDING"]
      /\ handler' = [handler EXCEPT ![h] = at]
      /\ UNCHANGED <<orders, credits, TopUps!client, create, verify, crashes>>
  BY DEF TopUps!Deliver
<1>3. /\ \A i \in Handlers : handler'[i] = handler[i] \/ handler'[i] = at
      /\ \A f \in TopUps!Event : events'[f] = IF f = e THEN "PENDING" ELSE events[f]
      /\ events' \in [TopUps!Event -> {"NONE", "PENDING", "PROCESSED"}]
  BY <1>1, <1>2 DEF TopUps!TypeOK
<1>4. TopUps!TypeOK'
  <2>1. handler' \in [Handlers -> {TopUps!Idle} \cup [phase : {"recorded", "handled"}, event : emitted']]
    BY <1>1, <1>2 DEF TopUps!TypeOK, TopUps!client
  <2> QED BY <1>1, <1>2, <1>3, <2>1 DEF TopUps!TypeOK, TopUps!client
<1>5. TopUps!SuccessIsCredited'
  BY <1>1, <1>2, <1>3 DEF TopUps!SuccessIsCredited, TopUps!client
<1>6. TopUps!AnnouncedIsTrue' /\ TopUps!AcknowledgedIsCredited'
  BY <1>1, <1>2, <1>3
  DEF TopUps!AnnouncedIsTrue, TopUps!Paid, TopUps!AcknowledgedIsCredited, TopUps!client
<1> QED BY <1>1, <1>2, <1>4, <1>5, <1>6
        DEF TopUps!TopUpInv, TopUps!CallsBounded, TopUps!OrdersKnowTheirs, TopUps!CreditIsPaidFor,
            TopUps!client

\* A handler that is through, in one transaction with its writes.
LEMMA HandledKeeps ==
  ASSUME TopUps!Parameters, TopUps!TopUpInv, NEW h \in Handlers, handler[h].phase = "recorded",
         handler' = [handler EXCEPT ![h].phase = "handled"] \/ handler' = [handler EXCEPT ![h] = TopUps!Idle],
         UNCHANGED <<TopUps!client, events, create, verify, crashes>>,
         orders' \in [TopUpKeys -> TopUps!OrderRow], credits \subseteq credits', credits' \subseteq TopUpKeys,
         \A k \in credits' \ credits : TopUps!Paid(k),
         \A k \in TopUpKeys : /\ orders'[k].gateway = orders[k].gateway
                              /\ orders'[k].status = "SUCCESS" => orders[k].status = "SUCCESS" \/ k \in credits',
         handler'[h].phase = "handled" /\ handler[h].event.kind = "captured" =>
           gateway[handler[h].event.gateway].key \in credits'
  PROVE  TopUps!TopUpInv'
<1>1. /\ TopUps!TypeOK /\ TopUps!CallsBounded /\ TopUps!OrdersKnowTheirs /\ TopUps!AnnouncedIsTrue /\ TopUps!SuccessIsCredited
      /\ TopUps!CreditIsPaidFor /\ TopUps!AcknowledgedIsCredited
  BY DEF TopUps!TopUpInv
<1>2. handler[h].event \in emitted /\ handler[h] \in [phase : {"recorded", "handled"}, event : emitted]
  BY <1>1 DEF TopUps!TypeOK, TopUps!Idle
<1>3. /\ handler' \in [Handlers -> {TopUps!Idle} \cup [phase : {"recorded", "handled"}, event : emitted]]
      /\ \A i \in Handlers : i # h => handler'[i] = handler[i]
      /\ handler'[h] = TopUps!Idle \/ /\ handler'[h] \in [phase : {"recorded", "handled"}, event : emitted]
                                      /\ handler'[h].event = handler[h].event
                                      /\ handler'[h].phase = "handled"
  <2>1. handler \in [Handlers -> {TopUps!Idle} \cup [phase : {"recorded", "handled"}, event : emitted]]
    BY <1>1 DEF TopUps!TypeOK
  <2>2. CASE handler' = [handler EXCEPT ![h] = TopUps!Idle]
    BY <2>1, <2>2
  <2>3. CASE handler' = [handler EXCEPT ![h].phase = "handled"]
    <3> DEFINE through == [handler[h] EXCEPT !.phase = "handled"]
    <3>1. /\ through \in [phase : {"recorded", "handled"}, event : emitted]
          /\ through.event = handler[h].event /\ through.phase = "handled"
      BY <1>2
    <3>2. handler' = [handler EXCEPT ![h] = through]
      BY <2>3
    <3> HIDE DEF through
    <3> QED BY <2>1, <3>1, <3>2
  <2> QED BY <2>2, <2>3
<1>4. TopUps!TypeOK'
  <2>1. handler' \in [Handlers -> {TopUps!Idle} \cup [phase : {"recorded", "handled"}, event : emitted']]
    BY <1>1, <1>3 DEF TopUps!TypeOK, TopUps!client
  <2> QED BY <1>1, <2>1 DEF TopUps!TypeOK, TopUps!OrderRow, TopUps!client
<1>5. TopUps!SuccessIsCredited'
  BY <1>1, <1>3 DEF TopUps!SuccessIsCredited, TopUps!Idle, TopUps!client
<1>6. TopUps!CreditIsPaidFor'
  BY <1>1 DEF TopUps!CreditIsPaidFor, TopUps!Paid, TopUps!client
<1> QED BY <1>1, <1>4, <1>5, <1>6
        DEF TopUps!TopUpInv, TopUps!CallsBounded, TopUps!OrdersKnowTheirs, TopUps!AnnouncedIsTrue,
            TopUps!Paid, TopUps!AcknowledgedIsCredited, TopUps!client

\* A webhook handler works on the event it was sent.
LEMMA HandleKeeps == ASSUME TopUps!Parameters, TopUps!TopUpInv, NEW h \in Handlers, TopUps!Handle(h) PROVE TopUps!TopUpInv'
<1> DEFINE g == handler[h].event.gateway
<1>1. TopUps!TypeOK /\ TopUps!OrdersKnowTheirs /\ TopUps!AnnouncedIsTrue /\ TopUps!SuccessIsCredited
  BY DEF TopUps!TopUpInv
<1>2. orders \in [TopUpKeys -> TopUps!OrderRow] /\ credits \subseteq TopUpKeys
  BY <1>1 DEF TopUps!TypeOK, TopUps!OrderRow
<1>3. handler[h].phase = "recorded"
  BY DEF TopUps!Handle, TopUps!HandleAuthorized, TopUps!HandleFailed, TopUps!HandleCaptured,
     TopUps!Working
<1>4. handler[h].event \in emitted
  BY <1>1, <1>3, HandlerEvent
<1>5. CASE TopUps!HandleAuthorized(h)
  <2>1. /\ handler' = [handler EXCEPT ![h].phase = "handled"] /\ handler[h].event.kind = "authorized"
        /\ UNCHANGED <<credits, TopUps!client, events, create, verify, crashes>>
        /\ orders' = [k \in TopUpKeys |-> IF k \in TopUps!OrderOf(g)
                        THEN [orders[k] EXCEPT !.gatewayStatus = "authorized"] ELSE orders[k]]
    BY <1>5 DEF TopUps!HandleAuthorized, TopUps!HandlerGoesTo, TopUps!Working
  <2>2. /\ orders' \in [TopUpKeys -> TopUps!OrderRow]
        /\ \A k \in TopUpKeys : orders'[k].gateway = orders[k].gateway /\ orders'[k].status = orders[k].status
    BY <1>2, <2>1 DEF TopUps!OrderRow, TopUps!Kinds
  <2> QED BY <1>2, <1>3, <2>1, <2>2, HandledKeeps
<1>6. CASE TopUps!HandleFailed(h)
  <2>1. /\ handler' = [handler EXCEPT ![h].phase = "handled"] /\ handler[h].event.kind = "failed"
        /\ UNCHANGED <<credits, TopUps!client, events, create, verify, crashes>>
        /\ orders' = [k \in TopUpKeys |-> IF k \in TopUps!OrderOf(g) /\ orders[k].status = "PENDING"
                        THEN [orders[k] EXCEPT !.status = "FAILED", !.gatewayStatus = "failed"] ELSE orders[k]]
    BY <1>6 DEF TopUps!HandleFailed, TopUps!HandlerGoesTo, TopUps!Working
  <2>2. /\ orders' \in [TopUpKeys -> TopUps!OrderRow]
        /\ \A k \in TopUpKeys : /\ orders'[k].gateway = orders[k].gateway
                                /\ orders'[k].status = "SUCCESS" => orders[k].status = "SUCCESS"
    BY <1>2, <2>1 DEF TopUps!OrderRow, TopUps!Kinds, TopUps!Statuses
  <2> QED BY <1>2, <1>3, <2>1, <2>2, HandledKeeps
<1>7. CASE TopUps!HandleCaptured(h)
  <2>1. /\ handler[h].event.kind = "captured" /\ UNCHANGED <<TopUps!client, events, create, verify, crashes>>
        /\ \/ /\ \E k \in TopUps!OrderOf(g) : TopUps!CreditOrder(k)
              /\ handler' = [handler EXCEPT ![h].phase = "handled"]
           \/ /\ \E k \in TopUps!OrderOf(g) : orders[k].status = "SUCCESS"
              /\ handler' = [handler EXCEPT ![h].phase = "handled"] /\ UNCHANGED <<orders, credits>>
           \/ handler' = [handler EXCEPT ![h] = TopUps!Idle] /\ UNCHANGED <<orders, credits>>
    BY <1>7 DEF TopUps!HandleCaptured, TopUps!HandlerGoesTo, TopUps!Working
  <2>2. \A k \in TopUps!OrderOf(g) : k \in TopUpKeys /\ gateway[g].key = k /\ TopUps!Paid(k)
    BY <1>1, <1>4, <2>1
    DEF TopUps!OrderOf, TopUps!OrdersKnowTheirs, TopUps!AnnouncedIsTrue, TopUps!Paid
  <2>3. ASSUME NEW k \in TopUps!OrderOf(g), TopUps!CreditOrder(k), handler' = [handler EXCEPT ![h].phase = "handled"]
        PROVE  TopUps!TopUpInv'
    <3>1. /\ orders' \in [TopUpKeys -> TopUps!OrderRow] /\ credits' = credits \cup {k}
          /\ \A l \in TopUpKeys : /\ orders'[l].gateway = orders[l].gateway
                                  /\ l # k => orders'[l] = orders[l]
      BY <1>1, <2>2, <2>3, CreditOrderFits
    <3> QED BY <1>2, <1>3, <2>1, <2>2, <2>3, <3>1, HandledKeeps
  <2>4. ASSUME NEW k \in TopUps!OrderOf(g), orders[k].status = "SUCCESS", UNCHANGED <<orders, credits>>,
               handler' = [handler EXCEPT ![h].phase = "handled"]
        PROVE  TopUps!TopUpInv'
    <3>1. gateway[g].key \in credits
      BY <1>1, <2>2, <2>4 DEF TopUps!SuccessIsCredited
    <3> QED BY <1>2, <1>3, <2>1, <2>4, <3>1, HandledKeeps
  <2>5. CASE handler' = [handler EXCEPT ![h] = TopUps!Idle] /\ UNCHANGED <<orders, credits>>
    <3>1. handler'[h].phase # "handled"
      BY <1>1, <2>5 DEF TopUps!TypeOK, TopUps!Idle
    <3> QED BY <1>2, <1>3, <2>1, <2>5, <3>1, HandledKeeps
  <2> QED BY <2>1, <2>3, <2>4, <2>5
<1> QED BY <1>5, <1>6, <1>7 DEF TopUps!Handle

\* Marking an event processed is the last of a handler; a crash only forgets.
LEMMA LeavingKeeps ==
  ASSUME TopUps!Parameters, TopUps!TopUpInv, NEW h \in Handlers, TopUps!Acknowledge(h) \/ TopUps!Crash(h) PROVE TopUps!TopUpInv'
<1>1. /\ TopUps!TypeOK /\ TopUps!CallsBounded /\ TopUps!OrdersKnowTheirs /\ TopUps!AnnouncedIsTrue /\ TopUps!SuccessIsCredited
      /\ TopUps!CreditIsPaidFor /\ TopUps!AcknowledgedIsCredited
  BY DEF TopUps!TopUpInv
<1>2. /\ handler' = [handler EXCEPT ![h] = TopUps!Idle]
      /\ UNCHANGED <<orders, credits, TopUps!client, create, verify>>
      /\ crashes' \in {crashes, crashes + 1} /\ (crashes' # crashes => crashes < MaxCrashes)
      /\ \/ UNCHANGED events
         \/ handler[h].phase = "handled" /\ events' = [events EXCEPT ![handler[h].event] = "PROCESSED"]
  BY DEF TopUps!Acknowledge, TopUps!Crash
<1>3. /\ handler' \in [Handlers -> {TopUps!Idle} \cup [phase : {"recorded", "handled"}, event : emitted']]
      /\ \A i \in Handlers : handler'[i] = handler[i] \/ handler'[i] = TopUps!Idle
  BY <1>1, <1>2 DEF TopUps!TypeOK, TopUps!client
<1>4. /\ events' \in [TopUps!Event -> {"NONE", "PENDING", "PROCESSED"}]
      /\ \A e \in TopUps!Event : \/ events'[e] = events[e]
                                 \/ /\ e \in emitted
                                    /\ e.kind = "captured" => gateway[e.gateway].key \in credits
  <2>1. CASE UNCHANGED events
    BY <1>1, <2>1 DEF TopUps!TypeOK
  <2>2. CASE handler[h].phase = "handled" /\ events' = [events EXCEPT ![handler[h].event] = "PROCESSED"]
    <3>1. handler[h].event \in emitted /\ handler[h].event \in TopUps!Event
      BY <1>1, <2>2, HandlerEvent
    <3>2. handler[h].event.kind = "captured" => gateway[handler[h].event.gateway].key \in credits
      BY <1>1, <2>2 DEF TopUps!SuccessIsCredited
    <3> QED BY <1>1, <2>2, <3>1, <3>2 DEF TopUps!TypeOK
  <2> QED BY <1>2, <2>1, <2>2
<1>5. crashes' \in 0..MaxCrashes
  BY <1>1, <1>2 DEF TopUps!TypeOK, TopUps!Parameters
<1>6. TopUps!TypeOK'
  BY <1>1, <1>2, <1>3, <1>4, <1>5 DEF TopUps!TypeOK, TopUps!client
<1>7. TopUps!AnnouncedIsTrue' /\ TopUps!AcknowledgedIsCredited'
  BY <1>1, <1>2, <1>4
  DEF TopUps!AnnouncedIsTrue, TopUps!Paid, TopUps!AcknowledgedIsCredited, TopUps!client
<1>8. TopUps!SuccessIsCredited'
  BY <1>1, <1>2, <1>3 DEF TopUps!SuccessIsCredited, TopUps!Idle, TopUps!client
<1> QED BY <1>1, <1>2, <1>6, <1>7, <1>8
        DEF TopUps!TopUpInv, TopUps!CallsBounded, TopUps!OrdersKnowTheirs, TopUps!CreditIsPaidFor,
            TopUps!client

\* Every step of Next, or none, keeps the invariant.
LEMMA StepKeepsTopUpInv == ASSUME TopUps!Parameters, TopUps!TopUpInv, [TopUps!Next]_(TopUps!vars) PROVE TopUps!TopUpInv'
<1>1. CASE UNCHANGED TopUps!vars \/ TopUps!Quiescent
  <2>1. UNCHANGED <<orders, credits, gateway, known, emitted, events, create, verify, handler, crashes>>
    BY <1>1 DEF TopUps!vars, TopUps!client, TopUps!Quiescent
  <2>2. TopUps!TypeOK' /\ TopUps!OrdersKnowTheirs'
    BY <2>1 DEF TopUps!TopUpInv, TopUps!TypeOK, TopUps!OrdersKnowTheirs
  <2> QED BY <2>1, <2>2, RowsKeepInv
<1>2. ASSUME NEW c \in Creates, TopUps!CreateStep(c) PROVE TopUps!TopUpInv'
  BY <1>2, LookUpKeeps, InsertOrderKeeps, CallGatewayKeeps, FailureKeeps, RecordOrderKeeps
  DEF TopUps!CreateStep
<1>3. CASE TopUps!Pay
  BY <1>3, PayKeeps DEF TopUps!Pay
<1>4. ASSUME NEW v \in Verifies, TopUps!BeginVerify(v) \/ TopUps!FinishVerify(v) PROVE TopUps!TopUpInv'
  BY <1>4, BeginVerifyKeeps, FinishVerifyKeeps
<1>5. ASSUME NEW h \in Handlers, TopUps!Webhook(h) \/ TopUps!Crash(h) PROVE TopUps!TopUpInv'
  BY <1>5, DeliverKeeps, HandleKeeps, LeavingKeeps DEF TopUps!Webhook
<1> QED BY <1>1, <1>2, <1>3, <1>4, <1>5 DEF TopUps!Next

\* Every table and process stays in one of its states.
THEOREM TopUpsTyped == ASSUME TopUps!Parameters PROVE TopUps!Spec => []TopUps!TypeOK
<1>1. TopUps!Init => TopUps!TopUpInv
  BY InitTopUpInv
<1>2. TopUps!TopUpInv /\ [TopUps!Next]_(TopUps!vars) => TopUps!TopUpInv'
  BY StepKeepsTopUpInv
<1>3. TopUps!TopUpInv => TopUps!TypeOK
  BY DEF TopUps!TopUpInv
<1> QED BY <1>1, <1>2, <1>3, PTL DEF TopUps!Spec

\* top-up.service.ts, creditVerifiedPayment: whoever credits an order, the
\* client's verify call or a webhook, repeated, delayed or after a crash, the
\* gateway had captured money for it.
THEOREM CreditsArePaidFor == ASSUME TopUps!Parameters PROVE TopUps!Spec => []TopUps!CreditIsPaidFor
<1>1. TopUps!Init => TopUps!TopUpInv
  BY InitTopUpInv
<1>2. TopUps!TopUpInv /\ [TopUps!Next]_(TopUps!vars) => TopUps!TopUpInv'
  BY StepKeepsTopUpInv
<1>3. TopUps!TopUpInv => TopUps!CreditIsPaidFor
  BY DEF TopUps!TopUpInv
<1> QED BY <1>1, <1>2, <1>3, PTL DEF TopUps!Spec

\* top-up.service.ts, processGatewayWebhook: a capture is marked PROCESSED,
\* and is never delivered again, only after its order was credited.
THEOREM AcknowledgedAreCredited == ASSUME TopUps!Parameters PROVE TopUps!Spec => []TopUps!AcknowledgedIsCredited
<1>1. TopUps!Init => TopUps!TopUpInv
  BY InitTopUpInv
<1>2. TopUps!TopUpInv /\ [TopUps!Next]_(TopUps!vars) => TopUps!TopUpInv'
  BY StepKeepsTopUpInv
<1>3. TopUps!TopUpInv => TopUps!AcknowledgedIsCredited
  BY DEF TopUps!TopUpInv
<1> QED BY <1>1, <1>2, <1>3, PTL DEF TopUps!Spec

-----------------------------------------------------------------------------
(* Withdrawals, top-ups and the seed as the runs compose them: one of them *)
(* takes steps and the other two stay as they were.                        *)

\* A step of the composition is a step of its parts, each of which may stay.
LEMMA MoneyStep ==
  [MoneyNext]_<<direction, vars, topUpVars, seedVars>> =>
    /\ [Next]_vars /\ [TopUps!Next]_(TopUps!vars) /\ [Seed!Next]_(Seed!vars)
BY DEF MoneyNext, topUpVars, seedVars, TopUps!vars, TopUps!client, Seed!vars

\* top-up.service.ts and platform-wallet.service.ts: a top-up is credited only
\* for money the gateway captured for its own order, and the platform's opening
\* float is credited once, to a wallet without a history.
THEOREM MoneyIsPaidFor == MoneySpec => []CreditIsPaidFor
<1> DEFINE Inv == TopUps!TopUpInv /\ Seed!SeedInv
<1>1. MoneyInit => Inv
  BY MoneyParameters, InitTopUpInv, InitSeedInv DEF MoneyInit
<1>2. Inv /\ [MoneyNext]_<<direction, vars, topUpVars, seedVars>> => Inv'
  BY MoneyParameters, MoneyStep, StepKeepsTopUpInv, StepKeepsSeedInv
<1>3. Inv => CreditIsPaidFor
  BY DEF TopUps!TopUpInv, Seed!SeedInv, CreditIsPaidFor
<1> HIDE DEF Inv
<1> QED BY <1>1, <1>2, <1>3, PTL DEF MoneySpec

\* top-up.service.ts, processGatewayWebhook: as it runs beside the others.
THEOREM MoneyIsAcknowledged == MoneySpec => []AcknowledgedIsCredited
<1>1. MoneyInit => TopUps!TopUpInv
  BY MoneyParameters, InitTopUpInv DEF MoneyInit
<1>2. TopUps!TopUpInv /\ [MoneyNext]_<<direction, vars, topUpVars, seedVars>> => TopUps!TopUpInv'
  BY MoneyParameters, MoneyStep, StepKeepsTopUpInv
<1>3. TopUps!TopUpInv => AcknowledgedIsCredited
  BY DEF TopUps!TopUpInv, AcknowledgedIsCredited
<1> QED BY <1>1, <1>2, <1>3, PTL DEF MoneySpec

=============================================================================
