---------------------------- MODULE Withdrawals ----------------------------
(***************************************************************************)
(* Manual withdrawals: src/src/wallet/withdrawal.service.ts, with the      *)
(* removal of payment methods in payment-method.service.ts.                *)
(*                                                                         *)
(* A user's request validates (key lookup, payment method), inserts the    *)
(* withdrawal (where the unique index on user and key makes a racing       *)
(* request wait) and reserves the points; an admin moves the withdrawal    *)
(* along its statuses under its row lock; a user removes payment methods   *)
(* without any lock.  WalletLedger models what the hold does inside the    *)
(* wallet; here a wallet is its withdrawable points and its held points.   *)
(***************************************************************************)
EXTENDS Integers, Sequences, FiniteSets

CONSTANTS Users,      \* drivers with earnings
          Methods,    \* their payout methods
          Requests,   \* withdrawal requests users send
          Request,    \* user, idempotency key, amount and method of each
          Admins,     \* admins handling withdrawals at the same time
          Removals,   \* DELETE requests on payment methods
          MaxIncome,  \* bound: points a user earns at most
          MaxAborts   \* bound: failed transactions

Keys == {Request[r].key : r \in Requests}

ASSUME WithdrawalsAssumption ==
  /\ MaxIncome \in Nat /\ MaxAborts \in Nat
  /\ "none" \notin Methods
  /\ \A r \in Requests : /\ Request[r].user \in Users
                         /\ Request[r].method \in Methods
                         /\ Request[r].amount \in Nat \ {0}

VARIABLES earned,      \* user |-> DRIVER_EARNED points available
          reserved,    \* user |-> DRIVER_EARNED points held
          income,      \* user |-> points credited less points spent elsewhere
          withdrawals, \* the withdrawals table, each row with its hold's status
          history,     \* withdrawal_status_history
          methods,     \* payment method |-> its row
          pc,          \* request |-> where it stands
          admin,       \* admin |-> the status change it has begun
          removal,     \* DELETE request |-> what it has found
          aborts

wallet == <<earned, reserved, income>>
vars == <<wallet, withdrawals, history, methods, pc, admin, removal, aborts>>

NoUpdate == [withdrawal |-> 0, from |-> "none", to |-> "none"]
NoRemoval == [method |-> "none", used |-> FALSE]

Init ==
  /\ earned = [u \in Users |-> 0]
  /\ reserved = [u \in Users |-> 0]
  /\ income = [u \in Users |-> 0]
  /\ withdrawals = <<>>
  /\ history = <<>>
  /\ methods = [m \in Methods |-> "ACTIVE"]
  /\ pc = [r \in Requests |-> "idle"]
  /\ admin = [a \in Admins |-> NoUpdate]
  /\ removal = [d \in Removals |-> NoRemoval]
  /\ aborts = 0

-----------------------------------------------------------------------------
(* A user asks for a payout.                                               *)

\* The withdrawal this user already has under this key.
Original(r) ==
  {w \in DOMAIN withdrawals : /\ withdrawals[w].user = Request[r].user
                              /\ withdrawals[w].key = Request[r].key}

\* Mutant: a repeated key is answered whatever was asked for.
MatchesAnything(w, r) == TRUE

\* assertIdempotentMatch; a method that was deleted since matches any.
IdempotentMatch(w, r) ==
  /\ withdrawals[w].amount = Request[r].amount
  /\ withdrawals[w].method \in {"none", Request[r].method}

AnswerOriginal(r) ==
  \E w \in Original(r) :
    pc' = [pc EXCEPT ![r] = IF IdempotentMatch(w, r) THEN "original" ELSE "conflict"]

\* The lookups before anything is written: key, then payment method.
Validate(r) ==
  /\ pc[r] = "idle"
  /\ UNCHANGED <<wallet, withdrawals, history, methods, admin, removal, aborts>>
  /\ \/ AnswerOriginal(r)
     \/ /\ Original(r) = {}
        /\ pc' = [pc EXCEPT ![r] =
                    IF methods[Request[r].method] = "ACTIVE" THEN "validated" ELSE "refused"]

SameKey(q, r) == Request[q].user = Request[r].user /\ Request[q].key = Request[r].key

\* The unique index makes the insert wait for a racing insert of the key to
\* commit or roll back; the loser is answered with the winner's withdrawal.
\* The foreign key refuses a method that is gone.
Insert(r) ==
  /\ pc[r] = "validated"
  /\ ~ \E q \in Requests \ {r} : pc[q] = "inserted" /\ SameKey(q, r)
  /\ UNCHANGED <<wallet, withdrawals, history, methods, admin, removal, aborts>>
  /\ \/ AnswerOriginal(r)
     \/ /\ Original(r) = {}
        /\ pc' = [pc EXCEPT ![r] =
                    IF methods[Request[r].method] = "DELETED" THEN "refused" ELSE "inserted"]

Covered(r) == earned[Request[r].user] >= Request[r].amount

SetAside(u, amount) ==
  /\ earned' = [earned EXCEPT ![u] = @ - amount]
  /\ reserved' = [reserved EXCEPT ![u] = @ + amount]

\* Under the balance lock: the hold is placed and the transaction commits, or
\* the balance does not suffice and everything rolls back.
Reserve(r) ==
  /\ pc[r] = "inserted"
  /\ UNCHANGED <<income, history, methods, admin, removal, aborts>>
  /\ \/ /\ ~ Covered(r)
        /\ pc' = [pc EXCEPT ![r] = "refused"]
        /\ UNCHANGED <<earned, reserved, withdrawals>>
     \/ /\ Covered(r)
        /\ SetAside(Request[r].user, Request[r].amount)
        /\ withdrawals' = Append(withdrawals,
             [user |-> Request[r].user, key |-> Request[r].key,
              amount |-> Request[r].amount, method |-> Request[r].method,
              status |-> "INITIATED", hold |-> "ACTIVE"])
        /\ pc' = [pc EXCEPT ![r] = "created"]

\* The transaction fails before it commits; the client sends the key again.
Abort(r) ==
  /\ pc[r] \in {"validated", "inserted"}
  /\ aborts < MaxAborts
  /\ aborts' = aborts + 1
  /\ pc' = [pc EXCEPT ![r] = "idle"]
  /\ UNCHANGED <<wallet, withdrawals, history, methods, admin, removal>>

-----------------------------------------------------------------------------
(* An admin changes a status.                                              *)

AllowedTransitions(status) ==
  CASE status = "INITIATED" -> {"PROCESSING", "FAILED", "CANCELLED"}
    [] status = "PROCESSING" -> {"COMPLETED", "FAILED", "CANCELLED"}
    [] OTHER -> {}

\* Mutant: the withdrawal is read without FOR UPDATE.
NeverLocked(w) == FALSE

WithdrawalLocked(w) == \E a \in Admins : admin[a].withdrawal = w

\* SELECT the withdrawal FOR UPDATE and check the transition.
BeginUpdate(a) ==
  /\ admin[a] = NoUpdate
  /\ \E w \in DOMAIN withdrawals :
       /\ ~ WithdrawalLocked(w)
       /\ \E to \in AllowedTransitions(withdrawals[w].status) :
            admin' = [admin EXCEPT ![a] =
                        [withdrawal |-> w, from |-> withdrawals[w].status, to |-> to]]
  /\ UNCHANGED <<wallet, withdrawals, history, methods, pc, removal, aborts>>

Returns(status) == status \in {"FAILED", "CANCELLED"}

\* Mutant: only a failed payout gives its points back.
HoldAfterForgetful(hold, to) ==
  IF hold = "ACTIVE" /\ to = "COMPLETED" THEN "CONSUMED"
  ELSE IF hold = "ACTIVE" /\ to = "FAILED" THEN "RELEASED" ELSE hold

\* The hold is consumed or released, unless it already ended that way.
HoldAfter(hold, to) ==
  IF hold = "ACTIVE" /\ to = "COMPLETED" THEN "CONSUMED"
  ELSE IF hold = "ACTIVE" /\ Returns(to) THEN "RELEASED" ELSE hold

\* A hold that ended the other way rolls the status change back.
HoldRefuses(hold, to) ==
  (hold = "RELEASED" /\ to = "COMPLETED") \/ (hold = "CONSUMED" /\ Returns(to))

CommitUpdate(a) ==
  LET w == admin[a].withdrawal
      to == admin[a].to
      row == withdrawals[w]
      ended == HoldAfter(row.hold, to)
  IN
  /\ w # 0
  /\ ~ HoldRefuses(row.hold, to)
  /\ withdrawals' = [withdrawals EXCEPT ![w] =
                       [user |-> row.user, key |-> row.key, amount |-> row.amount,
                        method |-> row.method, status |-> to, hold |-> ended]]
  /\ reserved' = IF ended = row.hold THEN reserved
                 ELSE [reserved EXCEPT ![row.user] = @ - row.amount]
  /\ earned' = IF ended = row.hold \/ ended = "CONSUMED" THEN earned
               ELSE [earned EXCEPT ![row.user] = @ + row.amount]
  /\ history' = Append(history, [withdrawal |-> w, from |-> admin[a].from, to |-> to])
  /\ admin' = [admin EXCEPT ![a] = NoUpdate]
  /\ UNCHANGED <<income, methods, pc, removal, aborts>>

\* The status change fails and rolls back.
RollbackUpdate(a) ==
  /\ admin[a] # NoUpdate
  /\ admin' = [admin EXCEPT ![a] = NoUpdate]
  /\ UNCHANGED <<wallet, withdrawals, history, methods, pc, removal, aborts>>

-----------------------------------------------------------------------------
(* A user removes a payment method: two statements, no transaction.        *)

CountUses(d) ==
  /\ removal[d] = NoRemoval
  /\ \E m \in Methods :
       /\ methods[m] = "ACTIVE"
       /\ removal' = [removal EXCEPT ![d] =
                        [method |-> m,
                         used |-> \E w \in DOMAIN withdrawals : withdrawals[w].method = m]]
  /\ UNCHANGED <<wallet, withdrawals, history, methods, pc, admin, aborts>>

\* A method found in use is deactivated.  One found unused is deleted, once no
\* uncommitted insert refers to it, and withdrawals lose the reference (ON
\* DELETE SET NULL).
FinishRemoval(d) ==
  LET m == removal[d].method IN
  /\ m # "none"
  /\ removal' = [removal EXCEPT ![d] = NoRemoval]
  /\ \/ /\ removal[d].used
        /\ methods' = [methods EXCEPT ![m] = "INACTIVE"]
        /\ UNCHANGED withdrawals
     \/ /\ ~ removal[d].used
        /\ ~ \E r \in Requests : pc[r] = "inserted" /\ Request[r].method = m
        /\ methods' = [methods EXCEPT ![m] = "DELETED"]
        /\ withdrawals' = [w \in DOMAIN withdrawals |->
             IF withdrawals[w].method = m THEN [withdrawals[w] EXCEPT !.method = "none"]
             ELSE withdrawals[w]]
  /\ UNCHANGED <<wallet, history, pc, admin, aborts>>

-----------------------------------------------------------------------------
\* Rides credit earnings, bookings spend them; both take the balance lock.
Earn(u) ==
  /\ income[u] < MaxIncome
  /\ earned' = [earned EXCEPT ![u] = @ + 1]
  /\ income' = [income EXCEPT ![u] = @ + 1]
  /\ UNCHANGED <<reserved, withdrawals, history, methods, pc, admin, removal, aborts>>

Spend(u) ==
  /\ earned[u] > 0
  /\ earned' = [earned EXCEPT ![u] = @ - 1]
  /\ income' = [income EXCEPT ![u] = @ - 1]
  /\ UNCHANGED <<reserved, withdrawals, history, methods, pc, admin, removal, aborts>>

Advance(r) == Insert(r) \/ Reserve(r)

Answered == {"created", "original", "conflict", "refused"}

\* Every request is answered or not sent (again), every payout is over.
Quiescent ==
  /\ \A r \in Requests : pc[r] \in Answered \cup {"idle"}
  /\ \A w \in DOMAIN withdrawals : AllowedTransitions(withdrawals[w].status) = {}
  /\ UNCHANGED vars

Next ==
  \/ Quiescent
  \/ \E r \in Requests : Validate(r) \/ Advance(r) \/ Abort(r)
  \/ \E a \in Admins : BeginUpdate(a) \/ CommitUpdate(a) \/ RollbackUpdate(a)
  \/ \E d \in Removals : CountUses(d) \/ FinishRemoval(d)
  \/ \E u \in Users : Earn(u) \/ Spend(u)

\* A request that was let through runs on; clients, admins and other flows need not.
Spec == Init /\ [][Next]_vars

-----------------------------------------------------------------------------
(* Properties.                                                             *)

Statuses == {"INITIATED", "PROCESSING", "COMPLETED", "FAILED", "CANCELLED"}
WithdrawalRow == [user : Users, key : Keys, amount : Nat, method : Methods \cup {"none"},
                  status : Statuses, hold : {"ACTIVE", "CONSUMED", "RELEASED"}]
Update == [withdrawal : Nat, from : Statuses \cup {"none"}, to : Statuses \cup {"none"}]

\* Rows hold values of their columns' types; balances are never negative; an
\* admin works on a withdrawal that exists.
TypeOK ==
  /\ earned \in [Users -> Nat]
  /\ reserved \in [Users -> Int]
  /\ income \in [Users -> Int]
  /\ withdrawals \in Seq(WithdrawalRow)
  /\ history \in Seq([withdrawal : Nat, from : Statuses, to : Statuses])
  /\ methods \in [Methods -> {"ACTIVE", "INACTIVE", "DELETED"}]
  /\ pc \in [Requests -> {"idle", "validated", "inserted"} \cup Answered]
  /\ admin \in [Admins -> Update]
  /\ \A a \in Admins : admin[a] = NoUpdate \/ admin[a].withdrawal \in DOMAIN withdrawals
  /\ removal \in [Removals -> [method : Methods \cup {"none"}, used : BOOLEAN]]
  /\ aborts \in 0..MaxAborts

\* Points are set aside exactly while a payout is open, gone once it is paid
\* and returned once it is not (the reservation table of the wallet docs).
HoldFollowsStatus ==
  \A w \in DOMAIN withdrawals :
    withdrawals[w].hold =
      CASE withdrawals[w].status \in {"INITIATED", "PROCESSING"} -> "ACTIVE"
        [] withdrawals[w].status = "COMPLETED" -> "CONSUMED"
        [] OTHER -> "RELEASED"

\* A request that was answered with a withdrawal got the one it asked for.
AnswerIsWhatWasAsked ==
  \A r \in Requests : pc[r] \in {"created", "original"} =>
    \E w \in Original(r) : withdrawals[w].amount = Request[r].amount

\* The payouts the rest of the backend and the admins see.
PayoutOf(u, k) ==
  IF \E w \in DOMAIN withdrawals : withdrawals[w].user = u /\ withdrawals[w].key = k
  THEN LET row == withdrawals[CHOOSE w \in DOMAIN withdrawals :
                                withdrawals[w].user = u /\ withdrawals[w].key = k]
       IN  [stage |-> row.status, amount |-> row.amount]
  ELSE [stage |-> "NONE", amount |-> 0]

Promise == INSTANCE Payouts WITH
  Amounts <- {Request[r].amount : r \in Requests},
  payouts <- [p \in Users \X Keys |-> PayoutOf(p[1], p[2])]

\* Behind transactions, unique indexes and row locks, a key stands for one
\* payout whose points leave once and return at most once.
ImplementsPayouts == Promise!Spec

=============================================================================
