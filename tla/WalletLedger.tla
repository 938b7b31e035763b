---------------------------- MODULE WalletLedger ----------------------------
(***************************************************************************)
(* The points wallet: src/src/wallet/wallet.service.ts.                    *)
(*                                                                         *)
(* A wallet is one balance row of six buckets (available and held, per     *)
(* point source), the lots the points came in, the holds placed on lots    *)
(* and an append-only ledger whose idempotency_key column is unique.       *)
(* Every operation runs in a database transaction:                         *)
(*                                                                         *)
(*   Begin        looks its idempotency key up (existingBeforeLock)        *)
(*   LockHold     SELECT hold FOR UPDATE (release and consume)             *)
(*   LockBalance  SELECT wallet_balances FOR UPDATE, looks the key up      *)
(*                again, reads the row and plans which lots to touch       *)
(*   Commit...    writes lots, hold, balance row and ledger row; the       *)
(*                unique indexes are decided here                          *)
(*   Abort        any failure before commit: rollback, caller may retry    *)
(*                                                                         *)
(* The balance written at commit is computed from the row read at          *)
(* LockBalance, so that what the row lock protects is in the model.        *)
(***************************************************************************)
EXTENDS Sums, Sequences

CONSTANTS Wallets,    \* wallets of this instance
          Calls,      \* requests the services make on wallets
          Call,       \* the parameters of each request
          MaxAborts   \* how many transactions may fail half way

Sources == {"PROMOTIONAL", "PURCHASED", "DRIVER_EARNED"}
HoldTypes == {"ASSURED_DEPOSIT", "WITHDRAWAL"}
Operations == {"credit", "debit", "hold", "release", "consume"}
Keys == {Call[c].key : c \in Calls}
Refs == {Call[c].ref : c \in Calls}

ASSUME WalletLedgerAssumption ==
  /\ MaxAborts \in Nat
  /\ \A c \in Calls : /\ Call[c].op \in Operations
                      /\ Call[c].wallet \in Wallets
                      /\ Call[c].amount \in Nat \ {0}
                      /\ Call[c].source \in Sources
                      /\ Call[c].type \in HoldTypes

VARIABLES available,  \* wallet |-> source |-> points in the available bucket
          held,       \* wallet |-> source |-> points in the held bucket
          lots,       \* wallet |-> its point lots, oldest first
          holds,      \* wallet_holds with their allocations, oldest first
          ledger,     \* wallet_transactions, oldest first
          pc,         \* where the transaction of a request stands
          target,     \* the hold a release or consume is called for
          seen,       \* the balance row as the transaction read it
          take,       \* lot |-> points the transaction moves
          aborts      \* transactions that failed so far

rows == <<available, held, lots, holds, ledger>>
locals == <<target, seen, take>>
vars == <<rows, pc, locals, aborts>>

-----------------------------------------------------------------------------
(* Reading the tables.                                                     *)

KeyPosted(k) == \E r \in DOMAIN ledger : ledger[r].key = k

BucketTotal(bucket) ==
  bucket["PROMOTIONAL"] + bucket["PURCHASED"] + bucket["DRIVER_EARNED"]

TotalBalance(row) == BucketTotal(row.available) + BucketTotal(row.held)

\* An allocation says nothing of the lots created after it.
Taken(t, i) == IF i \in DOMAIN t THEN t[i] ELSE 0

\* CONSUMPTION_SOURCE_ORDER: promotional points go first, earned points last.
SourcePriority(s) ==
  CASE s = "PROMOTIONAL" -> 0 [] s = "PURCHASED" -> 1 [] s = "DRIVER_EARNED" -> 2

ConsumedBefore(w, i, j) ==
  LET p == SourcePriority(lots[w][i].source)
      q == SourcePriority(lots[w][j].source)
  IN  p < q \/ (p = q /\ i < j)

\* A withdrawal may only touch what its owner earned by driving.
Eligible(c) ==
  IF Call[c].op = "hold" /\ Call[c].type = "WITHDRAWAL" THEN {"DRIVER_EARNED"} ELSE Sources

\* What eligible lots ahead of lot i can already supply.
SuppliedBefore(c, w, i) ==
  SumTo([j \in DOMAIN lots[w] |->
           IF lots[w][j].source \in Eligible(c) /\ ConsumedBefore(w, j, i)
           THEN lots[w][j].available ELSE 0],
        Len(lots[w]))

\* The part of the amount taken from each lot: whatever earlier lots leave open.
PlanLotConsumption(c) ==
  LET w == Call[c].wallet
      Open(i) == Call[c].amount - SuppliedBefore(c, w, i)
  IN  [i \in DOMAIN lots[w] |->
         IF lots[w][i].source \notin Eligible(c) \/ Open(i) <= 0 THEN 0
         ELSE IF Open(i) < lots[w][i].available THEN Open(i) ELSE lots[w][i].available]

\* The points a call may draw on, from the balance row.
Spendable(c) ==
  IF Eligible(c) = Sources THEN BucketTotal(available[Call[c].wallet])
  ELSE available[Call[c].wallet]["DRIVER_EARNED"]

\* The part of a plan that comes from lots of one source.
SourceTake(w, t, s) ==
  SumTo([i \in DOMAIN lots[w] |-> IF lots[w][i].source = s THEN Taken(t, i) ELSE 0],
        Len(lots[w]))

-----------------------------------------------------------------------------
(* Row locks.  A transaction owns the rows it has read FOR UPDATE until it *)
(* ends, so the owner of a row is known from where the transactions stand. *)

EndsHold(c) == Call[c].op \in {"release", "consume"}

WalletOf(c) == IF EndsHold(c) THEN holds[target[c]].wallet ELSE Call[c].wallet

\* Mutants: a SELECT that lost its FOR UPDATE.
BalanceNeverLocked(w) == FALSE
HoldNeverLocked(h) == FALSE

BalanceLocked(w) == \E c \in Calls : pc[c] = "ready" /\ WalletOf(c) = w

HoldLocked(h) ==
  \E c \in Calls : pc[c] \in {"holdLocked", "ready"} /\ EndsHold(c) /\ target[c] = h

-----------------------------------------------------------------------------
NoRow == [available |-> [s \in Sources |-> 0], held |-> [s \in Sources |-> 0]]

Init ==
  /\ available = [w \in Wallets |-> [s \in Sources |-> 0]]
  /\ held = [w \in Wallets |-> [s \in Sources |-> 0]]
  /\ lots = [w \in Wallets |-> <<>>]
  /\ holds = <<>>
  /\ ledger = <<>>
  /\ pc = [c \in Calls |-> "idle"]
  /\ target = [c \in Calls |-> 0]
  /\ seen = [c \in Calls |-> NoRow]
  /\ take = [c \in Calls |-> <<>>]
  /\ aborts = 0

\* The transaction is over: its locks and locals go, the caller has an answer.
Answer(c, answer) ==
  /\ pc' = [pc EXCEPT ![c] = answer]
  /\ target' = [target EXCEPT ![c] = 0]
  /\ seen' = [seen EXCEPT ![c] = NoRow]
  /\ take' = [take EXCEPT ![c] = <<>>]

\* Mutant: the caller passes on the id of a hold that is only being placed.
UncommittedHolds(c) == IF EndsHold(c) THEN 1..Len(holds) + 1 ELSE {0}

\* The hold a release or consume is called for; the caller read its id.
TargetHolds(c) ==
  IF EndsHold(c) THEN {h \in DOMAIN holds : holds[h].ref = Call[c].ref} ELSE {0}

Begin(c) ==
  /\ pc[c] = "idle"
  /\ \E h \in TargetHolds(c) :
       \/ KeyPosted(Call[c].key) /\ Answer(c, "existing")
       \/ /\ ~ KeyPosted(Call[c].key)
          /\ pc' = [pc EXCEPT ![c] = "open"]
          /\ target' = [target EXCEPT ![c] = h]
          /\ UNCHANGED <<seen, take>>
  /\ UNCHANGED <<rows, aborts>>

HoldEndedBy(op) == IF op = "release" THEN "RELEASED" ELSE "CONSUMED"

\* A hold that already ended the way this call ends it is answered with the
\* existing result; one that ended the other way is refused.
LockHold(c) ==
  LET status == holds[target[c]].status IN
  /\ pc[c] = "open" /\ EndsHold(c)
  /\ ~ HoldLocked(target[c])
  /\ UNCHANGED <<rows, aborts>>
  /\ \/ /\ KeyPosted(Call[c].key) \/ status = HoldEndedBy(Call[c].op)
        /\ Answer(c, "existing")
     \/ /\ ~ KeyPosted(Call[c].key) /\ status \notin {"ACTIVE", HoldEndedBy(Call[c].op)}
        /\ Answer(c, "refused")
     \/ /\ ~ KeyPosted(Call[c].key) /\ status = "ACTIVE"
        /\ pc' = [pc EXCEPT ![c] = "holdLocked"]
        /\ UNCHANGED locals

DrawsOnPoints(c) == Call[c].op \in {"debit", "hold"}

\* The row lock is granted; the key is looked up again before anything is read.
LockBalance(c) ==
  LET w == WalletOf(c) IN
  /\ pc[c] = IF EndsHold(c) THEN "holdLocked" ELSE "open"
  /\ ~ BalanceLocked(w)
  /\ UNCHANGED <<rows, aborts>>
  /\ \/ KeyPosted(Call[c].key) /\ Answer(c, "existing")
     \/ /\ ~ KeyPosted(Call[c].key)
        /\ DrawsOnPoints(c) /\ Spendable(c) < Call[c].amount
        /\ Answer(c, "refused")
     \/ /\ ~ KeyPosted(Call[c].key)
        /\ DrawsOnPoints(c) => Spendable(c) >= Call[c].amount
        /\ pc' = [pc EXCEPT ![c] = "ready"]
        /\ seen' = [seen EXCEPT ![c] = [available |-> available[w], held |-> held[w]]]
        /\ take' = [take EXCEPT ![c] =
                      IF EndsHold(c) THEN holds[target[c]].alloc
                      ELSE IF DrawsOnPoints(c) THEN PlanLotConsumption(c) ELSE <<>>]
        /\ UNCHANGED target

-----------------------------------------------------------------------------
(* The five ways a transaction ends well.                                  *)

Post(c, kind, amount, after, h) ==
  ledger' = Append(ledger, [key |-> Call[c].key, wallet |-> WalletOf(c), kind |-> kind,
                            amount |-> amount, before |-> TotalBalance(seen[c]),
                            after |-> TotalBalance(after), hold |-> h])

\* Mutant: the held part of the lots is not saved.
MoveAvailableOnly(w, t, toAvailable, toHeld) ==
  lots' = [lots EXCEPT ![w] = [i \in DOMAIN lots[w] |->
             [lots[w][i] EXCEPT !.available = @ + toAvailable * Taken(t, i)]]]

\* The planned points of each lot enter (1), stay in (0) or leave (-1) its
\* available and its held part, and so does the bucket of the lot's source.
MoveLots(w, t, toAvailable, toHeld) ==
  lots' = [lots EXCEPT ![w] = [i \in DOMAIN lots[w] |->
             [source |-> lots[w][i].source,
              available |-> lots[w][i].available + toAvailable * Taken(t, i),
              held |-> lots[w][i].held + toHeld * Taken(t, i)]]]

MovedBalance(c, w, toAvailable, toHeld) ==
  [available |-> [s \in Sources |->
                    seen[c].available[s] + toAvailable * SourceTake(w, take[c], s)],
   held |-> [s \in Sources |-> seen[c].held[s] + toHeld * SourceTake(w, take[c], s)]]

WriteBalance(w, row) ==
  /\ available' = [available EXCEPT ![w] = row.available]
  /\ held' = [held EXCEPT ![w] = row.held]

Committing(c, op) ==
  /\ pc[c] = "ready" /\ Call[c].op = op
  /\ ~ KeyPosted(Call[c].key)
  /\ UNCHANGED aborts

CommitCredit(c) ==
  LET w == Call[c].wallet
      row == [available |-> [seen[c].available EXCEPT ![Call[c].source] = @ + Call[c].amount],
              held |-> seen[c].held]
  IN
  /\ Committing(c, "credit")
  /\ lots' = [lots EXCEPT ![w] = Append(@, [source |-> Call[c].source,
                                            available |-> Call[c].amount, held |-> 0])]
  /\ WriteBalance(w, row)
  /\ UNCHANGED holds
  /\ Post(c, "CREDIT", Call[c].amount, row, 0)
  /\ Answer(c, "posted")

CommitDebit(c) ==
  LET w == Call[c].wallet
      row == MovedBalance(c, w, -1, 0)
  IN
  /\ Committing(c, "debit")
  /\ MoveLots(w, take[c], -1, 0)
  /\ WriteBalance(w, row)
  /\ UNCHANGED holds
  /\ Post(c, "DEBIT", Call[c].amount, row, 0)
  /\ Answer(c, "posted")

\* UQ_wallet_holds_active_reference: one ACTIVE hold per reference.
ActiveHoldExists(ref) == \E h \in DOMAIN holds : holds[h].ref = ref /\ holds[h].status = "ACTIVE"

CommitHold(c) ==
  LET w == Call[c].wallet
      row == MovedBalance(c, w, -1, 1)
  IN
  /\ Committing(c, "hold")
  /\ ~ ActiveHoldExists(Call[c].ref)
  /\ holds' = Append(holds, [wallet |-> w, type |-> Call[c].type, ref |-> Call[c].ref,
                             amount |-> Call[c].amount, status |-> "ACTIVE",
                             alloc |-> take[c]])
  /\ MoveLots(w, take[c], -1, 1)
  /\ WriteBalance(w, row)
  /\ Post(c, "HOLD", Call[c].amount, row, Len(holds) + 1)
  /\ Answer(c, "posted")

EndHold(c, op, toAvailable) ==
  LET h == target[c]
      w == holds[h].wallet
      row == MovedBalance(c, w, toAvailable, -1)
  IN
  /\ Committing(c, op)
  /\ MoveLots(w, take[c], toAvailable, -1)
  /\ holds' = [holds EXCEPT ![h].status = HoldEndedBy(op)]
  /\ WriteBalance(w, row)
  /\ Post(c, HoldEndedBy(op), holds[h].amount, row, h)
  /\ Answer(c, "posted")

CommitRelease(c) == EndHold(c, "release", 1)
CommitConsume(c) == EndHold(c, "consume", 0)

\* Mutant: a hold refused by the unique index is tried again until it fits.
RetryUniqueRace(c) ==
  /\ pc[c] = "ready"
  /\ \/ KeyPosted(Call[c].key) /\ Answer(c, "existing")
     \/ /\ ~ KeyPosted(Call[c].key) /\ Call[c].op = "hold" /\ ActiveHoldExists(Call[c].ref)
        /\ Answer(c, "open")
  /\ UNCHANGED <<rows, aborts>>

\* A unique index refuses the insert: the transaction rolls back, and for the
\* ledger key the winner's row is read back as the answer.
LoseUniqueRace(c) ==
  /\ pc[c] = "ready"
  /\ \/ KeyPosted(Call[c].key) /\ Answer(c, "existing")
     \/ /\ ~ KeyPosted(Call[c].key) /\ Call[c].op = "hold" /\ ActiveHoldExists(Call[c].ref)
        /\ Answer(c, "refused")
  /\ UNCHANGED <<rows, aborts>>

\* Lost connection, lock timeout, process restart: rollback, and a later retry.
Abort(c) ==
  /\ pc[c] \in {"open", "holdLocked", "ready"}
  /\ aborts < MaxAborts
  /\ aborts' = aborts + 1
  /\ UNCHANGED rows
  /\ Answer(c, "idle")

Commit(c) ==
  \/ CommitCredit(c) \/ CommitDebit(c) \/ CommitHold(c)
  \/ CommitRelease(c) \/ CommitConsume(c)

Advance(c) == LockHold(c) \/ LockBalance(c) \/ Commit(c) \/ LoseUniqueRace(c)

Answered == {"posted", "existing", "refused"}

\* No transaction is open: every request was answered or not sent (again).
Quiescent ==
  /\ \A c \in Calls : pc[c] \in Answered \cup {"idle"}
  /\ UNCHANGED vars

Next == (\E c \in Calls : Begin(c) \/ Advance(c) \/ Abort(c)) \/ Quiescent

\* A transaction that has begun is executed as far as locks allow; whether a
\* request is sent (again) is up to the clients.
Spec == Init /\ [][Next]_vars /\ \A c \in Calls : WF_vars(Advance(c))

-----------------------------------------------------------------------------
(* Properties.                                                             *)

Lot == [source : Sources, available : Int, held : Int]
BalanceRow == [available : [Sources -> Int], held : [Sources -> Int]]
HoldRow == [wallet : Wallets, type : HoldTypes, ref : Refs, amount : Nat,
            status : {"ACTIVE", "RELEASED", "CONSUMED"}, alloc : Seq(Nat)]
LedgerRow == [key : Keys, wallet : Wallets, amount : Nat, before : Int, after : Int,
              kind : {"CREDIT", "DEBIT", "HOLD", "RELEASED", "CONSUMED"}, hold : Nat]

\* Every table holds rows of its columns' types, and a request names a hold
\* that exists once it has begun to end one.
TypeOK ==
  /\ available \in [Wallets -> [Sources -> Int]]
  /\ held \in [Wallets -> [Sources -> Int]]
  /\ lots \in [Wallets -> Seq(Lot)]
  /\ holds \in Seq(HoldRow)
  /\ ledger \in Seq(LedgerRow)
  /\ pc \in [Calls -> {"idle", "open", "holdLocked", "ready"} \cup Answered]
  /\ target \in [Calls -> 0..Len(holds)]
  /\ seen \in [Calls -> BalanceRow]
  /\ take \in [Calls -> Seq(Nat)]
  /\ aborts \in 0..MaxAborts

LotAvailable(w, s) ==
  SumTo([i \in DOMAIN lots[w] |-> IF lots[w][i].source = s THEN lots[w][i].available ELSE 0],
        Len(lots[w]))
LotHeld(w, s) ==
  SumTo([i \in DOMAIN lots[w] |-> IF lots[w][i].source = s THEN lots[w][i].held ELSE 0],
        Len(lots[w]))

\* Each of the six buckets of a balance row is the total of the lots of its
\* source: the drift the reconciliation report looks for never arises.
NoDrift ==
  \A w \in Wallets, s \in Sources :
    available[w][s] = LotAvailable(w, s) /\ held[w][s] = LotHeld(w, s)

\* The held part of a lot is what the active holds allocated from it, so that
\* ending one hold never touches the points of another.
HeldBacksActiveHolds ==
  \A w \in Wallets : \A i \in DOMAIN lots[w] :
    lots[w][i].held =
      SumTo([h \in DOMAIN holds |->
               IF holds[h].wallet = w /\ holds[h].status = "ACTIVE"
               THEN Taken(holds[h].alloc, i) ELSE 0], Len(holds))

\* What a ledger row does to the total balance: holds and releases move points
\* between buckets only.
Effect(row) ==
  CASE row.kind = "CREDIT" -> row.amount
    [] row.kind \in {"DEBIT", "CONSUMED"} -> - row.amount
    [] OTHER -> 0

IsLastRow(r) == \A q \in r+1..Len(ledger) : ledger[q].wallet # ledger[r].wallet

\* The ledger of a wallet is a chain: each row starts from the balance the
\* previous one left, moves it by its amount, and the last one states the
\* balance the wallet has.
LedgerChained ==
  \A r \in DOMAIN ledger :
    LET row == ledger[r]
        earlier == {q \in 1..r-1 : ledger[q].wallet = row.wallet}
    IN  /\ row.after = row.before + Effect(row)
        /\ row.before =
             IF earlier = {} THEN 0
             ELSE ledger[CHOOSE q \in earlier : \A p \in earlier : p <= q].after
        /\ IsLastRow(r) =>
             row.after = BucketTotal(available[row.wallet]) + BucketTotal(held[row.wallet])

\* A hold is ended by at most one ledger row, also when it is ended under
\* different keys (a withdrawal is released under a key per final status).
HoldEndedOnce ==
  \A q, r \in DOMAIN ledger :
    ledger[q].kind \in {"RELEASED", "CONSUMED"} /\ ledger[r].kind \in {"RELEASED", "CONSUMED"}
      /\ ledger[q].hold = ledger[r].hold => q = r

\* A transaction that has begun is answered or fails: the order hold row, then
\* balance row, leaves no two requests waiting for each other or trying forever.
BegunCallsAnswered == \A c \in Calls : pc[c] = "open" ~> pc[c] \in Answered \cup {"idle"}

\* The account the rest of the backend sees.
Account == INSTANCE PointsAccount WITH
  Amounts <- {Call[c].amount : c \in Calls},
  spendable <- [w \in Wallets |-> BucketTotal(available[w])],
  reserved <- [w \in Wallets |-> BucketTotal(held[w])],
  holds <- [h \in DOMAIN holds |-> [wallet |-> holds[h].wallet, amount |-> holds[h].amount,
                                     status |-> holds[h].status]],
  done <- {ledger[r].key : r \in DOMAIN ledger}

\* Behind locks, lots and retries, a wallet is an account whose requests take
\* effect at once and at most once.
ImplementsAccount == Account!Spec

=============================================================================
