---------------------------- MODULE PlatformSeed ----------------------------
(***************************************************************************)
(* The platform's own wallet: src/src/wallet/platform-wallet.service.ts,   *)
(* and the credits of src/src/wallet/wallet.service.ts that repair it.     *)
(*                                                                         *)
(* Rows that miss are made by a process that starts, one at a time under   *)
(* an advisory lock, and by the credits to the platform, which do not take *)
(* that lock and rely on unique keys.  A transaction sees what others      *)
(* committed before each of its statements.  An insert waits for a         *)
(* transaction that has the same key open, and fails, with everything      *)
(* before it, if that one commits.  repository.save first selects by the   *)
(* row's id and updates the row it finds.  Left out: debits of the         *)
(* platform, app_settings, rows bound to somebody else.                    *)
(***************************************************************************)
EXTENDS Integers, FiniteSets

CONSTANTS Startups, \* processes that start
          Credits,  \* transactions that credit the platform with one point each
          Float     \* PLATFORM_SEED_AMOUNT

VARIABLES db,  \* the committed rows
          own, \* transaction |-> the rows it has written
          tx,  \* transaction |-> where it is, lots it has read, amount it will write
          sees \* transaction |-> its save found the row

vars == <<db, own, tx, sees>>

Transactions == Startups \cup Credits
None == -1
NoRows == [user |-> FALSE, wallet |-> FALSE, balance |-> None, lots |-> {}, ledger |-> {}]
Idle == [at |-> "idle", lots |-> {}, amount |-> None]

\* An empty database, one with the user only, one with the wallet too, one whose
\* balance is lost, one with a history and nothing else, and a complete one.
Init ==
  /\ db \in LET bare == [NoRows EXCEPT !.user = TRUE, !.wallet = TRUE]
                lost == [bare EXCEPT !.lots = {"seed"}, !.ledger = {"seed"}]
            IN  {NoRows, [bare EXCEPT !.wallet = FALSE], bare, lost,
                 [bare EXCEPT !.ledger = {"old"}], [lost EXCEPT !.balance = Float]}
  /\ own = [t \in Transactions |-> NoRows]
  /\ tx = [t \in Transactions |-> Idle]
  /\ sees = [t \in Transactions |-> FALSE]

-----------------------------------------------------------------------------
\* What a statement of t reads.
Seen(t) ==
  [user |-> db.user \/ own[t].user, wallet |-> db.wallet \/ own[t].wallet,
   balance |-> IF own[t].balance # None THEN own[t].balance ELSE db.balance,
   lots |-> db.lots \cup own[t].lots, ledger |-> db.ledger \cup own[t].ledger]

\* The transactions whose open writes t's next statement waits for.
Waits(t) ==
  {s \in Transactions \ {t} :
     \/ tx[t].at = "no user" /\ own[s].user
     \/ tx[t].at = "no wallet" /\ own[s].wallet
     \/ tx[t].at \in {"write", "lock"} /\ own[s].balance # None
     \/ tx[t].at = "seed" /\ "seed" \in own[s].lots}

\* getExpectedBalanceBucketsFromLots.
Worth(lots) == (IF "seed" \in lots THEN Float ELSE 0) + Cardinality(lots \ {"seed"})

shouldSeedPlatformOpeningFloat(rows) == rows.lots = {} /\ rows.ledger = {}

GoTo(t, next) == tx' = [tx EXCEPT ![t].at = next]

\* A statement fails: the transaction is rolled back, its caller may try again.
Abort(t) ==
  /\ own' = [own EXCEPT ![t] = NoRows]
  /\ tx' = [tx EXCEPT ![t] = Idle]
  /\ UNCHANGED <<db, sees>>

Commit(t) ==
  /\ db' = Seen(t)
  /\ own' = [own EXCEPT ![t] = NoRows]
  /\ tx' = [tx EXCEPT ![t] = [Idle EXCEPT !.at = "done"]]
  /\ UNCHANGED sees

-----------------------------------------------------------------------------
\* pg_advisory_xact_lock.
ensureInitialized(t) ==
  /\ t \in Startups /\ tx[t].at = "idle"
  /\ \A s \in Startups : tx[s].at \in {"idle", "done"}
  /\ GoTo(t, "user") /\ UNCHANGED <<db, own, sees>>

ensurePlatformWalletBalance(t) ==
  /\ t \in Credits /\ tx[t].at = "idle"
  /\ GoTo(t, IF Seen(t).balance = None THEN "user" ELSE "lock")
  /\ UNCHANGED <<db, own, sees>>

\* A row that is found is kept, one that is not is inserted.
Find(t, row, missing, next) ==
  /\ tx[t].at = row
  /\ GoTo(t, IF Seen(t)[row] THEN next ELSE missing)
  /\ UNCHANGED <<db, own, sees>>

InsertRow(t, row, missing, next) ==
  /\ tx[t].at = missing /\ Waits(t) = {}
  /\ IF db[row] THEN Abort(t)
     ELSE /\ own' = [own EXCEPT ![t][row] = TRUE]
          /\ GoTo(t, next) /\ UNCHANGED <<db, sees>>

ensurePlatformUser(t) ==
  Find(t, "user", "no user", "wallet") \/ InsertRow(t, "user", "no user", "wallet")
ensurePlatformWallet(t) ==
  Find(t, "wallet", "no wallet", "balance") \/ InsertRow(t, "wallet", "no wallet", "balance")

\* Where a transaction whose balance is there goes on.
Ensured(t) == IF t \in Credits THEN "lock" ELSE "commit"

ensurePlatformBalance(t) ==
  /\ \/ /\ tx[t].at = "balance"
        /\ GoTo(t, IF Seen(t).balance # None THEN Ensured(t) ELSE "lots")
     \/ /\ tx[t].at = "lots"
        /\ tx' = [tx EXCEPT ![t] = [at |-> IF Seen(t).lots = {} THEN "history" ELSE "absent",
                                    lots |-> Seen(t).lots, amount |-> Worth(Seen(t).lots)]]
  /\ UNCHANGED <<db, own, sees>>

\* The lots were read before, the ledger is read now.
seedOpeningFloatIfAbsent(t) ==
  /\ tx[t].at = "history"
  /\ tx' = [tx EXCEPT ![t].at = "absent",
                      ![t].amount = IF shouldSeedPlatformOpeningFloat(
                                         [lots |-> tx[t].lots, ledger |-> Seen(t).ledger])
                                    THEN Float ELSE 0]
  /\ UNCHANGED <<db, own, sees>>

\* The float is given to a wallet without lots.
Seeding(t) == tx[t].lots = {} /\ tx[t].amount = Float

insertPlatformBalanceIfAbsent(t) ==
  /\ tx[t].at = "absent"
  /\ GoTo(t, IF Seen(t).balance = None THEN "save"
             ELSE IF Seeding(t) THEN "seed" ELSE Ensured(t))
  /\ UNCHANGED <<db, own, sees>>

\* save selects by PLATFORM_BALANCE_ID.
SaveFinds(t) ==
  /\ tx[t].at = "save"
  /\ sees' = [sees EXCEPT ![t] = Seen(t).balance # None]
  /\ GoTo(t, "write") /\ UNCHANGED <<db, own>>

\* And writes: an insert, or an update of the row it found.
SaveWrites(t) ==
  /\ tx[t].at = "write" /\ Waits(t) = {}
  /\ IF ~sees[t] /\ db.balance # None THEN Abort(t)
     ELSE /\ own' = [own EXCEPT ![t].balance = tx[t].amount]
          /\ GoTo(t, IF Seeding(t) THEN "seed" ELSE Ensured(t))
          /\ UNCHANGED <<db, sees>>

\* The seed's lot and ledger row: rows that are found get the same values again.
SeedLotAndLedger(t) ==
  /\ tx[t].at = "seed" /\ Waits(t) = {}
  /\ own' = [own EXCEPT ![t].lots = @ \cup {"seed"}, ![t].ledger = @ \cup {"seed"}]
  /\ GoTo(t, Ensured(t)) /\ UNCHANGED <<db, sees>>

\* The balance is locked and read, then written with lot and ledger row.
creditPointsInTransaction(t) ==
  /\ tx[t].at = "lock" /\ Waits(t) = {}
  /\ own' = [own EXCEPT ![t].balance = Seen(t).balance + 1,
                        ![t].lots = @ \cup {t}, ![t].ledger = @ \cup {t}]
  /\ GoTo(t, "commit") /\ UNCHANGED <<db, sees>>

\* Two transactions that wait for each other: the database ends one of them.
EndDeadlock(t) == (\E s \in Waits(t) : t \in Waits(s)) /\ Abort(t)

\* Every process has started and every credit is posted.
Over == (\A t \in Transactions : tx[t].at = "done") /\ UNCHANGED vars

Next ==
  \/ Over
  \/ \E t \in Transactions :
      \/ ensureInitialized(t) \/ ensurePlatformWalletBalance(t)
      \/ ensurePlatformUser(t) \/ ensurePlatformWallet(t) \/ ensurePlatformBalance(t)
      \/ seedOpeningFloatIfAbsent(t) \/ insertPlatformBalanceIfAbsent(t)
      \/ SaveFinds(t) \/ SaveWrites(t) \/ SeedLotAndLedger(t) \/ creditPointsInTransaction(t)
      \/ tx[t].at = "commit" /\ Commit(t)
      \/ EndDeadlock(t)

Spec == Init /\ [][Next]_vars

-----------------------------------------------------------------------------
\* The opening float is given once, with its ledger row, and never to a wallet
\* that had a history; a credit is posted with its lot or not at all.
FloatIsNotInvented ==
  /\ "old" \in db.ledger => "seed" \notin db.lots
  /\ db.lots = db.ledger \ {"old"}

\* "Insert-only. Unique(wallet_id) wins races; existing rows are never updated"
\* (insertPlatformBalanceIfAbsent): a balance that is there changes by the points
\* that are credited and by nothing else.  A process that starts while a credit
\* commits breaks it, no run checks it (README, section 6).
ExistingBalanceStays ==
  [][db.balance # None => db'.balance - db.balance = Worth(db'.lots) - Worth(db.lots)]_vars

-----------------------------------------------------------------------------
(* What TLAPS proves of the platform's wallet, for any processes that      *)
(* start, any credits and any float.                                       *)

\* The float is something, and no transaction is called like a ledger row.
Parameters ==
  /\ IsFiniteSet(Transactions) /\ Float \in Nat \ {0}
  /\ {"seed", "old"} \cap Transactions = {}

Places == {"idle", "user", "no user", "wallet", "no wallet", "balance", "lots", "history",
           "absent", "save", "write", "seed", "lock", "commit", "done"}

Lots == SUBSET (Transactions \cup {"seed"})
Rows == [user : BOOLEAN, wallet : BOOLEAN, balance : Int,
         lots : Lots, ledger : SUBSET (Transactions \cup {"seed", "old"})]
Step == [at : Places, lots : Lots, amount : Int]

\* The rows and the transactions have the shape of their tables.
TypeOK ==
  /\ db \in Rows /\ own \in [Transactions -> Rows]
  /\ tx \in [Transactions -> Step] /\ sees \in [Transactions -> BOOLEAN]

\* A transaction writes a lot with its ledger row, and none for the history.
WrittenTogether ==
  \A t \in Transactions : own[t].lots = own[t].ledger /\ "old" \notin own[t].ledger

\* Nobody who has read a wallet with a history is about to seed it, although
\* lots and ledger are read one after the other.
NoSeedAfterHistory ==
  "old" \in db.ledger => \A t \in Transactions :
    /\ "seed" \notin own[t].lots /\ tx[t].at # "seed"
    /\ tx[t].at \in {"absent", "save", "write"} => ~Seeding(t)

SeedInv == TypeOK /\ WrittenTogether /\ NoSeedAfterHistory /\ FloatIsNotInvented

=============================================================================
