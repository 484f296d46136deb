---------------------------- MODULE WalletLedger ----------------------------
(***************************************************************************)
(* The money path of the platform: the use cases that create and settle    *)
(* rows of the Transactions table and change balances of the Wallets table *)
(* (src/application/use-cases/wallet and .../admin/approve-withdrawal).    *)
(*                                                                         *)
(* Every request is run by a handler, one asynchronous call of a use case. *)
(* JavaScript runs a handler without interruption between two awaits, so   *)
(* an action is the code from one await that touches shared state to the   *)
(* next, and the handlers of several server processes interleave at that   *)
(* grain.  What a handler keeps in local variables across an await is in   *)
(* its record in handlers.                                                 *)
(***************************************************************************)
EXTENDS Integers, FiniteSets

CONSTANTS
  Wallets,            \* rows of the Wallets table, one for each user
  TxIds,              \* uuids a request may draw for the row it inserts
  Keys,               \* idempotency keys clients send
  Handlers,           \* requests that may be in progress at the same time
  NoWallet, NoTx, NoKey, NoHandler,    \* null
  DepositAmounts,     \* amounts clients deposit and the gateway reports
  WithdrawalAmounts,  \* amounts clients ask to withdraw
  InitialBalance,     \* balance of every wallet at the start
  UseLockManager,     \* ProcessDepositUseCase was given a lockManager
  LoggerDeclared,     \* approve-withdrawal declares the logger it calls
  MaxFailures,        \* bound: requests that fail or die half-way
  MaxPayouts          \* bound: payouts the payment service makes for one row

ASSUME NullsAreNotValues ==
  NoWallet \notin Wallets /\ NoTx \notin TxIds /\ NoKey \notin Keys
    /\ NoHandler \notin Handlers

ASSUME FinitelyMany == IsFiniteSet(Handlers) /\ IsFiniteSet(TxIds)

ASSUME AmountsArePositive ==
  /\ DepositAmounts \subseteq Nat \ {0}
  /\ WithdrawalAmounts \subseteq Nat \ {0}
  /\ InitialBalance \in Nat

ASSUME ParametersTyped ==
  /\ UseLockManager \in BOOLEAN
  /\ LoggerDeclared \in BOOLEAN
  /\ MaxFailures \in Nat
  /\ MaxPayouts \in Nat

VARIABLES
  balance,     \* Wallets.balance
  tx,          \* Transactions, a row for each id that has been inserted
  payments,    \* the gateway's view of the payment created for an id
  handlers,    \* local state of each request in progress
  lock,        \* the lock manager: holder of "wallet:<id>"
  rowLock,     \* the database: request holding SELECT ... FOR UPDATE on a wallet
  credited,    \* history: times the amount of a row was added to its wallet
  debited,     \* history: times the amount of a row was taken from its wallet
  payouts,     \* payouts the payment service made for a row
  posted,      \* history: initial balance plus all credits less all debits
  failures     \* requests that failed so far

locks == <<lock, rowLock>>
books == <<credited, debited, payouts, posted>>
vars == <<balance, tx, payments, handlers, locks, books, failures>>

-----------------------------------------------------------------------------
(* Rows and local state *)

Statuses == {"PENDING", "COMPLETED", "FAILED", "REQUIRES_APPROVAL",
             "PAYMENT_FAILED", "ERROR_INSUFFICIENT_FUNDS_POST_PAYMENT"}

Row == [type : {"DEPOSIT", "WITHDRAWAL"}, wallet : Wallets, amount : Nat,
        status : Statuses, key : Keys \cup {NoKey}]

NoRow == [type |-> "NONE", wallet |-> NoWallet, amount |-> 0,
          status |-> "ABSENT", key |-> NoKey]

Stored(id) == tx[id].status # "ABSENT"

PaymentStates == {"none", "issued", "open", "paid", "declined"}

HandlerPcs == {"idle",
  "create_payment", "record_deposit",                          \* initialize-deposit
  "mark_failed", "acquire_lock", "read_wallet", "credit", "complete",
                                                               \* process-deposit
  "check_funds", "record_withdrawal",                          \* request-withdrawal
  "payout", "lock_wallet", "debit", "shortfall"}               \* approve-withdrawal

Idle == [pc |-> "idle", tx |-> NoTx, wallet |-> NoWallet, amount |-> 0,
         key |-> NoKey, seen |-> 0]

Begin(h, pc, id, w, a, k) ==
  /\ handlers[h] = Idle
  /\ handlers' = [handlers EXCEPT ![h] =
       [pc |-> pc, tx |-> id, wallet |-> w, amount |-> a, key |-> k, seen |-> 0]]

Goto(h, pc) == handlers' = [handlers EXCEPT ![h].pc = pc]

Finish(h) == handlers' = [handlers EXCEPT ![h] = Idle]

(* Ids a request may draw (uuids are fresh, so no row, payment or request has them).
   A request that creates a row is given its id when it starts: the number of ids
   bounds the number of rows. *)
FreshIds == {id \in TxIds : /\ ~Stored(id)
                            /\ payments[id] = "none"
                            /\ \A h \in Handlers : handlers[h].tx # id}

KeyTaken(k) == k # NoKey /\ \E id \in TxIds : Stored(id) /\ tx[id].key = k

InsertIgnoringKey(id, row) == tx' = [tx EXCEPT ![id] = row]

(* transactionRepository.create: the unique index on idempotencyKey refuses a
   second row with the same key, and the repository then returns the row that
   is already there as if it had been created. *)
Insert(id, row) ==
  IF KeyTaken(row.key) THEN UNCHANGED tx ELSE tx' = [tx EXCEPT ![id] = row]

SetStatus(id, status) == tx' = [tx EXCEPT ![id].status = status]

-----------------------------------------------------------------------------
Init ==
  /\ balance = [w \in Wallets |-> InitialBalance]
  /\ tx = [id \in TxIds |-> NoRow]
  /\ payments = [id \in TxIds |-> "none"]
  /\ handlers = [h \in Handlers |-> Idle]
  /\ lock = [w \in Wallets |-> NoHandler]
  /\ rowLock = [w \in Wallets |-> NoHandler]
  /\ credited = [id \in TxIds |-> 0]
  /\ debited = [id \in TxIds |-> 0]
  /\ payouts = [id \in TxIds |-> 0]
  /\ posted = [w \in Wallets |-> InitialBalance]
  /\ failures = 0

-----------------------------------------------------------------------------
(* InitializeDepositUseCase *)

AnyKey(k) == TRUE

NewKey(k) == ~KeyTaken(k)

(* A request whose key is already stored replays the stored row or answers 409:
   neither changes anything.  Otherwise the wallet is read and the request goes on. *)
InitializeDeposit(h, w, a, k) ==
  /\ NewKey(k)
  /\ \E id \in FreshIds : Begin(h, "create_payment", id, w, a, k)
  /\ UNCHANGED <<balance, tx, payments, locks, books, failures>>

(* The gateway answers payments.create with the authority that the row of this
   request will store; or the call fails, and so does the request. *)
CreatePayment(h) ==
  /\ handlers[h].pc = "create_payment"
  /\ \/ /\ payments' = [payments EXCEPT ![handlers[h].tx] = "issued"]
        /\ Goto(h, "record_deposit")
     \/ Finish(h) /\ UNCHANGED payments
  /\ UNCHANGED <<balance, tx, locks, books, failures>>

(* The PENDING row is inserted and the user is sent to the gateway, with the
   authority of this request whatever row the repository returned. *)
RecordDeposit(h) ==
  LET r == handlers[h] IN
  /\ r.pc = "record_deposit"
  /\ Insert(r.tx, [type |-> "DEPOSIT", wallet |-> r.wallet, amount |-> r.amount,
                   status |-> "PENDING", key |-> r.key])
  /\ payments' = [payments EXCEPT ![r.tx] = "open"]
  /\ Finish(h)
  /\ UNCHANGED <<balance, locks, books, failures>>

(* The user pays, or gives up, on the gateway's page. *)
SettlePayment(id) ==
  /\ payments[id] = "open"
  /\ \E outcome \in {"paid", "declined"} :
       payments' = [payments EXCEPT ![id] = outcome]
  /\ UNCHANGED <<balance, tx, handlers, locks, books, failures>>

-----------------------------------------------------------------------------
(* ProcessDepositUseCase *)

(* The statuses in the webhooks the gateway has sent for a payment so far: they
   may be delivered late, in any order and any number of times. *)
Reports(id) ==
  CASE payments[id] \in {"none", "issued"} -> {}
    [] payments[id] = "open" -> {"pending"}
    [] payments[id] = "paid" -> {"pending", "success"}
    [] payments[id] = "declined" -> {"pending", "failed"}

SuccessUnlessFailed(status) == status # "failed"

IsSuccess(status) == status = "success"

(* Where a webhook's request goes after the checks on the row and on the report. *)
AfterChecks(row, a, status) ==
  IF row.amount # a \/ ~IsSuccess(status) THEN "mark_failed"
  ELSE IF UseLockManager THEN "acquire_lock" ELSE "read_wallet"

ProcessedIfFailed(row) == row.status = "FAILED"

Processed(row) == row.status \in {"COMPLETED", "FAILED"}

(* The gateway reports the state of the payment of id, any number of times.  A
   report for an id with no row is answered 404, and one for a row that is
   already COMPLETED or FAILED is acknowledged or answered 409: no change. *)
ReceiveWebhook(h, id, a, status) ==
  /\ status \in Reports(id)
  /\ Stored(id) /\ ~Processed(tx[id])
  /\ Begin(h, AfterChecks(tx[id], a, status), id, tx[id].wallet, a, NoKey)
  /\ UNCHANGED <<balance, tx, payments, locks, books, failures>>

MarkDepositFailed(h) ==
  /\ handlers[h].pc = "mark_failed"
  /\ SetStatus(handlers[h].tx, "FAILED")
  /\ Finish(h)
  /\ UNCHANGED <<balance, payments, locks, books, failures>>

LockAlwaysFree(w) == TRUE

LockFree(w) == lock[w] = NoHandler

(* lockManager.acquire answers a lock or, while another request has it, null:
   the request then fails and leaves the row as it is. *)
AcquireLock(h) ==
  LET w == handlers[h].wallet IN
  /\ handlers[h].pc = "acquire_lock"
  /\ \/ /\ LockFree(w)
        /\ lock' = [lock EXCEPT ![w] = h]
        /\ Goto(h, "read_wallet")
     \/ /\ ~LockFree(w)
        /\ Finish(h)
        /\ UNCHANGED lock
  /\ UNCHANGED <<balance, tx, payments, rowLock, books, failures>>

ReadWalletCompleting(h) ==
  /\ handlers[h].pc = "read_wallet"
  /\ SetStatus(handlers[h].tx, "COMPLETED")
  /\ handlers' = [handlers EXCEPT ![h].pc = "credit",
                                  ![h].seen = balance[handlers[h].wallet]]
  /\ UNCHANGED <<balance, payments, locks, books, failures>>

ReadWallet(h) ==
  /\ handlers[h].pc = "read_wallet"
  /\ handlers' = [handlers EXCEPT ![h].pc = "credit",
                                  ![h].seen = balance[handlers[h].wallet]]
  /\ UNCHANGED <<balance, tx, payments, locks, books, failures>>

RowAlwaysFree(w) == TRUE

RowFree(w) == rowLock[w] = NoHandler

(* walletRepository.update writes the balance computed from the earlier read, in
   a database transaction of its own that waits for the lock on the row. *)
CreditWallet(h) ==
  LET r == handlers[h] IN
  /\ r.pc = "credit"
  /\ RowFree(r.wallet)
  /\ balance' = [balance EXCEPT ![r.wallet] = r.seen + r.amount]
  /\ credited' = [credited EXCEPT ![r.tx] = @ + 1]
  /\ posted' = [posted EXCEPT ![r.wallet] = @ + r.amount]
  /\ Goto(h, "complete")
  /\ UNCHANGED <<tx, payments, locks, debited, payouts, failures>>

KeepLock(h) == UNCHANGED lock

ReleaseLock(h) ==
  lock' = [w \in Wallets |-> IF lock[w] = h THEN NoHandler ELSE lock[w]]

CompleteDeposit(h) ==
  /\ handlers[h].pc = "complete"
  /\ SetStatus(handlers[h].tx, "COMPLETED")
  /\ ReleaseLock(h)
  /\ Finish(h)
  /\ UNCHANGED <<balance, payments, rowLock, books, failures>>

-----------------------------------------------------------------------------
(* RequestWithdrawalUseCase *)

(* A key whose row is still being worked on is replayed or answered 409; a key of
   a settled row is not refused here, and the unique index decides at the insert. *)
KeyInProgress(k) ==
  k # NoKey /\ \E id \in TxIds :
                  tx[id].key = k /\ tx[id].status \in {"REQUIRES_APPROVAL", "PENDING"}

RequestWithdrawal(h, w, a, k) ==
  /\ ~KeyInProgress(k)
  /\ \E id \in FreshIds : Begin(h, "check_funds", id, w, a, k)
  /\ UNCHANGED <<balance, tx, payments, locks, books, failures>>

HasSufficientFunds(w, a) == balance[w] >= a

CheckFunds(h) ==
  LET r == handlers[h] IN
  /\ r.pc = "check_funds"
  /\ IF HasSufficientFunds(r.wallet, r.amount)
       THEN Goto(h, "record_withdrawal") ELSE Finish(h)
  /\ UNCHANGED <<balance, tx, payments, locks, books, failures>>

\* No funds are held: the row alone says that the withdrawal was asked for.
RecordWithdrawal(h) ==
  LET r == handlers[h] IN
  /\ r.pc = "record_withdrawal"
  /\ Insert(r.tx, [type |-> "WITHDRAWAL", wallet |-> r.wallet, amount |-> r.amount,
                   status |-> "REQUIRES_APPROVAL", key |-> r.key])
  /\ Finish(h)
  /\ UNCHANGED <<balance, payments, locks, books, failures>>

-----------------------------------------------------------------------------
(* ApproveWithdrawalUseCase *)

ApprovableUnlessPaid(row) == row.type = "WITHDRAWAL" /\ row.status # "COMPLETED"

Approvable(row) == row.type = "WITHDRAWAL" /\ row.status = "REQUIRES_APPROVAL"

\* The row is read without a lock, although inside a database transaction.
StartApproval(h, id) ==
  /\ Approvable(tx[id])
  /\ Begin(h, "payout", id, tx[id].wallet, tx[id].amount, NoKey)
  /\ UNCHANGED <<balance, tx, payments, locks, books, failures>>

(* The payment service pays the user.  The next statement calls logger: when the
   name is not declared it throws, so does the handler of that error, and the
   outer handler rolls the database transaction back. *)
PayoutSucceeds(h) ==
  /\ handlers[h].pc = "payout"
  /\ payouts[handlers[h].tx] < MaxPayouts
  /\ payouts' = [payouts EXCEPT ![handlers[h].tx] = @ + 1]
  /\ IF LoggerDeclared THEN Goto(h, "lock_wallet") ELSE Finish(h)
  /\ UNCHANGED <<balance, tx, payments, locks, credited, debited, posted, failures>>

(* The payment service refuses: PAYMENT_FAILED is committed, unless calling the
   undeclared logger threw first. *)
PayoutFails(h) ==
  /\ handlers[h].pc = "payout"
  /\ IF LoggerDeclared THEN SetStatus(handlers[h].tx, "PAYMENT_FAILED")
                       ELSE UNCHANGED tx
  /\ Finish(h)
  /\ UNCHANGED <<balance, payments, locks, books, failures>>

\* walletRepository.findById with LOCK.UPDATE: waits for the row, then reads it.
LockWallet(h) ==
  LET r == handlers[h] IN
  /\ r.pc = "lock_wallet"
  /\ RowFree(r.wallet)
  /\ rowLock' = [rowLock EXCEPT ![r.wallet] = h]
  /\ handlers' = [handlers EXCEPT ![h].seen = balance[r.wallet], ![h].pc =
       IF HasSufficientFunds(r.wallet, r.amount) THEN "debit" ELSE "shortfall"]
  /\ UNCHANGED <<balance, tx, payments, lock, books, failures>>

ReleaseRow(h) ==
  rowLock' = [w \in Wallets |-> IF rowLock[w] = h THEN NoHandler ELSE rowLock[w]]

\* The debit and the status become visible together when the transaction commits.
CommitDebit(h) ==
  LET r == handlers[h] IN
  /\ r.pc = "debit"
  /\ balance' = [balance EXCEPT ![r.wallet] = r.seen - r.amount]
  /\ debited' = [debited EXCEPT ![r.tx] = @ + 1]
  /\ posted' = [posted EXCEPT ![r.wallet] = @ - r.amount]
  /\ SetStatus(r.tx, "COMPLETED")
  /\ ReleaseRow(h)
  /\ Finish(h)
  /\ UNCHANGED <<payments, lock, credited, payouts, failures>>

ShortfallCompleted == "COMPLETED"

ShortfallStatus == "ERROR_INSUFFICIENT_FUNDS_POST_PAYMENT"

RollBackShortfall(h) ==
  /\ handlers[h].pc = "shortfall"
  /\ ReleaseRow(h)
  /\ Finish(h)
  /\ UNCHANGED <<balance, tx, payments, lock, books, failures>>

(* The balance no longer covers a payout that was made: the row is marked for
   manual work, and the wallet keeps its balance. *)
CommitShortfall(h) ==
  /\ handlers[h].pc = "shortfall"
  /\ SetStatus(handlers[h].tx, ShortfallStatus)
  /\ ReleaseRow(h)
  /\ Finish(h)
  /\ UNCHANGED <<balance, payments, lock, books, failures>>

-----------------------------------------------------------------------------
(* A database call of a request fails, or its process dies: whatever it has not
   committed is lost, its database transaction is rolled back, and the finally
   block, or the lock's expiry, gives back the lock it holds. *)
RequestFails(h) ==
  /\ handlers[h] # Idle
  /\ failures < MaxFailures
  /\ failures' = failures + 1
  /\ ReleaseLock(h)
  /\ ReleaseRow(h)
  /\ Finish(h)
  /\ UNCHANGED <<balance, tx, payments, books>>

ClientRequest(h) ==
  \E w \in Wallets :
    \/ \E a \in DepositAmounts, k \in Keys : InitializeDeposit(h, w, a, k)
    \/ \E a \in WithdrawalAmounts, k \in Keys \cup {NoKey} : RequestWithdrawal(h, w, a, k)

Webhook(h) ==
  \E id \in TxIds, a \in DepositAmounts, status \in {"pending", "success", "failed"} :
    ReceiveWebhook(h, id, a, status)

Continue(h) ==
  \/ CreatePayment(h) \/ RecordDeposit(h)
  \/ MarkDepositFailed(h) \/ AcquireLock(h) \/ ReadWallet(h)
  \/ CreditWallet(h) \/ CompleteDeposit(h)
  \/ CheckFunds(h) \/ RecordWithdrawal(h)
  \/ PayoutSucceeds(h) \/ PayoutFails(h)
  \/ LockWallet(h) \/ CommitDebit(h) \/ CommitShortfall(h)

\* Nobody has a request in progress; a handler that waits forever is a deadlock.
Quiescent ==
  /\ \A h \in Handlers : handlers[h] = Idle
  /\ UNCHANGED vars

Next ==
  \/ \E h \in Handlers :
       \/ ClientRequest(h)
       \/ Webhook(h)
       \/ \E id \in TxIds : StartApproval(h, id)
       \/ Continue(h)
       \/ RequestFails(h)
  \/ \E id \in TxIds : SettlePayment(id)
  \/ Quiescent

Spec == Init /\ [][Next]_vars

-----------------------------------------------------------------------------
(* What the ledger must keep *)

TypeOK ==
  /\ balance \in [Wallets -> Nat]
  /\ tx \in [TxIds -> Row \cup {NoRow}]
  /\ payments \in [TxIds -> PaymentStates]
  /\ handlers \in [Handlers -> [pc : HandlerPcs, tx : TxIds \cup {NoTx},
                                wallet : Wallets \cup {NoWallet}, amount : Nat,
                                key : Keys \cup {NoKey}, seen : Nat]]
  /\ lock \in [Wallets -> Handlers \cup {NoHandler}]
  /\ rowLock \in [Wallets -> Handlers \cup {NoHandler}]
  /\ credited \in [TxIds -> Nat]
  /\ debited \in [TxIds -> Nat]
  /\ payouts \in [TxIds -> Nat]
  /\ posted \in [Wallets -> Int]
  /\ failures \in Nat

(* An idempotency key stands for one stored transaction, however many requests
   carry it and however they interleave (unique index, create, both lookups). *)
OneTransactionPerKey ==
  \A i, j \in TxIds : (Stored(i) /\ Stored(j) /\ tx[i].key = tx[j].key) =>
                        (i = j \/ tx[i].key = NoKey)

Undebited(w) == \A id \in TxIds : tx[id].wallet = w => debited[id] = 0

(* No balance written by one request erases a credit that another one wrote: a
   balance is never less than what the credits and debits made so far add up to, and
   exactly that until the first debit.  (A debit can be erased, by a deposit that
   read the balance before it.) *)
NoLostUpdate ==
  \A w \in Wallets :
    balance[w] >= posted[w] /\ (Undebited(w) => balance[w] = posted[w])

(* Only a deposit the user paid for at the gateway reaches a wallet. *)
CreditedWasPaid ==
  \A id \in TxIds : credited[id] > 0 => payments[id] = "paid"

(* A deposit shown as COMPLETED has reached its wallet, whatever failed on the way. *)
CompletedDepositCredited ==
  \A id \in TxIds :
    tx[id].type = "DEPOSIT" /\ tx[id].status = "COMPLETED" => credited[id] > 0

(* A withdrawal shown as COMPLETED was taken from its wallet, whatever failed on
   the way. *)
CompletedWithdrawalDebited ==
  \A id \in TxIds :
    tx[id].type = "WITHDRAWAL" /\ tx[id].status = "COMPLETED" => debited[id] > 0

(* A deposit is added to its wallet once, however often its webhook is delivered. *)
CreditedAtMostOnce == \A id \in TxIds : credited[id] <= 1

(* A withdrawal is paid out once, however often it is approved. *)
PaidOutAtMostOnce == \A id \in TxIds : payouts[id] <= 1

InProgress(id) == \E h \in Handlers : handlers[h].tx = id

(* Money the payment service sent shows in the row of the withdrawal: it is
   COMPLETED, or it is marked for the reconciliation that has to follow. *)
PayoutAccounted ==
  \A id \in TxIds : payouts[id] > 0 /\ ~InProgress(id) =>
    tx[id].status \in {"COMPLETED", "ERROR_INSUFFICIENT_FUNDS_POST_PAYMENT"}

Settled(w, type) ==
  {id \in TxIds : tx[id].wallet = w /\ tx[id].type = type /\ tx[id].status = "COMPLETED"}

\* The money of a set of rows, unit by unit, and how much it is.
Coins(ids) == UNION {{id} \X (1 .. tx[id].amount) : id \in ids}

Total(ids) == Cardinality(Coins(ids))

(* While no request is in progress, the balance of a wallet is what its COMPLETED
   transactions say it is: the Wallets table agrees with the Transactions table. *)
BalanceMatchesTransactions ==
  (\A h \in Handlers : handlers[h] = Idle) =>
    \A w \in Wallets : balance[w] =
      InitialBalance + Total(Settled(w, "DEPOSIT")) - Total(Settled(w, "WITHDRAWAL"))

-----------------------------------------------------------------------------
(* Why the invariants hold: what a handler knows at each await. *)

Creating == {"create_payment", "record_deposit", "check_funds", "record_withdrawal"}
Crediting == {"acquire_lock", "read_wallet", "credit", "complete"}
Approving == {"payout", "lock_wallet", "debit", "shortfall"}

\* A request that creates a row is alone in having its id, which is not stored yet.
OwnsNewId(h) ==
  LET r == handlers[h] IN
  r.pc \in Creating =>
    /\ ~Stored(r.tx)
    /\ payments[r.tx] = IF r.pc = "record_deposit" THEN "issued" ELSE "none"
    /\ \A g \in Handlers \ {h} : handlers[g].tx # r.tx

\* A request that settles a row works on a row of the right type.
HasRow(h) ==
  LET r == handlers[h] IN
  /\ r.pc # "idle" => r.tx \in TxIds /\ r.wallet \in Wallets
  /\ r.pc \in Crediting \cup {"mark_failed"} => tx[r.tx].type = "DEPOSIT"
  /\ r.pc \in Approving => tx[r.tx].type = "WITHDRAWAL"

\* A debit is computed from the locked row, and never exceeds it.
HoldsRow(h) ==
  LET r == handlers[h] IN
  /\ r.pc \in {"debit", "shortfall"} => rowLock[r.wallet] = h
  /\ r.pc = "debit" => r.seen = balance[r.wallet] /\ r.amount <= r.seen

\* The money behind a row: paid before it is credited, credited before COMPLETED.
MoneyFirst(h) ==
  LET r == handlers[h] IN
  /\ r.pc \in Crediting => payments[r.tx] = "paid"
  /\ r.pc = "complete" => credited[r.tx] > 0

PaymentsAreDeposits ==
  \A id \in TxIds : payments[id] # "none" /\ Stored(id) => tx[id].type = "DEPOSIT"

(* The inductive invariant: at every await the request still knows what it relies
   on, about its row, its payment and the wallet row it has locked. *)
LedgerInv ==
  /\ TypeOK
  /\ \A h \in Handlers : OwnsNewId(h) /\ HasRow(h) /\ HoldsRow(h) /\ MoneyFirst(h)
  /\ PaymentsAreDeposits
  /\ CreditedWasPaid /\ CompletedDepositCredited /\ CompletedWithdrawalDebited

(* With a lock manager only a debit can come between a deposit's read and write. *)
HoldsLock(h) ==
  LET r == handlers[h] IN
  /\ r.pc \in {"read_wallet", "credit", "complete"} => lock[r.wallet] = h
  /\ r.pc = "credit" =>
       r.seen >= balance[r.wallet] /\ (Undebited(r.wallet) => r.seen = balance[r.wallet])
  /\ r.pc \in Approving => tx[r.tx].wallet = r.wallet

LockInv == NoLostUpdate /\ \A h \in Handlers : HoldsLock(h)

-----------------------------------------------------------------------------
(* Fairness: a handler goes on as long as its process lives (the event loop runs
   every callback that is ready), and the gateway repeats the webhook of a paid
   payment until it is acknowledged. *)

DeliverSuccess(id) ==
  \E h \in Handlers : ReceiveWebhook(h, id, tx[id].amount, "success")

FairSpec ==
  /\ Spec
  /\ \A h \in Handlers : WF_vars(Continue(h))
  /\ \A id \in TxIds : SF_vars(DeliverSuccess(id))

(* A deposit that was paid at the gateway does not stay PENDING forever, although
   its webhook may meet a busy lock, a failing call or another webhook. *)
PaidDepositSettles ==
  \A id \in TxIds : (payments[id] = "paid" /\ Stored(id)) ~>
                       tx[id].status \in {"COMPLETED", "FAILED"}

=============================================================================
