------------------------ MODULE WalletLedger_proofs ------------------------
(***************************************************************************)
(* Proofs about WalletLedger, for every number of wallets, transactions,   *)
(* keys and requests in progress, and every amount.                        *)
(***************************************************************************)
EXTENDS WalletTurns, FiniteSetTheorems, TLAPS

USE DEF locks, books

(* The initial state satisfies the type invariant (all tables are empty). *)
LEMMA InitTypeOK == Init => TypeOK
BY NullsAreNotValues, AmountsArePositive
   DEF Init, TypeOK, NoRow, Row, Idle, PaymentStates, HandlerPcs

(* Every step keeps every variable in its type: in particular no balance ever
   becomes negative (walletRepository.update would refuse it). *)
LEMMA StepTypeOK ==
  ASSUME LedgerInv, [Next]_vars
  PROVE  TypeOK'
<1> USE AmountsArePositive, NullsAreNotValues DEF TypeOK
<1> TypeOK BY DEF LedgerInv
<1>1. CASE UNCHANGED vars
  BY <1>1 DEF vars
<1>2. ASSUME NEW h \in Handlers, ClientRequest(h)
      PROVE  TypeOK'
  <2>1. PICK w \in Wallets, a \in DepositAmounts \cup WithdrawalAmounts,
             k \in Keys \cup {NoKey}, id \in TxIds,
             pc \in {"create_payment", "check_funds"} :
               /\ Begin(h, pc, id, w, a, k)
               /\ UNCHANGED <<balance, tx, payments, locks, books, failures>>
    BY <1>2 DEF ClientRequest, InitializeDeposit, RequestWithdrawal, FreshIds
  <2> QED BY <2>1 DEF Begin, HandlerPcs
<1>3. ASSUME NEW h \in Handlers, Webhook(h)
      PROVE  TypeOK'
  <2>1. PICK id \in TxIds, a \in DepositAmounts,
             pc \in {"mark_failed", "acquire_lock", "read_wallet"} :
               /\ Stored(id)
               /\ Begin(h, pc, id, tx[id].wallet, a, NoKey)
               /\ UNCHANGED <<balance, tx, payments, locks, books, failures>>
    BY <1>3 DEF Webhook, ReceiveWebhook, AfterChecks
  <2>2. tx[id] \in Row
    BY <2>1 DEF Stored, NoRow
  <2> QED BY <2>1, <2>2 DEF Begin, HandlerPcs, Row
<1>4. ASSUME NEW h \in Handlers, \E id \in TxIds : StartApproval(h, id)
      PROVE  TypeOK'
  <2>1. PICK id \in TxIds : StartApproval(h, id)
    BY <1>4
  <2>2. tx[id] \in Row
    BY <2>1 DEF StartApproval, Approvable, NoRow
  <2> QED BY <2>1, <2>2 DEF StartApproval, Begin, HandlerPcs, Row
<1>5. ASSUME NEW h \in Handlers, Continue(h)
      PROVE  TypeOK'
  <2> USE DEF HandlerPcs, Idle, Goto, Finish
  <2>0. /\ HasRow(h)
        /\ HoldsRow(h)
        /\ handlers[h] \in [pc : HandlerPcs, tx : TxIds \cup {NoTx},
                            wallet : Wallets \cup {NoWallet}, amount : Nat,
                            key : Keys \cup {NoKey}, seen : Nat]
    BY DEF LedgerInv
  <2>1. ASSUME NEW id \in TxIds, NEW status \in Statuses, SetStatus(id, status),
               tx[id].type # "NONE"
        PROVE  tx' \in [TxIds -> Row \cup {NoRow}]
    BY <2>1 DEF SetStatus, Row, NoRow
  <2>2. CASE CreatePayment(h)
    <3>1. \/ /\ handlers' = [handlers EXCEPT ![h].pc = "record_deposit"]
             /\ payments' = [payments EXCEPT ![handlers[h].tx] = "issued"]
          \/ handlers' = [handlers EXCEPT ![h] = Idle] /\ UNCHANGED payments
      BY <2>2 DEF CreatePayment
    <3>2. UNCHANGED <<balance, tx, lock, rowLock, credited, debited, payouts, posted, failures>>
      BY <2>2 DEF CreatePayment
    <3>3. payments' \in [TxIds -> PaymentStates]
      BY <3>1 DEF PaymentStates
    <3> QED BY <2>0, <3>1, <3>2, <3>3
  <2>3. CASE RecordDeposit(h)
    BY <2>0, <2>3 DEF RecordDeposit, Insert, Row, Statuses, HasRow, PaymentStates
  <2>4. CASE MarkDepositFailed(h)
    BY <2>0, <2>1, <2>4 DEF MarkDepositFailed, HasRow, Statuses
  <2>5. CASE AcquireLock(h)
    <3>1. \/ handlers' = [handlers EXCEPT ![h].pc = "read_wallet"]
          \/ handlers' = [handlers EXCEPT ![h] = Idle]
      BY <2>5 DEF AcquireLock
    <3>2. UNCHANGED <<balance, tx, payments, rowLock, credited, debited, payouts, posted, failures>>
      BY <2>5 DEF AcquireLock
    <3>3. lock' = [lock EXCEPT ![handlers[h].wallet] = h] \/ UNCHANGED lock
      BY <2>5 DEF AcquireLock
    <3>4. lock' \in [Wallets -> Handlers \cup {NoHandler}]
      BY <3>3
    <3> QED BY <2>0, <3>1, <3>2, <3>4
  <2>6. CASE ReadWallet(h)
    BY <2>0, <2>6 DEF ReadWallet, HasRow
  <2>7. CASE CreditWallet(h)
    BY <2>0, <2>7 DEF CreditWallet, HasRow
  <2>8. CASE CompleteDeposit(h)
    BY <2>0, <2>1, <2>8 DEF CompleteDeposit, ReleaseLock, HasRow, Crediting, Statuses
  <2>9. CASE CheckFunds(h)
    BY <2>0, <2>9 DEF CheckFunds, HasSufficientFunds
  <2>10. CASE RecordWithdrawal(h)
    BY <2>0, <2>10 DEF RecordWithdrawal, Insert, Row, Statuses, HasRow
  <2>11. CASE PayoutSucceeds(h)
    <3>1. handlers' = [handlers EXCEPT ![h].pc = "lock_wallet"]
            \/ handlers' = [handlers EXCEPT ![h] = Idle]
      BY <2>11 DEF PayoutSucceeds
    <3>2. payouts' = [payouts EXCEPT ![handlers[h].tx] = @ + 1]
      BY <2>11 DEF PayoutSucceeds
    <3>3. UNCHANGED <<balance, tx, payments, locks, credited, debited, posted, failures>>
      BY <2>11 DEF PayoutSucceeds
    <3>4. payouts' \in [TxIds -> Nat]
      BY <2>0, <2>11, <3>2 DEF PayoutSucceeds, HasRow
    <3>5. handlers' \in [Handlers -> [pc : HandlerPcs, tx : TxIds \cup {NoTx},
                                      wallet : Wallets \cup {NoWallet}, amount : Nat,
                                      key : Keys \cup {NoKey}, seen : Nat]]
      BY <2>0, <3>1, SMTT(30)
    <3> QED BY <3>3, <3>4, <3>5
  <2>12. CASE PayoutFails(h)
    BY <2>0, <2>1, <2>12 DEF PayoutFails, HasRow, Approving, Statuses
  <2>13. CASE LockWallet(h)
    BY <2>0, <2>13 DEF LockWallet, HasRow
  <2>14. CASE CommitDebit(h)
    BY <2>0, <2>1, <2>14
       DEF CommitDebit, ReleaseRow, HasRow, HoldsRow, Approving, Statuses
  <2>15. CASE CommitShortfall(h)
    BY <2>0, <2>1, <2>15
       DEF CommitShortfall, ReleaseRow, HasRow, Approving, Statuses, ShortfallStatus
  <2> QED
    BY <1>5, <2>2, <2>3, <2>4, <2>5, <2>6, <2>7, <2>8, <2>9, <2>10, <2>11, <2>12,
       <2>13, <2>14, <2>15 DEF Continue
<1>6. ASSUME NEW h \in Handlers, RequestFails(h)
      PROVE  TypeOK'
  BY <1>6 DEF RequestFails, ReleaseLock, ReleaseRow, Finish, Idle, HandlerPcs
<1>7. ASSUME NEW id \in TxIds, SettlePayment(id)
      PROVE  TypeOK'
  BY <1>7 DEF SettlePayment, PaymentStates
<1> QED
  BY <1>1, <1>2, <1>3, <1>4, <1>5, <1>6, <1>7 DEF Next, Quiescent

(* A request that creates a row keeps its id to itself. *)
LEMMA StepOwnsNewId ==
  ASSUME LedgerInv, [Next]_vars, TypeOK', NEW g \in Handlers
  PROVE  OwnsNewId(g)'
<1> USE NullsAreNotValues DEF OwnsNewId, Creating, Crediting, Approving, Stored, HasRow, NoRow, Row, Idle
<1>0. /\ TypeOK
      /\ \A h \in Handlers : OwnsNewId(h) /\ HasRow(h) /\ HoldsRow(h) /\ MoneyFirst(h)
      /\ PaymentsAreDeposits
  BY DEF LedgerInv
<1>1. CASE UNCHANGED vars
  BY <1>0, <1>1 DEF vars, TypeOK
<1>2. ASSUME NEW h \in Handlers, ClientRequest(h)
      PROVE  OwnsNewId(g)'
  <2>1. PICK w \in Wallets, a \in DepositAmounts \cup WithdrawalAmounts,
             k \in Keys \cup {NoKey}, id \in FreshIds,
             pc \in {"create_payment", "check_funds"} :
               /\ Begin(h, pc, id, w, a, k)
               /\ UNCHANGED <<balance, tx, payments, locks, books, failures>>
    BY <1>2 DEF ClientRequest, InitializeDeposit, RequestWithdrawal
  <2>2. /\ ~Stored(id) /\ payments[id] = "none"
        /\ \A f \in Handlers : handlers[f].tx # id
    BY DEF FreshIds
  <2> QED BY <1>0, <2>1, <2>2 DEF TypeOK, Begin
<1>3. ASSUME NEW h \in Handlers, Webhook(h)
      PROVE  OwnsNewId(g)'
  BY <1>0, <1>3 DEF TypeOK, Webhook, ReceiveWebhook, Begin, AfterChecks, Reports, IsSuccess
<1>4. ASSUME NEW h \in Handlers, \E id \in TxIds : StartApproval(h, id)
      PROVE  OwnsNewId(g)'
  BY <1>0, <1>4 DEF TypeOK, StartApproval, Begin, Approvable
<1>5. ASSUME NEW h \in Handlers, Continue(h)
      PROVE  OwnsNewId(g)'
  <2>1. CASE CreatePayment(h)
    <3>1. handlers[h].pc = "create_payment" /\ UNCHANGED tx
      BY <2>1 DEF CreatePayment
    <3>2. CASE /\ payments' = [payments EXCEPT ![handlers[h].tx] = "issued"]
               /\ handlers' = [handlers EXCEPT ![h].pc = "record_deposit"]
      BY <1>0, <3>1, <3>2 DEF TypeOK
    <3>3. CASE handlers' = [handlers EXCEPT ![h] = Idle] /\ UNCHANGED payments
      BY <1>0, <3>1, <3>3 DEF TypeOK
    <3> QED BY <2>1, <3>2, <3>3 DEF CreatePayment, Goto, Finish
  <2>2. CASE RecordDeposit(h)
    BY <1>0, <2>2 DEF TypeOK, Goto, Finish, RecordDeposit, Insert
  <2>3. CASE MarkDepositFailed(h)
    BY <1>0, <2>3 DEF TypeOK, Goto, Finish, MarkDepositFailed, SetStatus
  <2>4. CASE AcquireLock(h)
    <3>1. \/ handlers' = [handlers EXCEPT ![h].pc = "read_wallet"]
          \/ handlers' = [handlers EXCEPT ![h] = Idle]
      BY <2>4 DEF AcquireLock, Goto, Finish
    <3>2. handlers[h].pc = "acquire_lock" /\ UNCHANGED <<tx, payments>>
      BY <2>4 DEF AcquireLock
    <3> QED BY <1>0, <3>1, <3>2, SMTT(30) DEF TypeOK
  <2>5. CASE ReadWallet(h)
    BY <1>0, <2>5 DEF TypeOK, Goto, Finish, ReadWallet
  <2>6. CASE CreditWallet(h)
    BY <1>0, <2>6 DEF TypeOK, Goto, Finish, CreditWallet, RowFree
  <2>7. CASE CompleteDeposit(h)
    BY <1>0, <2>7 DEF TypeOK, Goto, Finish, CompleteDeposit, SetStatus, ReleaseLock
  <2>8. CASE CheckFunds(h)
    <3>1. \/ handlers' = [handlers EXCEPT ![h].pc = "record_withdrawal"]
          \/ handlers' = [handlers EXCEPT ![h] = Idle]
      BY <2>8 DEF CheckFunds, Goto, Finish
    <3>2. handlers[h].pc = "check_funds" /\ UNCHANGED <<tx, payments>>
      BY <2>8 DEF CheckFunds
    <3>3. CASE handlers' = [handlers EXCEPT ![h].pc = "record_withdrawal"]
      BY <1>0, <3>2, <3>3 DEF TypeOK
    <3>4. CASE handlers' = [handlers EXCEPT ![h] = Idle]
      BY <1>0, <3>2, <3>4 DEF TypeOK
    <3> QED BY <3>1, <3>3, <3>4
  <2>9. CASE RecordWithdrawal(h)
    BY <1>0, <2>9 DEF TypeOK, Goto, Finish, RecordWithdrawal, Insert
  <2>10. CASE PayoutSucceeds(h)
    BY <1>0, <2>10 DEF TypeOK, Goto, Finish, PayoutSucceeds
  <2>11. CASE PayoutFails(h)
    <3>1. \/ tx' = [tx EXCEPT ![handlers[h].tx].status = "PAYMENT_FAILED"]
          \/ UNCHANGED tx
      BY <2>11 DEF PayoutFails, SetStatus
    <3>2. /\ handlers[h].pc = "payout" /\ handlers' = [handlers EXCEPT ![h] = Idle]
          /\ UNCHANGED <<balance, payments, locks, books>>
      BY <2>11 DEF PayoutFails, Finish
    <3> QED BY <1>0, <3>1, <3>2 DEF TypeOK
  <2>12. CASE LockWallet(h)
    <3>1. \E pc \in {"debit", "shortfall"} : handlers' =
            [handlers EXCEPT ![h].seen = balance[handlers[h].wallet], ![h].pc = pc]
      BY <2>12 DEF LockWallet
    <3>2. handlers[h].pc = "lock_wallet" /\ UNCHANGED <<balance, tx, payments, books>>
      BY <2>12 DEF LockWallet
    <3> QED BY <1>0, <3>1, <3>2 DEF TypeOK
  <2>13. CASE CommitDebit(h)
    BY <1>0, <2>13 DEF TypeOK, Goto, Finish, CommitDebit, SetStatus, ReleaseRow
  <2>14. CASE CommitShortfall(h)
    BY <1>0, <2>14 DEF TypeOK, Goto, Finish, CommitShortfall, SetStatus, ReleaseRow
  <2> QED
    BY <1>5, <2>1, <2>2, <2>3, <2>4, <2>5, <2>6, <2>7, <2>8, <2>9, <2>10, <2>11, <2>12, <2>13, <2>14 DEF Continue
<1>6. ASSUME NEW h \in Handlers, RequestFails(h)
      PROVE  OwnsNewId(g)'
  BY <1>0, <1>6 DEF TypeOK, RequestFails, ReleaseLock, ReleaseRow, Finish
<1>7. ASSUME NEW id \in TxIds, SettlePayment(id)
      PROVE  OwnsNewId(g)'
  BY <1>0, <1>7 DEF TypeOK, SettlePayment
<1> QED
  BY <1>1, <1>2, <1>3, <1>4, <1>5, <1>6, <1>7 DEF Next, Quiescent

(* A request that settles a row keeps working on a row of its type. *)
LEMMA StepHasRow ==
  ASSUME LedgerInv, [Next]_vars, TypeOK', NEW g \in Handlers
  PROVE  HasRow(g)'
<1> USE NullsAreNotValues DEF OwnsNewId, HasRow, Creating, Crediting, Approving, Stored, PaymentsAreDeposits, NoRow, Row, Idle
<1>0. /\ TypeOK
      /\ \A h \in Handlers : OwnsNewId(h) /\ HasRow(h) /\ HoldsRow(h) /\ MoneyFirst(h)
      /\ PaymentsAreDeposits
  BY DEF LedgerInv
<1>1. CASE UNCHANGED vars
  BY <1>0, <1>1 DEF vars, TypeOK
<1>2. ASSUME NEW h \in Handlers, ClientRequest(h)
      PROVE  HasRow(g)'
  BY <1>0, <1>2 DEF TypeOK, ClientRequest, InitializeDeposit, RequestWithdrawal, Begin, FreshIds, NewKey
<1>3. ASSUME NEW h \in Handlers, Webhook(h)
      PROVE  HasRow(g)'
  BY <1>0, <1>3 DEF TypeOK, Webhook, ReceiveWebhook, Begin, AfterChecks, Reports, IsSuccess
<1>4. ASSUME NEW h \in Handlers, \E id \in TxIds : StartApproval(h, id)
      PROVE  HasRow(g)'
  BY <1>0, <1>4 DEF TypeOK, StartApproval, Begin, Approvable
<1>5. ASSUME NEW h \in Handlers, Continue(h)
      PROVE  HasRow(g)'
  <2>1. CASE CreatePayment(h)
    BY <1>0, <2>1 DEF TypeOK, Goto, Finish, CreatePayment
  <2>2. CASE RecordDeposit(h)
    BY <1>0, <2>2 DEF TypeOK, Goto, Finish, RecordDeposit, Insert
  <2>3. CASE MarkDepositFailed(h)
    BY <1>0, <2>3 DEF TypeOK, Goto, Finish, MarkDepositFailed, SetStatus
  <2>4. CASE AcquireLock(h)
    BY <1>0, <2>4 DEF TypeOK, Goto, Finish, AcquireLock, LockFree
  <2>5. CASE ReadWallet(h)
    BY <1>0, <2>5 DEF TypeOK, Goto, Finish, ReadWallet
  <2>6. CASE CreditWallet(h)
    BY <1>0, <2>6 DEF TypeOK, Goto, Finish, CreditWallet, RowFree
  <2>7. CASE CompleteDeposit(h)
    BY <1>0, <2>7 DEF TypeOK, Goto, Finish, CompleteDeposit, SetStatus, ReleaseLock
  <2>8. CASE CheckFunds(h)
    BY <1>0, <2>8 DEF TypeOK, Goto, Finish, CheckFunds, HasSufficientFunds
  <2>9. CASE RecordWithdrawal(h)
    BY <1>0, <2>9 DEF TypeOK, Goto, Finish, RecordWithdrawal, Insert
  <2>10. CASE PayoutSucceeds(h)
    BY <1>0, <2>10 DEF TypeOK, Goto, Finish, PayoutSucceeds
  <2>11. CASE PayoutFails(h)
    <3>1. \/ tx' = [tx EXCEPT ![handlers[h].tx].status = "PAYMENT_FAILED"]
          \/ UNCHANGED tx
      BY <2>11 DEF PayoutFails, SetStatus
    <3>2. handlers' = [handlers EXCEPT ![h] = Idle]
      BY <2>11 DEF PayoutFails, Finish
    <3>3. \A id \in TxIds : tx'[id].type = tx[id].type
      BY <1>0, <3>1, SMTT(30) DEF TypeOK
    <3> QED BY <1>0, <3>2, <3>3 DEF TypeOK
  <2>12. CASE LockWallet(h)
    <3>1. \E pc \in {"debit", "shortfall"} : handlers' =
            [handlers EXCEPT ![h].seen = balance[handlers[h].wallet], ![h].pc = pc]
      BY <2>12 DEF LockWallet
    <3>2. handlers[h].pc = "lock_wallet" /\ UNCHANGED <<balance, tx, payments, books>>
      BY <2>12 DEF LockWallet
    <3> QED BY <1>0, <3>1, <3>2 DEF TypeOK
  <2>13. CASE CommitDebit(h)
    BY <1>0, <2>13 DEF TypeOK, Goto, Finish, CommitDebit, SetStatus, ReleaseRow
  <2>14. CASE CommitShortfall(h)
    BY <1>0, <2>14 DEF TypeOK, Goto, Finish, CommitShortfall, SetStatus, ReleaseRow
  <2> QED
    BY <1>5, <2>1, <2>2, <2>3, <2>4, <2>5, <2>6, <2>7, <2>8, <2>9, <2>10, <2>11, <2>12, <2>13, <2>14 DEF Continue
<1>6. ASSUME NEW h \in Handlers, RequestFails(h)
      PROVE  HasRow(g)'
  BY <1>0, <1>6 DEF TypeOK, RequestFails, ReleaseLock, ReleaseRow, Finish
<1>7. ASSUME NEW id \in TxIds, SettlePayment(id)
      PROVE  HasRow(g)'
  BY <1>0, <1>7 DEF TypeOK, SettlePayment
<1> QED
  BY <1>1, <1>2, <1>3, <1>4, <1>5, <1>6, <1>7 DEF Next, Quiescent

(* A debit is computed from a balance nobody else can change meanwhile. *)
LEMMA StepHoldsRow ==
  ASSUME LedgerInv, [Next]_vars, TypeOK', NEW g \in Handlers
  PROVE  HoldsRow(g)'
<1> USE NullsAreNotValues DEF HoldsRow, HasRow, Idle
<1>0. /\ TypeOK
      /\ \A h \in Handlers : OwnsNewId(h) /\ HasRow(h) /\ HoldsRow(h) /\ MoneyFirst(h)
      /\ PaymentsAreDeposits
  BY DEF LedgerInv
<1>1. CASE UNCHANGED vars
  BY <1>0, <1>1 DEF vars, TypeOK
<1>2. ASSUME NEW h \in Handlers, ClientRequest(h)
      PROVE  HoldsRow(g)'
  BY <1>0, <1>2 DEF TypeOK, ClientRequest, InitializeDeposit, RequestWithdrawal, Begin, FreshIds, NewKey
<1>3. ASSUME NEW h \in Handlers, Webhook(h)
      PROVE  HoldsRow(g)'
  BY <1>0, <1>3 DEF TypeOK, Webhook, ReceiveWebhook, Begin, AfterChecks, Reports, IsSuccess
<1>4. ASSUME NEW h \in Handlers, \E id \in TxIds : StartApproval(h, id)
      PROVE  HoldsRow(g)'
  BY <1>0, <1>4 DEF TypeOK, StartApproval, Begin, Approvable
<1>5. ASSUME NEW h \in Handlers, Continue(h)
      PROVE  HoldsRow(g)'
  <2>1. CASE CreatePayment(h)
    BY <1>0, <2>1 DEF TypeOK, Goto, Finish, CreatePayment
  <2>2. CASE RecordDeposit(h)
    BY <1>0, <2>2 DEF TypeOK, Goto, Finish, RecordDeposit, Insert
  <2>3. CASE MarkDepositFailed(h)
    BY <1>0, <2>3 DEF TypeOK, Goto, Finish, MarkDepositFailed, SetStatus
  <2>4. CASE AcquireLock(h)
    <3>1. \/ handlers' = [handlers EXCEPT ![h].pc = "read_wallet"]
          \/ handlers' = [handlers EXCEPT ![h] = Idle]
      BY <2>4 DEF AcquireLock, Goto, Finish
    <3>2. UNCHANGED <<balance, rowLock>>
      BY <2>4 DEF AcquireLock
    <3> QED BY <1>0, <3>1, <3>2 DEF TypeOK
  <2>5. CASE ReadWallet(h)
    BY <1>0, <2>5 DEF TypeOK, Goto, Finish, ReadWallet
  <2>6. CASE CreditWallet(h)
    BY <1>0, <2>6 DEF TypeOK, Goto, Finish, CreditWallet, RowFree
  <2>7. CASE CompleteDeposit(h)
    BY <1>0, <2>7 DEF TypeOK, Goto, Finish, CompleteDeposit, SetStatus, ReleaseLock
  <2>8. CASE CheckFunds(h)
    BY <1>0, <2>8 DEF TypeOK, Goto, Finish, CheckFunds, HasSufficientFunds
  <2>9. CASE RecordWithdrawal(h)
    BY <1>0, <2>9 DEF TypeOK, Goto, Finish, RecordWithdrawal, Insert
  <2>10. CASE PayoutSucceeds(h)
    BY <1>0, <2>10 DEF TypeOK, Goto, Finish, PayoutSucceeds
  <2>11. CASE PayoutFails(h)
    BY <1>0, <2>11 DEF TypeOK, Goto, Finish, PayoutFails, SetStatus
  <2>12. CASE LockWallet(h)
    BY <1>0, <2>12 DEF TypeOK, Goto, Finish, LockWallet, RowFree, HasSufficientFunds
  <2>13. CASE CommitDebit(h)
    BY <1>0, <2>13 DEF TypeOK, Goto, Finish, CommitDebit, SetStatus, ReleaseRow
  <2>14. CASE CommitShortfall(h)
    BY <1>0, <2>14 DEF TypeOK, Goto, Finish, CommitShortfall, SetStatus, ReleaseRow
  <2> QED
    BY <1>5, <2>1, <2>2, <2>3, <2>4, <2>5, <2>6, <2>7, <2>8, <2>9, <2>10, <2>11, <2>12, <2>13, <2>14 DEF Continue
<1>6. ASSUME NEW h \in Handlers, RequestFails(h)
      PROVE  HoldsRow(g)'
  BY <1>0, <1>6 DEF TypeOK, RequestFails, ReleaseLock, ReleaseRow, Finish
<1>7. ASSUME NEW id \in TxIds, SettlePayment(id)
      PROVE  HoldsRow(g)'
  BY <1>0, <1>7 DEF TypeOK, SettlePayment
<1> QED
  BY <1>1, <1>2, <1>3, <1>4, <1>5, <1>6, <1>7 DEF Next, Quiescent

(* No request credits an unpaid deposit or completes an uncredited one. *)
LEMMA StepMoneyFirst ==
  ASSUME LedgerInv, [Next]_vars, TypeOK', NEW g \in Handlers
  PROVE  MoneyFirst(g)'
<1> USE NullsAreNotValues DEF MoneyFirst, OwnsNewId, HasRow, Creating, Crediting, Idle
<1>0. /\ TypeOK
      /\ \A h \in Handlers : OwnsNewId(h) /\ HasRow(h) /\ HoldsRow(h) /\ MoneyFirst(h)
      /\ PaymentsAreDeposits
  BY DEF LedgerInv
<1>1. CASE UNCHANGED vars
  BY <1>0, <1>1 DEF vars, TypeOK
<1>2. ASSUME NEW h \in Handlers, ClientRequest(h)
      PROVE  MoneyFirst(g)'
  BY <1>0, <1>2 DEF TypeOK, ClientRequest, InitializeDeposit, RequestWithdrawal, Begin, FreshIds, NewKey
<1>3. ASSUME NEW h \in Handlers, Webhook(h)
      PROVE  MoneyFirst(g)'
  <2>1. PICK id \in TxIds, a \in DepositAmounts,
             pc \in {"mark_failed", "acquire_lock", "read_wallet"} :
               /\ pc # "mark_failed" => payments[id] = "paid"
               /\ Begin(h, pc, id, tx[id].wallet, a, NoKey)
               /\ UNCHANGED <<balance, tx, payments, locks, books, failures>>
    <3>1. PICK id \in TxIds, a \in DepositAmounts,
               status \in {"pending", "success", "failed"} :
                 ReceiveWebhook(h, id, a, status)
      BY <1>3 DEF Webhook
    <3>2. status = "success" => payments[id] = "paid"
      BY <1>0, <3>1 DEF ReceiveWebhook, Reports, TypeOK, PaymentStates
    <3> QED BY <3>1, <3>2 DEF ReceiveWebhook, AfterChecks, IsSuccess
  <2> QED BY <1>0, <2>1 DEF TypeOK, Begin
<1>4. ASSUME NEW h \in Handlers, \E id \in TxIds : StartApproval(h, id)
      PROVE  MoneyFirst(g)'
  BY <1>0, <1>4 DEF TypeOK, StartApproval, Begin, Approvable
<1>5. ASSUME NEW h \in Handlers, Continue(h)
      PROVE  MoneyFirst(g)'
  <2>1. CASE CreatePayment(h)
    BY <1>0, <2>1 DEF TypeOK, Goto, Finish, CreatePayment
  <2>2. CASE RecordDeposit(h)
    BY <1>0, <2>2 DEF TypeOK, Goto, Finish, RecordDeposit, Insert
  <2>3. CASE MarkDepositFailed(h)
    BY <1>0, <2>3 DEF TypeOK, Goto, Finish, MarkDepositFailed, SetStatus
  <2>4. CASE AcquireLock(h)
    BY <1>0, <2>4 DEF TypeOK, Goto, Finish, AcquireLock, LockFree
  <2>5. CASE ReadWallet(h)
    BY <1>0, <2>5 DEF TypeOK, Goto, Finish, ReadWallet
  <2>6. CASE CreditWallet(h)
    BY <1>0, <2>6 DEF TypeOK, Goto, Finish, CreditWallet, RowFree
  <2>7. CASE CompleteDeposit(h)
    BY <1>0, <2>7 DEF TypeOK, Goto, Finish, CompleteDeposit, SetStatus, ReleaseLock
  <2>8. CASE CheckFunds(h)
    BY <1>0, <2>8 DEF TypeOK, Goto, Finish, CheckFunds, HasSufficientFunds
  <2>9. CASE RecordWithdrawal(h)
    BY <1>0, <2>9 DEF TypeOK, Goto, Finish, RecordWithdrawal, Insert
  <2>10. CASE PayoutSucceeds(h)
    BY <1>0, <2>10 DEF TypeOK, Goto, Finish, PayoutSucceeds
  <2>11. CASE PayoutFails(h)
    BY <1>0, <2>11 DEF TypeOK, Finish, PayoutFails
  <2>12. CASE LockWallet(h)
    <3>1. \E pc \in {"debit", "shortfall"} : handlers' =
            [handlers EXCEPT ![h].seen = balance[handlers[h].wallet], ![h].pc = pc]
      BY <2>12 DEF LockWallet
    <3>2. handlers[h].pc = "lock_wallet" /\ UNCHANGED <<balance, tx, payments, books>>
      BY <2>12 DEF LockWallet
    <3> QED BY <1>0, <3>1, <3>2 DEF TypeOK
  <2>13. CASE CommitDebit(h)
    BY <1>0, <2>13 DEF TypeOK, Goto, Finish, CommitDebit, SetStatus, ReleaseRow
  <2>14. CASE CommitShortfall(h)
    BY <1>0, <2>14 DEF TypeOK, Goto, Finish, CommitShortfall, SetStatus, ReleaseRow
  <2> QED
    BY <1>5, <2>1, <2>2, <2>3, <2>4, <2>5, <2>6, <2>7, <2>8, <2>9, <2>10, <2>11, <2>12, <2>13, <2>14 DEF Continue
<1>6. ASSUME NEW h \in Handlers, RequestFails(h)
      PROVE  MoneyFirst(g)'
  BY <1>0, <1>6 DEF TypeOK, RequestFails, ReleaseLock, ReleaseRow, Finish
<1>7. ASSUME NEW id \in TxIds, SettlePayment(id)
      PROVE  MoneyFirst(g)'
  BY <1>0, <1>7 DEF TypeOK, SettlePayment
<1> QED
  BY <1>1, <1>2, <1>3, <1>4, <1>5, <1>6, <1>7 DEF Next, Quiescent

(* A row whose id has a payment at the gateway is a deposit. *)
LEMMA StepPaymentsAreDeposits ==
  ASSUME LedgerInv, [Next]_vars, TypeOK'
  PROVE  PaymentsAreDeposits'
<1> USE NullsAreNotValues DEF PaymentsAreDeposits, OwnsNewId, HasRow, Creating, Crediting, Approving, Stored, NoRow, Row, Statuses, Idle
<1>0. TypeOK /\ PaymentsAreDeposits /\ \A h \in Handlers : OwnsNewId(h) /\ HasRow(h) /\ MoneyFirst(h)
  BY DEF LedgerInv
<1>1. CASE UNCHANGED vars
  BY <1>0, <1>1 DEF vars, TypeOK
<1>2. ASSUME NEW h \in Handlers, ClientRequest(h) \/ Webhook(h) \/ (\E id \in TxIds : StartApproval(h, id))
      PROVE  PaymentsAreDeposits'
  BY <1>0, <1>2 DEF TypeOK, ClientRequest, InitializeDeposit, RequestWithdrawal,
     Webhook, ReceiveWebhook, StartApproval
<1>3. ASSUME NEW h \in Handlers, Continue(h)
      PROVE  PaymentsAreDeposits'
  <2>1. CASE CreatePayment(h)
    BY <1>0, <2>1 DEF TypeOK, Goto, Finish, CreatePayment
  <2>2. CASE RecordDeposit(h)
    BY <1>0, <2>2 DEF TypeOK, Goto, Finish, RecordDeposit, Insert
  <2>3. CASE MarkDepositFailed(h)
    BY <1>0, <2>3 DEF TypeOK, Goto, Finish, MarkDepositFailed, SetStatus
  <2>4. CASE AcquireLock(h)
    BY <1>0, <2>4 DEF TypeOK, Goto, Finish, AcquireLock, LockFree
  <2>5. CASE ReadWallet(h)
    BY <1>0, <2>5 DEF TypeOK, Goto, Finish, ReadWallet
  <2>6. CASE CreditWallet(h)
    BY <1>0, <2>6 DEF TypeOK, Goto, Finish, CreditWallet, RowFree
  <2>7. CASE CompleteDeposit(h)
    BY <1>0, <2>7 DEF TypeOK, Goto, Finish, CompleteDeposit, SetStatus, ReleaseLock
  <2>8. CASE CheckFunds(h)
    BY <1>0, <2>8 DEF TypeOK, Goto, Finish, CheckFunds, HasSufficientFunds
  <2>9. CASE RecordWithdrawal(h)
    BY <1>0, <2>9 DEF TypeOK, Goto, Finish, RecordWithdrawal, Insert
  <2>10. CASE PayoutSucceeds(h)
    BY <1>0, <2>10 DEF TypeOK, Goto, Finish, PayoutSucceeds
  <2>11. CASE PayoutFails(h)
    <3>1. \/ tx' = [tx EXCEPT ![handlers[h].tx].status = "PAYMENT_FAILED"]
          \/ UNCHANGED tx
      BY <2>11 DEF PayoutFails, SetStatus
    <3>2. /\ handlers[h].pc = "payout" /\ handlers' = [handlers EXCEPT ![h] = Idle]
          /\ UNCHANGED <<balance, payments, locks, books>>
      BY <2>11 DEF PayoutFails, Finish
    <3> QED BY <1>0, <3>1, <3>2 DEF TypeOK
  <2>12. CASE LockWallet(h)
    <3>1. \E pc \in {"debit", "shortfall"} : handlers' =
            [handlers EXCEPT ![h].seen = balance[handlers[h].wallet], ![h].pc = pc]
      BY <2>12 DEF LockWallet
    <3>2. handlers[h].pc = "lock_wallet" /\ UNCHANGED <<balance, tx, payments, books>>
      BY <2>12 DEF LockWallet
    <3> QED BY <1>0, <3>1, <3>2 DEF TypeOK
  <2>13. CASE CommitDebit(h)
    BY <1>0, <2>13, SMTT(30) DEF TypeOK, Goto, Finish, CommitDebit, SetStatus, ReleaseRow
  <2>14. CASE CommitShortfall(h)
    BY <1>0, <2>14 DEF TypeOK, Goto, Finish, CommitShortfall, SetStatus, ReleaseRow, ShortfallStatus
  <2> QED
    BY <1>3, <2>1, <2>2, <2>3, <2>4, <2>5, <2>6, <2>7, <2>8, <2>9, <2>10, <2>11, <2>12, <2>13, <2>14 DEF Continue
<1>4. ASSUME NEW h \in Handlers, RequestFails(h)
      PROVE  PaymentsAreDeposits'
  BY <1>0, <1>4 DEF TypeOK, RequestFails, ReleaseLock, ReleaseRow, Finish
<1>5. ASSUME NEW id \in TxIds, SettlePayment(id)
      PROVE  PaymentsAreDeposits'
  BY <1>0, <1>5 DEF TypeOK, SettlePayment
<1> QED
  BY <1>1, <1>2, <1>3, <1>4, <1>5 DEF Next, Quiescent

(* No step credits a deposit the user has not paid for. *)
LEMMA StepCreditedWasPaid ==
  ASSUME LedgerInv, [Next]_vars, TypeOK'
  PROVE  CreditedWasPaid'
<1> USE DEF CreditedWasPaid, OwnsNewId, HasRow, MoneyFirst, Creating, Crediting, PaymentStates
<1>0. TypeOK /\ CreditedWasPaid /\ \A h \in Handlers : OwnsNewId(h) /\ HasRow(h) /\ MoneyFirst(h)
  BY DEF LedgerInv
<1>1. CASE UNCHANGED vars
  BY <1>0, <1>1 DEF vars, TypeOK
<1>2. ASSUME NEW h \in Handlers, ClientRequest(h) \/ Webhook(h) \/ (\E id \in TxIds : StartApproval(h, id))
      PROVE  CreditedWasPaid'
  BY <1>0, <1>2 DEF TypeOK, ClientRequest, InitializeDeposit, RequestWithdrawal,
     Webhook, ReceiveWebhook, StartApproval
<1>3. ASSUME NEW h \in Handlers, Continue(h)
      PROVE  CreditedWasPaid'
  <2>1. CASE CreatePayment(h)
    BY <1>0, <2>1 DEF TypeOK, Goto, Finish, CreatePayment
  <2>2. CASE RecordDeposit(h)
    BY <1>0, <2>2 DEF TypeOK, Goto, Finish, RecordDeposit, Insert
  <2>3. CASE MarkDepositFailed(h)
    BY <1>0, <2>3 DEF TypeOK, Goto, Finish, MarkDepositFailed, SetStatus
  <2>4. CASE AcquireLock(h)
    BY <1>0, <2>4 DEF TypeOK, Goto, Finish, AcquireLock, LockFree
  <2>5. CASE ReadWallet(h)
    BY <1>0, <2>5 DEF TypeOK, Goto, Finish, ReadWallet
  <2>6. CASE CreditWallet(h)
    BY <1>0, <2>6 DEF TypeOK, Goto, Finish, CreditWallet, RowFree
  <2>7. CASE CompleteDeposit(h)
    BY <1>0, <2>7 DEF TypeOK, Goto, Finish, CompleteDeposit, SetStatus, ReleaseLock
  <2>8. CASE CheckFunds(h)
    BY <1>0, <2>8 DEF TypeOK, Goto, Finish, CheckFunds, HasSufficientFunds
  <2>9. CASE RecordWithdrawal(h)
    BY <1>0, <2>9 DEF TypeOK, Goto, Finish, RecordWithdrawal, Insert
  <2>10. CASE PayoutSucceeds(h)
    BY <1>0, <2>10 DEF TypeOK, Goto, Finish, PayoutSucceeds
  <2>11. CASE PayoutFails(h)
    BY <1>0, <2>11 DEF TypeOK, Goto, Finish, PayoutFails, SetStatus
  <2>12. CASE LockWallet(h)
    <3>1. \E pc \in {"debit", "shortfall"} : handlers' =
            [handlers EXCEPT ![h].seen = balance[handlers[h].wallet], ![h].pc = pc]
      BY <2>12 DEF LockWallet
    <3>2. handlers[h].pc = "lock_wallet" /\ UNCHANGED <<balance, tx, payments, books>>
      BY <2>12 DEF LockWallet
    <3> QED BY <1>0, <3>1, <3>2 DEF TypeOK
  <2>13. CASE CommitDebit(h)
    BY <1>0, <2>13 DEF TypeOK, Goto, Finish, CommitDebit, SetStatus, ReleaseRow
  <2>14. CASE CommitShortfall(h)
    BY <1>0, <2>14 DEF TypeOK, Goto, Finish, CommitShortfall, SetStatus, ReleaseRow, ShortfallStatus
  <2> QED
    BY <1>3, <2>1, <2>2, <2>3, <2>4, <2>5, <2>6, <2>7, <2>8, <2>9, <2>10, <2>11, <2>12, <2>13, <2>14 DEF Continue
<1>4. ASSUME NEW h \in Handlers, RequestFails(h)
      PROVE  CreditedWasPaid'
  BY <1>0, <1>4 DEF TypeOK, RequestFails, ReleaseLock, ReleaseRow, Finish
<1>5. ASSUME NEW id \in TxIds, SettlePayment(id)
      PROVE  CreditedWasPaid'
  BY <1>0, <1>5 DEF TypeOK, SettlePayment
<1> QED
  BY <1>1, <1>2, <1>3, <1>4, <1>5 DEF Next, Quiescent

(* No step shows a deposit as COMPLETED that has not been credited. *)
LEMMA StepCompletedDepositCredited ==
  ASSUME LedgerInv, [Next]_vars, TypeOK'
  PROVE  CompletedDepositCredited'
<1> USE NullsAreNotValues DEF CompletedDepositCredited, HasRow, MoneyFirst, Crediting, Approving, NoRow, Row
<1>0. TypeOK /\ CompletedDepositCredited /\ \A h \in Handlers : OwnsNewId(h) /\ HasRow(h) /\ MoneyFirst(h)
  BY DEF LedgerInv
<1>1. CASE UNCHANGED vars
  BY <1>0, <1>1 DEF vars, TypeOK
<1>2. ASSUME NEW h \in Handlers, ClientRequest(h) \/ Webhook(h) \/ (\E id \in TxIds : StartApproval(h, id))
      PROVE  CompletedDepositCredited'
  BY <1>0, <1>2 DEF TypeOK, ClientRequest, InitializeDeposit, RequestWithdrawal,
     Webhook, ReceiveWebhook, StartApproval
<1>3. ASSUME NEW h \in Handlers, Continue(h)
      PROVE  CompletedDepositCredited'
  <2>1. CASE CreatePayment(h)
    BY <1>0, <2>1 DEF TypeOK, Goto, Finish, CreatePayment
  <2>2. CASE RecordDeposit(h)
    BY <1>0, <2>2 DEF TypeOK, Goto, Finish, RecordDeposit, Insert
  <2>3. CASE MarkDepositFailed(h)
    BY <1>0, <2>3 DEF TypeOK, Goto, Finish, MarkDepositFailed, SetStatus
  <2>4. CASE AcquireLock(h)
    BY <1>0, <2>4 DEF TypeOK, Goto, Finish, AcquireLock, LockFree
  <2>5. CASE ReadWallet(h)
    BY <1>0, <2>5 DEF TypeOK, Goto, Finish, ReadWallet
  <2>6. CASE CreditWallet(h)
    BY <1>0, <2>6 DEF TypeOK, Goto, Finish, CreditWallet, RowFree
  <2>7. CASE CompleteDeposit(h)
    BY <1>0, <2>7 DEF TypeOK, Goto, Finish, CompleteDeposit, SetStatus, ReleaseLock
  <2>8. CASE CheckFunds(h)
    BY <1>0, <2>8 DEF TypeOK, Goto, Finish, CheckFunds, HasSufficientFunds
  <2>9. CASE RecordWithdrawal(h)
    BY <1>0, <2>9 DEF TypeOK, Goto, Finish, RecordWithdrawal, Insert
  <2>10. CASE PayoutSucceeds(h)
    BY <1>0, <2>10 DEF TypeOK, Goto, Finish, PayoutSucceeds
  <2>11. CASE PayoutFails(h)
    BY <1>0, <2>11, SMTT(30) DEF TypeOK, Finish, PayoutFails, SetStatus
  <2>12. CASE LockWallet(h)
    <3>1. \E pc \in {"debit", "shortfall"} : handlers' =
            [handlers EXCEPT ![h].seen = balance[handlers[h].wallet], ![h].pc = pc]
      BY <2>12 DEF LockWallet
    <3>2. handlers[h].pc = "lock_wallet" /\ UNCHANGED <<balance, tx, payments, books>>
      BY <2>12 DEF LockWallet
    <3> QED BY <1>0, <3>1, <3>2 DEF TypeOK
  <2>13. CASE CommitDebit(h)
    BY <1>0, <2>13 DEF TypeOK, Goto, Finish, CommitDebit, SetStatus, ReleaseRow
  <2>14. CASE CommitShortfall(h)
    BY <1>0, <2>14 DEF TypeOK, Goto, Finish, CommitShortfall, SetStatus, ReleaseRow, ShortfallStatus
  <2> QED
    BY <1>3, <2>1, <2>2, <2>3, <2>4, <2>5, <2>6, <2>7, <2>8, <2>9, <2>10, <2>11, <2>12, <2>13, <2>14 DEF Continue
<1>4. ASSUME NEW h \in Handlers, RequestFails(h)
      PROVE  CompletedDepositCredited'
  BY <1>0, <1>4 DEF TypeOK, RequestFails, ReleaseLock, ReleaseRow, Finish
<1>5. ASSUME NEW id \in TxIds, SettlePayment(id)
      PROVE  CompletedDepositCredited'
  BY <1>0, <1>5 DEF TypeOK, SettlePayment
<1> QED
  BY <1>1, <1>2, <1>3, <1>4, <1>5 DEF Next, Quiescent

(* No step shows a withdrawal as COMPLETED that has not been debited. *)
LEMMA StepCompletedWithdrawalDebited ==
  ASSUME LedgerInv, [Next]_vars, TypeOK'
  PROVE  CompletedWithdrawalDebited'
<1> USE NullsAreNotValues DEF CompletedWithdrawalDebited, HasRow, MoneyFirst, Crediting, Approving, NoRow, Row
<1>0. TypeOK /\ CompletedWithdrawalDebited /\ \A h \in Handlers : OwnsNewId(h) /\ HasRow(h) /\ MoneyFirst(h)
  BY DEF LedgerInv
<1>1. CASE UNCHANGED vars
  BY <1>0, <1>1 DEF vars, TypeOK
<1>2. ASSUME NEW h \in Handlers, ClientRequest(h) \/ Webhook(h) \/ (\E id \in TxIds : StartApproval(h, id))
      PROVE  CompletedWithdrawalDebited'
  BY <1>0, <1>2 DEF TypeOK, ClientRequest, InitializeDeposit, RequestWithdrawal,
     Webhook, ReceiveWebhook, StartApproval
<1>3. ASSUME NEW h \in Handlers, Continue(h)
      PROVE  CompletedWithdrawalDebited'
  <2>1. CASE CreatePayment(h)
    BY <1>0, <2>1 DEF TypeOK, Goto, Finish, CreatePayment
  <2>2. CASE RecordDeposit(h)
    BY <1>0, <2>2 DEF TypeOK, Goto, Finish, RecordDeposit, Insert
  <2>3. CASE MarkDepositFailed(h)
    BY <1>0, <2>3 DEF TypeOK, Goto, Finish, MarkDepositFailed, SetStatus
  <2>4. CASE AcquireLock(h)
    BY <1>0, <2>4 DEF TypeOK, Goto, Finish, AcquireLock, LockFree
  <2>5. CASE ReadWallet(h)
    BY <1>0, <2>5 DEF TypeOK, Goto, Finish, ReadWallet
  <2>6. CASE CreditWallet(h)
    BY <1>0, <2>6 DEF TypeOK, Goto, Finish, CreditWallet, RowFree
  <2>7. CASE CompleteDeposit(h)
    BY <1>0, <2>7 DEF TypeOK, Goto, Finish, CompleteDeposit, SetStatus, ReleaseLock
  <2>8. CASE CheckFunds(h)
    BY <1>0, <2>8 DEF TypeOK, Goto, Finish, CheckFunds, HasSufficientFunds
  <2>9. CASE RecordWithdrawal(h)
    BY <1>0, <2>9, SMTT(30) DEF TypeOK, Finish, RecordWithdrawal, Insert
  <2>10. CASE PayoutSucceeds(h)
    BY <1>0, <2>10 DEF TypeOK, Goto, Finish, PayoutSucceeds
  <2>11. CASE PayoutFails(h)
    BY <1>0, <2>11 DEF TypeOK, Goto, Finish, PayoutFails, SetStatus
  <2>12. CASE LockWallet(h)
    <3>1. \E pc \in {"debit", "shortfall"} : handlers' =
            [handlers EXCEPT ![h].seen = balance[handlers[h].wallet], ![h].pc = pc]
      BY <2>12 DEF LockWallet
    <3>2. handlers[h].pc = "lock_wallet" /\ UNCHANGED <<balance, tx, payments, books>>
      BY <2>12 DEF LockWallet
    <3> QED BY <1>0, <3>1, <3>2 DEF TypeOK
  <2>13. CASE CommitDebit(h)
    BY <1>0, <2>13 DEF TypeOK, Goto, Finish, CommitDebit, SetStatus, ReleaseRow
  <2>14. CASE CommitShortfall(h)
    BY <1>0, <2>14 DEF TypeOK, Goto, Finish, CommitShortfall, SetStatus, ReleaseRow, ShortfallStatus
  <2> QED
    BY <1>3, <2>1, <2>2, <2>3, <2>4, <2>5, <2>6, <2>7, <2>8, <2>9, <2>10, <2>11, <2>12, <2>13, <2>14 DEF Continue
<1>4. ASSUME NEW h \in Handlers, RequestFails(h)
      PROVE  CompletedWithdrawalDebited'
  BY <1>0, <1>4 DEF TypeOK, RequestFails, ReleaseLock, ReleaseRow, Finish
<1>5. ASSUME NEW id \in TxIds, SettlePayment(id)
      PROVE  CompletedWithdrawalDebited'
  BY <1>0, <1>5 DEF TypeOK, SettlePayment
<1> QED
  BY <1>1, <1>2, <1>3, <1>4, <1>5 DEF Next, Quiescent

(* No step stores a second row with the same idempotency key. *)
LEMMA StepOneTransactionPerKey ==
  ASSUME LedgerInv, OneTransactionPerKey, [Next]_vars, TypeOK'
  PROVE  OneTransactionPerKey'
<1> USE DEF OneTransactionPerKey, HasRow, Stored, KeyTaken, Creating, Crediting, Approving
<1>0. TypeOK /\ OneTransactionPerKey /\ \A h \in Handlers : HasRow(h)
  BY DEF LedgerInv
<1>01. ASSUME NEW x \in TxIds, NEW status \in Statuses, SetStatus(x, status),
              tx[x].type # "NONE"
       PROVE  OneTransactionPerKey'
  <2>1. Stored(x)
    BY <1>0, <1>01 DEF TypeOK, Row, NoRow, Statuses
  <2>2. \A i \in TxIds : (Stored(i)' => Stored(i)) /\ tx'[i].key = tx[i].key
    BY <1>0, <1>01, <2>1 DEF TypeOK, SetStatus, Row, NoRow
  <2> QED BY <1>0, <2>2
<1>1. CASE UNCHANGED vars
  BY <1>0, <1>1 DEF vars, TypeOK
<1>2. ASSUME NEW h \in Handlers, ClientRequest(h) \/ Webhook(h) \/ (\E id \in TxIds : StartApproval(h, id))
      PROVE  OneTransactionPerKey'
  BY <1>0, <1>2 DEF TypeOK, ClientRequest, InitializeDeposit, RequestWithdrawal,
     Webhook, ReceiveWebhook, StartApproval
<1>3. ASSUME NEW h \in Handlers, Continue(h)
      PROVE  OneTransactionPerKey'
  <2>1. CASE CreatePayment(h)
    BY <1>0, <2>1 DEF TypeOK, Goto, Finish, CreatePayment
  <2>2. CASE RecordDeposit(h)
    BY <1>0, <2>2 DEF TypeOK, Goto, Finish, RecordDeposit, Insert
  <2>3. CASE MarkDepositFailed(h)
    BY <1>0, <1>01, <2>3 DEF MarkDepositFailed, Statuses
  <2>4. CASE AcquireLock(h)
    BY <1>0, <2>4 DEF TypeOK, Goto, Finish, AcquireLock, LockFree
  <2>5. CASE ReadWallet(h)
    BY <1>0, <2>5 DEF TypeOK, Goto, Finish, ReadWallet
  <2>6. CASE CreditWallet(h)
    BY <1>0, <2>6 DEF TypeOK, Goto, Finish, CreditWallet, RowFree
  <2>7. CASE CompleteDeposit(h)
    BY <1>0, <1>01, <2>7 DEF CompleteDeposit, Statuses
  <2>8. CASE CheckFunds(h)
    BY <1>0, <2>8 DEF TypeOK, Goto, Finish, CheckFunds, HasSufficientFunds
  <2>9. CASE RecordWithdrawal(h)
    BY <1>0, <2>9 DEF TypeOK, Goto, Finish, RecordWithdrawal, Insert
  <2>10. CASE PayoutSucceeds(h)
    BY <1>0, <2>10 DEF TypeOK, Goto, Finish, PayoutSucceeds
  <2>11. CASE PayoutFails(h)
    BY <1>0, <1>01, <2>11 DEF PayoutFails, Statuses
  <2>12. CASE LockWallet(h)
    <3>1. \E pc \in {"debit", "shortfall"} : handlers' =
            [handlers EXCEPT ![h].seen = balance[handlers[h].wallet], ![h].pc = pc]
      BY <2>12 DEF LockWallet
    <3>2. handlers[h].pc = "lock_wallet" /\ UNCHANGED <<balance, tx, payments, books>>
      BY <2>12 DEF LockWallet
    <3> QED BY <1>0, <3>1, <3>2 DEF TypeOK
  <2>13. CASE CommitDebit(h)
    BY <1>0, <1>01, <2>13 DEF CommitDebit, Statuses
  <2>14. CASE CommitShortfall(h)
    BY <1>0, <1>01, <2>14 DEF CommitShortfall, ShortfallStatus, Statuses
  <2> QED
    BY <1>3, <2>1, <2>2, <2>3, <2>4, <2>5, <2>6, <2>7, <2>8, <2>9, <2>10, <2>11, <2>12, <2>13, <2>14 DEF Continue
<1>4. ASSUME NEW h \in Handlers, RequestFails(h)
      PROVE  OneTransactionPerKey'
  BY <1>0, <1>4 DEF TypeOK, RequestFails, ReleaseLock, ReleaseRow, Finish
<1>5. ASSUME NEW id \in TxIds, SettlePayment(id)
      PROVE  OneTransactionPerKey'
  BY <1>0, <1>5 DEF TypeOK, SettlePayment
<1> QED
  BY <1>1, <1>2, <1>3, <1>4, <1>5 DEF Next, Quiescent

(* A stored row stays with its wallet, and debits are not undone. *)
LEMMA RowsKeepTheirWallet ==
  ASSUME LedgerInv, [Next]_vars, NEW id \in TxIds
  PROVE  /\ tx[id].wallet \in Wallets => tx'[id].wallet = tx[id].wallet
         /\ debited'[id] >= debited[id]
<1> DEFINE Goal == /\ tx[id].wallet \in Wallets => tx'[id].wallet = tx[id].wallet
                   /\ debited'[id] >= debited[id]
<1> USE NullsAreNotValues
<1>0. TypeOK /\ \A h \in Handlers : HasRow(h) /\ OwnsNewId(h)
  BY DEF LedgerInv
<1>1. CASE UNCHANGED <<tx, books>>
  BY <1>0, <1>1 DEF books, TypeOK
<1>2. ASSUME NEW h \in Handlers, NEW row \in Row, ~Stored(handlers[h].tx),
             Insert(handlers[h].tx, row), UNCHANGED books
      PROVE  Goal
  <2>1. tx[handlers[h].tx] = NoRow \/ handlers[h].tx \notin TxIds
    BY <1>0, <1>2 DEF TypeOK, Stored, Row, Statuses
  <2> QED BY <1>0, <1>2, <2>1 DEF TypeOK, Insert, NoRow, books
<1>3. ASSUME NEW j \in TxIds, NEW status, SetStatus(j, status), UNCHANGED <<debited>>
      PROVE  Goal
  BY <1>0, <1>3 DEF TypeOK, SetStatus, Row, NoRow
<1>4. ASSUME NEW h \in Handlers, RecordDeposit(h) \/ RecordWithdrawal(h)
      PROVE  Goal
  <2>1. ~Stored(handlers[h].tx) /\ handlers[h].tx \in TxIds /\ handlers[h].wallet \in Wallets
    BY <1>0, <1>4 DEF RecordDeposit, RecordWithdrawal, OwnsNewId, Creating, HasRow
  <2>2. PICK row \in Row : Insert(handlers[h].tx, row) /\ UNCHANGED books
    BY <1>0, <1>4, <2>1 DEF RecordDeposit, RecordWithdrawal, TypeOK, Row, Statuses
  <2> QED BY <1>2, <2>1, <2>2
<1>5. ASSUME NEW h \in Handlers,
             MarkDepositFailed(h) \/ CompleteDeposit(h) \/ PayoutFails(h) \/ CommitShortfall(h)
      PROVE  Goal
  <2>1. handlers[h].tx \in TxIds
    BY <1>0, <1>5 DEF MarkDepositFailed, CompleteDeposit, PayoutFails, CommitShortfall, HasRow
  <2>2. (UNCHANGED tx \/ \E status : SetStatus(handlers[h].tx, status)) /\ UNCHANGED books
    BY <1>5 DEF MarkDepositFailed, CompleteDeposit, PayoutFails, CommitShortfall
  <2> QED BY <1>1, <1>3, <2>1, <2>2 DEF books
<1>6. ASSUME NEW h \in Handlers, CommitDebit(h)
      PROVE  Goal
  <2>1. handlers[h].tx \in TxIds
    BY <1>0, <1>6 DEF CommitDebit, HasRow
  <2> QED BY <1>0, <1>6, <2>1 DEF CommitDebit, SetStatus, TypeOK, Row, NoRow
<1>7. ASSUME NEW h \in Handlers, PayoutSucceeds(h) \/ CreditWallet(h)
      PROVE  Goal
  BY <1>0, <1>7 DEF PayoutSucceeds, CreditWallet, TypeOK
<1>8. ASSUME NEW h \in Handlers,
             ClientRequest(h) \/ Webhook(h) \/ (\E j \in TxIds : StartApproval(h, j))
      PROVE  UNCHANGED <<tx, books>>
  BY <1>8 DEF ClientRequest, InitializeDeposit, RequestWithdrawal, Webhook, ReceiveWebhook,
     StartApproval
<1>9. ASSUME NEW h \in Handlers, CreatePayment(h) \/ AcquireLock(h) \/ ReadWallet(h)
             \/ CheckFunds(h) \/ LockWallet(h) \/ RequestFails(h)
      PROVE  UNCHANGED <<tx, books>>
  BY <1>9 DEF CreatePayment, AcquireLock, ReadWallet, CheckFunds, LockWallet, RequestFails
<1>10. ASSUME NEW j \in TxIds, SettlePayment(j)
       PROVE  UNCHANGED <<tx, books>>
  BY <1>10 DEF SettlePayment
<1>11. CASE UNCHANGED vars
  BY <1>1, <1>11 DEF vars, books
<1> QED
  BY <1>1, <1>4, <1>5, <1>6, <1>7, <1>8, <1>9, <1>10, <1>11 DEF Next, Continue, Quiescent

(* A wallet that no debit has touched was not touched a step ago. *)
LEMMA UndebitedBefore ==
  ASSUME LedgerInv, [Next]_vars, TypeOK'
  PROVE  \A w \in Wallets : Undebited(w)' => Undebited(w)
<1>1. TypeOK
  BY DEF LedgerInv
<1>2. SUFFICES ASSUME NEW w \in Wallets, Undebited(w)', NEW id \in TxIds, tx[id].wallet = w
              PROVE  debited[id] = 0
  BY DEF Undebited
<1>3. tx'[id].wallet = w /\ debited'[id] >= debited[id]
  BY <1>2, RowsKeepTheirWallet
<1> QED BY <1>1, <1>2, <1>3 DEF Undebited, TypeOK

(* No step writes a balance that misses an earlier credit. *)
LEMMA StepNoLostUpdate ==
  ASSUME UseLockManager, LedgerInv, LockInv, [Next]_vars, TypeOK'
  PROVE  NoLostUpdate'
<1> USE DEF NoLostUpdate, HoldsLock, HasRow, Idle
<1>0. /\ TypeOK /\ NoLostUpdate /\ UseLockManager
      /\ \A h \in Handlers : HasRow(h) /\ HoldsLock(h) /\ HoldsRow(h)
      /\ \A w \in Wallets : Undebited(w)' => Undebited(w)
  BY UndebitedBefore DEF LedgerInv, LockInv
<1>1. CASE UNCHANGED vars
  BY <1>0, <1>1 DEF vars, TypeOK
<1>2. ASSUME NEW h \in Handlers, ClientRequest(h) \/ Webhook(h) \/ (\E id \in TxIds : StartApproval(h, id))
      PROVE  NoLostUpdate'
  BY <1>0, <1>2 DEF TypeOK, ClientRequest, InitializeDeposit, RequestWithdrawal,
     Webhook, ReceiveWebhook, StartApproval
<1>3. ASSUME NEW h \in Handlers, Continue(h)
      PROVE  NoLostUpdate'
  <2>1. CASE CreatePayment(h)
    BY <1>0, <2>1 DEF TypeOK, Goto, Finish, CreatePayment
  <2>2. CASE RecordDeposit(h)
    BY <1>0, <2>2 DEF TypeOK, Goto, Finish, RecordDeposit, Insert
  <2>3. CASE MarkDepositFailed(h)
    BY <1>0, <2>3 DEF TypeOK, Goto, Finish, MarkDepositFailed, SetStatus
  <2>4. CASE AcquireLock(h)
    BY <1>0, <2>4 DEF TypeOK, Goto, Finish, AcquireLock, LockFree
  <2>5. CASE ReadWallet(h)
    BY <1>0, <2>5 DEF TypeOK, Goto, Finish, ReadWallet
  <2>6. CASE CreditWallet(h)
    BY <1>0, <2>6 DEF TypeOK, Goto, Finish, CreditWallet, RowFree
  <2>7. CASE CompleteDeposit(h)
    BY <1>0, <2>7 DEF TypeOK, Goto, Finish, CompleteDeposit, SetStatus, ReleaseLock
  <2>8. CASE CheckFunds(h)
    BY <1>0, <2>8 DEF TypeOK, Goto, Finish, CheckFunds, HasSufficientFunds
  <2>9. CASE RecordWithdrawal(h)
    BY <1>0, <2>9 DEF TypeOK, Goto, Finish, RecordWithdrawal, Insert
  <2>10. CASE PayoutSucceeds(h)
    BY <1>0, <2>10 DEF TypeOK, Goto, Finish, PayoutSucceeds
  <2>11. CASE PayoutFails(h)
    BY <1>0, <2>11 DEF TypeOK, Goto, Finish, PayoutFails, SetStatus
  <2>12. CASE LockWallet(h)
    <3>1. \E pc \in {"debit", "shortfall"} : handlers' =
            [handlers EXCEPT ![h].seen = balance[handlers[h].wallet], ![h].pc = pc]
      BY <2>12 DEF LockWallet
    <3>2. handlers[h].pc = "lock_wallet" /\ UNCHANGED <<balance, tx, payments, books>>
      BY <2>12 DEF LockWallet
    <3> QED BY <1>0, <3>1, <3>2 DEF TypeOK
  <2>13. CASE CommitDebit(h)
    BY <1>0, <2>13 DEF TypeOK, Goto, Finish, CommitDebit, HoldsRow
  <2>14. CASE CommitShortfall(h)
    BY <1>0, <2>14 DEF TypeOK, Goto, Finish, CommitShortfall, SetStatus, ReleaseRow, ShortfallStatus
  <2> QED
    BY <1>3, <2>1, <2>2, <2>3, <2>4, <2>5, <2>6, <2>7, <2>8, <2>9, <2>10, <2>11, <2>12, <2>13, <2>14 DEF Continue
<1>4. ASSUME NEW h \in Handlers, RequestFails(h)
      PROVE  NoLostUpdate'
  BY <1>0, <1>4 DEF TypeOK, RequestFails, ReleaseLock, ReleaseRow, Finish
<1>5. ASSUME NEW id \in TxIds, SettlePayment(id)
      PROVE  NoLostUpdate'
  BY <1>0, <1>5 DEF TypeOK, SettlePayment
<1> QED
  BY <1>1, <1>2, <1>3, <1>4, <1>5 DEF Next, Quiescent

(* Between the read and the write of a deposit only a debit changes its wallet. *)
LEMMA StepHoldsLock ==
  ASSUME UseLockManager, LedgerInv, LockInv, [Next]_vars, TypeOK', NEW g \in Handlers
  PROVE  HoldsLock(g)'
<1> USE NullsAreNotValues DEF HoldsLock, HasRow, Idle, Approving
<1>0. /\ TypeOK /\ UseLockManager
      /\ \A h \in Handlers : HasRow(h) /\ HoldsLock(h) /\ HoldsRow(h)
      /\ \A w \in Wallets : Undebited(w)' => Undebited(w)
      /\ \A id \in TxIds : tx[id].wallet \in Wallets => tx'[id].wallet = tx[id].wallet
  BY UndebitedBefore, RowsKeepTheirWallet DEF LedgerInv, LockInv
<1>1. CASE UNCHANGED vars
  BY <1>0, <1>1 DEF vars, TypeOK
<1>2. ASSUME NEW h \in Handlers, ClientRequest(h) \/ Webhook(h) \/ (\E id \in TxIds : StartApproval(h, id))
      PROVE  HoldsLock(g)'
  <2>1. PICK pc \in HandlerPcs, id \in TxIds, w \in Wallets \cup {NoWallet},
             a \in Nat, k \in Keys \cup {NoKey} :
               /\ pc \in {"create_payment", "check_funds", "mark_failed",
                         "acquire_lock", "payout"}
               /\ Begin(h, pc, id, w, a, k)
               /\ pc = "payout" => w = tx[id].wallet
               /\ UNCHANGED <<balance, lock, tx>>
    <3>1. CASE ClientRequest(h)
      BY <3>1, AmountsArePositive DEF ClientRequest, InitializeDeposit,
         RequestWithdrawal, FreshIds, HandlerPcs
    <3>2. CASE Webhook(h)
      BY <1>0, <3>2, AmountsArePositive
         DEF Webhook, ReceiveWebhook, AfterChecks, HandlerPcs, TypeOK, Row, NoRow
    <3>3. CASE \E id \in TxIds : StartApproval(h, id)
      BY <1>0, <3>3 DEF StartApproval, HandlerPcs, TypeOK, Row, NoRow
    <3> QED BY <1>2, <3>1, <3>2, <3>3
  <2> QED BY <1>0, <2>1 DEF TypeOK, Begin
<1>3. ASSUME NEW h \in Handlers, Continue(h)
      PROVE  HoldsLock(g)'
  <2>1. CASE CreatePayment(h)
    BY <1>0, <2>1 DEF TypeOK, Goto, Finish, CreatePayment
  <2>2. CASE RecordDeposit(h)
    BY <1>0, <2>2 DEF TypeOK, Goto, Finish, RecordDeposit, Insert
  <2>3. CASE MarkDepositFailed(h)
    BY <1>0, <2>3 DEF TypeOK, Goto, Finish, MarkDepositFailed, SetStatus
  <2>4. CASE AcquireLock(h)
    BY <1>0, <2>4 DEF TypeOK, Goto, Finish, AcquireLock, LockFree
  <2>5. CASE ReadWallet(h)
    BY <1>0, <2>5 DEF TypeOK, Goto, Finish, ReadWallet
  <2>6. CASE CreditWallet(h)
    BY <1>0, <2>6 DEF TypeOK, Goto, Finish, CreditWallet, RowFree
  <2>7. CASE CompleteDeposit(h)
    BY <1>0, <2>7 DEF TypeOK, Goto, Finish, CompleteDeposit, SetStatus, ReleaseLock
  <2>8. CASE CheckFunds(h)
    <3>1. \/ handlers' = [handlers EXCEPT ![h].pc = "record_withdrawal"]
          \/ handlers' = [handlers EXCEPT ![h] = Idle]
      BY <2>8 DEF CheckFunds, Goto, Finish
    <3>2. handlers[h].pc = "check_funds" /\ UNCHANGED <<balance, lock>>
      BY <2>8 DEF CheckFunds
    <3>3. CASE handlers' = [handlers EXCEPT ![h].pc = "record_withdrawal"]
      BY <1>0, <3>2, <3>3 DEF TypeOK
    <3>4. CASE handlers' = [handlers EXCEPT ![h] = Idle]
      BY <1>0, <3>2, <3>4 DEF TypeOK
    <3> QED BY <3>1, <3>3, <3>4
  <2>9. CASE RecordWithdrawal(h)
    BY <1>0, <2>9 DEF TypeOK, Goto, Finish, RecordWithdrawal, Insert
  <2>10. CASE PayoutSucceeds(h)
    BY <1>0, <2>10 DEF TypeOK, Goto, Finish, PayoutSucceeds
  <2>11. CASE PayoutFails(h)
    <3>1. \/ tx' = [tx EXCEPT ![handlers[h].tx].status = "PAYMENT_FAILED"]
          \/ UNCHANGED tx
      BY <2>11 DEF PayoutFails, SetStatus
    <3>2. /\ handlers[h].pc = "payout" /\ handlers' = [handlers EXCEPT ![h] = Idle]
          /\ UNCHANGED <<balance, payments, locks, books>>
      BY <2>11 DEF PayoutFails, Finish
    <3> QED BY <1>0, <3>1, <3>2 DEF TypeOK
  <2>12. CASE LockWallet(h)
    <3>1. \E pc \in {"debit", "shortfall"} : handlers' =
            [handlers EXCEPT ![h].seen = balance[handlers[h].wallet], ![h].pc = pc]
      BY <2>12 DEF LockWallet
    <3>2. handlers[h].pc = "lock_wallet" /\ UNCHANGED <<balance, tx, payments, books>>
      BY <2>12 DEF LockWallet
    <3> QED BY <1>0, <3>1, <3>2 DEF TypeOK
  <2>13. CASE CommitDebit(h)
    <3>0. PICK w \in Wallets, id \in TxIds : w = handlers[h].wallet /\ id = handlers[h].tx
      BY <1>0, <2>13 DEF CommitDebit
    <3>1. /\ tx[id].wallet = w
          /\ g # h => handlers'[g] = handlers[g]
          /\ handlers'[h] = Idle /\ UNCHANGED lock
      BY <1>0, <2>13, <3>0 DEF TypeOK, Finish, CommitDebit
    <3>2. ~Undebited(w)'
      BY <1>0, <2>13, <3>0, <3>1 DEF Undebited, CommitDebit, TypeOK
    <3>3. balance'[w] <= balance[w] /\ \A v \in Wallets \ {w} : balance'[v] = balance[v]
      BY <1>0, <2>13, <3>0 DEF CommitDebit, HoldsRow, TypeOK
    <3>4. \A j \in TxIds : tx[j].wallet \in Wallets => tx'[j].wallet = tx[j].wallet
      BY <1>0
    <3>5. CASE g = h
      BY <3>1, <3>5
    <3>6. CASE g # h
      <4>1. handlers'[g] = handlers[g] /\ handlers[g].seen \in Nat
        BY <1>0, <3>1, <3>6 DEF TypeOK
      <4>2. CASE handlers[g].wallet = w
        BY <1>0, <3>1, <3>2, <3>3, <3>4, <4>1, <4>2 DEF TypeOK
      <4>3. CASE handlers[g].wallet # w
        BY <1>0, <3>1, <3>3, <3>4, <4>1, <4>3 DEF TypeOK
      <4> QED BY <4>2, <4>3
    <3> QED BY <3>5, <3>6
  <2>14. CASE CommitShortfall(h)
    BY <1>0, <2>14 DEF TypeOK, Goto, Finish, CommitShortfall, SetStatus, ReleaseRow, ShortfallStatus
  <2> QED
    BY <1>3, <2>1, <2>2, <2>3, <2>4, <2>5, <2>6, <2>7, <2>8, <2>9, <2>10, <2>11, <2>12, <2>13, <2>14 DEF Continue
<1>4. ASSUME NEW h \in Handlers, RequestFails(h)
      PROVE  HoldsLock(g)'
  BY <1>0, <1>4 DEF TypeOK, RequestFails, ReleaseLock, ReleaseRow, Finish
<1>5. ASSUME NEW id \in TxIds, SettlePayment(id)
      PROVE  HoldsLock(g)'
  BY <1>0, <1>5 DEF TypeOK, SettlePayment
<1> QED
  BY <1>1, <1>2, <1>3, <1>4, <1>5 DEF Next, Quiescent

-----------------------------------------------------------------------------
(* The initial state satisfies both inductive invariants: nobody is at work. *)
LEMMA InitLedgerInv == Init => LedgerInv /\ OneTransactionPerKey
<1> SUFFICES ASSUME Init PROVE LedgerInv /\ OneTransactionPerKey
  OBVIOUS
<1>1. TypeOK
  BY InitTypeOK
<1>2. \A h \in Handlers : OwnsNewId(h) /\ HasRow(h) /\ HoldsRow(h) /\ MoneyFirst(h)
  BY DEF Init, Idle, OwnsNewId, HasRow, HoldsRow, MoneyFirst, Creating, Crediting, Approving
<1>3. PaymentsAreDeposits /\ CreditedWasPaid /\ OneTransactionPerKey
  BY DEF Init, PaymentsAreDeposits, CreditedWasPaid, OneTransactionPerKey, Stored, NoRow
<1>4. CompletedDepositCredited /\ CompletedWithdrawalDebited
  BY DEF Init, NoRow, CompletedDepositCredited, CompletedWithdrawalDebited
<1> QED
  BY <1>1, <1>2, <1>3, <1>4 DEF LedgerInv

(* Every step of every request keeps the ledger's inductive invariant. *)
LEMMA StepLedgerInv == LedgerInv /\ [Next]_vars => LedgerInv'
<1> SUFFICES ASSUME LedgerInv, [Next]_vars PROVE LedgerInv'
  OBVIOUS
<1>1. TypeOK'
  BY StepTypeOK
<1>2. \A h \in Handlers : OwnsNewId(h)' /\ HasRow(h)' /\ HoldsRow(h)' /\ MoneyFirst(h)'
  BY <1>1, StepOwnsNewId, StepHasRow, StepHoldsRow, StepMoneyFirst
<1>3. PaymentsAreDeposits' /\ CreditedWasPaid'
  BY <1>1, StepPaymentsAreDeposits, StepCreditedWasPaid
<1>4. CompletedDepositCredited' /\ CompletedWithdrawalDebited'
  BY <1>1, StepCompletedDepositCredited, StepCompletedWithdrawalDebited
<1> QED
  BY <1>1, <1>2, <1>3, <1>4 DEF LedgerInv

(* In every reachable state each request knows what it relies on: the inductive
   invariant of the ledger holds for every configuration of it. *)
THEOREM LedgerInvariant == Spec => []LedgerInv
<1>1. Init => LedgerInv
  BY InitLedgerInv
<1> QED
  BY <1>1, StepLedgerInv, PTL DEF Spec

(* Every variable keeps its type; no balance is ever negative. *)
THEOREM TypeCorrect == Spec => []TypeOK
<1>1. LedgerInv => TypeOK
  BY DEF LedgerInv
<1> QED
  BY <1>1, LedgerInvariant, PTL

(* Only money that was paid at the gateway is credited, with or without a lock
   manager and whatever fails. *)
THEOREM OnlyPaidIsCredited == Spec => []CreditedWasPaid
<1>1. LedgerInv => CreditedWasPaid
  BY DEF LedgerInv
<1> QED
  BY <1>1, LedgerInvariant, PTL

(* COMPLETED is never shown for money that did not move: it follows the credit of
   a deposit and the debit of a withdrawal. *)
THEOREM CompletedMoved ==
  Spec => [](CompletedDepositCredited /\ CompletedWithdrawalDebited)
<1>1. LedgerInv => CompletedDepositCredited /\ CompletedWithdrawalDebited
  BY DEF LedgerInv
<1> QED
  BY <1>1, LedgerInvariant, PTL

(* Concurrent requests with one idempotency key leave one row. *)
THEOREM KeysAreUnique == Spec => []OneTransactionPerKey
<1>1. Init => OneTransactionPerKey
  BY InitLedgerInv
<1>2. LedgerInv /\ OneTransactionPerKey /\ [Next]_vars => OneTransactionPerKey'
  BY StepTypeOK, StepOneTransactionPerKey
<1> QED
  BY <1>1, <1>2, LedgerInvariant, PTL DEF Spec

(* With a lock manager no credit is lost, and a balance is exact until the first
   approval debits its wallet. *)
THEOREM LockManagerPreventsLostUpdates ==
  ASSUME UseLockManager
  PROVE  Spec => []NoLostUpdate
<1>1. Init => LockInv
  BY AmountsArePositive DEF Init, Idle, LockInv, NoLostUpdate, HoldsLock, Approving
<1>2. LedgerInv /\ LockInv /\ [Next]_vars => LockInv'
  BY StepTypeOK, StepNoLostUpdate, StepHoldsLock DEF LockInv
<1>3. LockInv => NoLostUpdate
  BY DEF LockInv
<1> QED
  BY <1>1, <1>2, <1>3, LedgerInvariant, PTL DEF Spec

-----------------------------------------------------------------------------
(* Requests that take turns: the two tables and the payment service agree.      *)

OneAtATime == \A g, h \in Handlers : handlers[g] # Idle /\ handlers[h] # Idle => g = h

(* The money of the rows of one wallet that moved. *)
Moved(rows, moves, w) == {id \in TxIds : rows[id].wallet = w /\ moves[id] > 0}

Units(rows, ids) == UNION {{id} \X (1 .. rows[id].amount) : id \in ids}

Sum(rows, moves, w) == Cardinality(Units(rows, Moved(rows, moves, w)))

(* What has been done for a row when r is the only request in progress: its status says
   it, or the request has done it and has yet to say so. *)
CreditedBy(r, id) ==
  \/ tx[id].type = "DEPOSIT" /\ tx[id].status = "COMPLETED"
  \/ r.pc = "complete" /\ r.tx = id

PaidOutBy(r, id) ==
  \/ tx[id].type = "WITHDRAWAL" /\ tx[id].status \in {"COMPLETED", ShortfallStatus}
  \/ r.pc \in {"lock_wallet", "debit", "shortfall"} /\ r.tx = id

Debited(id) == tx[id].type = "WITHDRAWAL" /\ tx[id].status = "COMPLETED"

PostedBy(r, id) ==
  /\ credited[id] = IF CreditedBy(r, id) THEN 1 ELSE 0
  /\ debited[id] = IF Debited(id) THEN 1 ELSE 0
  /\ LoggerDeclared => payouts[id] = IF PaidOutBy(r, id) THEN 1 ELSE 0

(* What a request has read is still so. *)
Knows(r) ==
  /\ r.pc \in Crediting \cup Approving =>
       r.wallet = tx[r.tx].wallet /\ r.amount = tx[r.tx].amount
  /\ r.pc \in Crediting \cup {"mark_failed"} => ~Processed(tx[r.tx])
  /\ r.pc \in Approving => tx[r.tx].status = "REQUIRES_APPROVAL"
  /\ r.pc = "credit" => r.seen = balance[r.wallet]
  /\ r.pc = "shortfall" => ~HasSufficientFunds(r.wallet, r.amount)
  /\ r.pc \in Creating => r.amount \in DepositAmounts \cup WithdrawalAmounts

Balanced ==
  \A w \in Wallets :
    balance[w] = InitialBalance + Sum(tx, credited, w) - Sum(tx, debited, w)

Kept(r) == Knows(r) /\ (\A id \in TxIds : PostedBy(r, id)) /\ Balanced

(* Nobody else is at work than, at most, h. *)
Alone(h) == \A g \in Handlers \ {h} : handlers[g] = Idle

Undisturbed ==
  /\ OneAtATime
  /\ \A h \in Handlers : Alone(h) => Kept(handlers[h])
  /\ (\A h \in Handlers : handlers[h] = Idle) => Kept(Idle)

TurnsInv == LedgerInv /\ (disturbed \/ Undisturbed)

(* The units of finitely many rows are finitely many. *)
LEMMA UnitsAreFinite ==
  ASSUME NEW rows, NEW ids \in SUBSET TxIds, \A id \in ids : rows[id].amount \in Nat
  PROVE  IsFiniteSet(Units(rows, ids))
<1> DEFINE Of(id) == {id} \X (1 .. rows[id].amount)
           Purses == {Of(id) : id \in ids}
           f == [id \in ids |-> Of(id)]
<1>1. IsFiniteSet(ids)
  BY FinitelyMany, FS_Subset
<1>2. f \in Surjection(ids, Purses)
  <2> HIDE DEF Of
  <2>1. f \in [ids -> Purses] /\ \A t \in Purses : \E s \in ids : f[s] = t
    OBVIOUS
  <2> QED BY <2>1 DEF Surjection
<1>3. IsFiniteSet(Purses)
  <2> HIDE DEF f, Purses
  <2> QED BY <1>1, <1>2, FS_Surjection
<1>4. \A id \in ids : IsFiniteSet(Of(id))
  <2> TAKE id \in ids
  <2>1. 1 \in Int /\ rows[id].amount \in Int
    OBVIOUS
  <2>2. IsFiniteSet({id}) /\ IsFiniteSet(1 .. rows[id].amount)
    BY <2>1, FS_Singleton, FS_Interval
  <2> QED BY <2>2, FS_Product
<1>5. \A T \in Purses : IsFiniteSet(T)
  BY <1>4
<1>6. IsFiniteSet(UNION Purses)
  <2> HIDE DEF Purses
  <2> QED BY <1>3, <1>5, FS_UNION
<1> QED BY <1>6 DEF Units

LEMMA UnitsOfOne ==
  ASSUME NEW id, NEW n \in Nat
  PROVE  IsFiniteSet({id} \X (1 .. n)) /\ Cardinality({id} \X (1 .. n)) = n
<1>1. IsFiniteSet(1 .. n) /\ Cardinality(1 .. n) = IF 1 > n THEN 0 ELSE n - 1 + 1
  BY FS_Interval
<1>2. IsFiniteSet({id}) /\ Cardinality({id}) = 1
  BY FS_Singleton
<1>3. /\ IsFiniteSet({id} \X (1 .. n))
      /\ Cardinality({id} \X (1 .. n)) = Cardinality({id}) * Cardinality(1 .. n)
  BY <1>1, <1>2, FS_Product
<1> QED BY <1>1, <1>2, <1>3

(* Nothing moves, or only rows nothing has moved for change: the sum stays. *)
LEMMA SumKept ==
  ASSUME NEW rows, NEW rows2, NEW moves \in [TxIds -> Nat], NEW w,
         \A id \in TxIds : moves[id] > 0 =>
           rows2[id].wallet = rows[id].wallet /\ rows2[id].amount = rows[id].amount
  PROVE  Sum(rows2, moves, w) = Sum(rows, moves, w)
<1>1. ASSUME NEW id \in TxIds, moves[id] = 0 PROVE ~(moves[id] > 0)
  BY <1>1
<1>2. Moved(rows2, moves, w) = Moved(rows, moves, w)
  BY DEF Moved
<1>3. \A id \in Moved(rows, moves, w) : rows2[id].amount = rows[id].amount
  BY DEF Moved
<1>4. Units(rows2, Moved(rows, moves, w)) = Units(rows, Moved(rows, moves, w))
  BY <1>3 DEF Units
<1> QED BY <1>2, <1>4 DEF Sum

LEMMA SumTyped ==
  ASSUME NEW rows, NEW moves, NEW w, \A id \in TxIds : rows[id].amount \in Nat
  PROVE  Sum(rows, moves, w) \in Nat
<1>1. Moved(rows, moves, w) \in SUBSET TxIds
  BY DEF Moved
<1>2. IsFiniteSet(Units(rows, Moved(rows, moves, w)))
  BY <1>1, UnitsAreFinite
<1> QED BY <1>2, FS_CardinalityType DEF Sum

(* A row moves for the first time: the sum of its wallet grows by its amount. *)
LEMMA SumGrows ==
  ASSUME NEW rows, NEW rows2, NEW moves \in [TxIds -> Nat], NEW i \in TxIds, NEW w,
         NEW moves2, moves[i] = 0, moves2[i] = 1,
         \A id \in TxIds \ {i} : moves2[id] = moves[id],
         \A id \in TxIds : /\ rows[id].amount \in Nat
                           /\ rows2[id].wallet = rows[id].wallet
                           /\ rows2[id].amount = rows[id].amount
  PROVE  Sum(rows2, moves2, w) =
           Sum(rows, moves, w) + (IF rows[i].wallet = w THEN rows[i].amount ELSE 0)
<1> DEFINE Old == Moved(rows, moves, w)
           New == Moved(rows2, moves2, w)
<1>1. New = IF rows[i].wallet = w THEN Old \cup {i} ELSE Old
  BY DEF Moved
<1>2. i \notin Old /\ Old \in SUBSET TxIds /\ New \in SUBSET TxIds
  BY DEF Moved
<1> HIDE DEF Old, New
<1>3. Units(rows2, New) = Units(rows, New)
  BY <1>2 DEF Units
<1>4. CASE rows[i].wallet = w
  <2> DEFINE A == Units(rows, Old)
             n == rows[i].amount
             B == {i} \X (1 .. n)
  <2>1. Units(rows, New) = A \cup B /\ A \cap B = {}
    BY <1>1, <1>2, <1>4 DEF Units
  <2>2. IsFiniteSet(A)
    BY <1>2, UnitsAreFinite
  <2>3. IsFiniteSet(B) /\ Cardinality(B) = n
    BY UnitsOfOne
  <2>4. n \in Nat
    OBVIOUS
  <2> HIDE DEF A, B, n
  <2>5. Cardinality(A \cup B) = Cardinality(A) + Cardinality(B) - Cardinality(A \cap B)
    BY <2>2, <2>3, FS_Union
  <2>6. Cardinality(A) \in Nat /\ Cardinality(A \cap B) = 0
    BY <2>1, <2>2, FS_CardinalityType, FS_EmptySet
  <2>7. Cardinality(Units(rows, New)) = Cardinality(A) + n
    BY <2>1, <2>3, <2>4, <2>5, <2>6
  <2> QED BY <1>3, <1>4, <2>7 DEF Sum, A, n, Old, New
<1>5. CASE rows[i].wallet # w
  <2>1. Sum(rows2, moves2, w) = Sum(rows, moves, w)
    BY <1>1, <1>3, <1>5 DEF Sum, Old, New
  <2>2. Sum(rows, moves, w) \in Nat
    BY SumTyped
  <2> QED BY <1>5, <2>1, <2>2
<1> QED BY <1>4, <1>5

(* A step that moves no money, and changes no row that money has moved for, keeps the
   sums. *)
LEMMA BalancedKept ==
  ASSUME TypeOK, Balanced, UNCHANGED <<balance, credited, debited>>,
         \A id \in TxIds : credited[id] > 0 \/ debited[id] > 0 =>
           tx'[id].wallet = tx[id].wallet /\ tx'[id].amount = tx[id].amount
  PROVE  Balanced'
<1> SUFFICES ASSUME NEW w \in Wallets
    PROVE balance'[w] = InitialBalance + Sum(tx', credited', w) - Sum(tx', debited', w)
  BY DEF Balanced
<1>1. credited \in [TxIds -> Nat] /\ debited \in [TxIds -> Nat]
  BY DEF TypeOK
<1>2. Sum(tx', credited, w) = Sum(tx, credited, w) /\ Sum(tx', debited, w) = Sum(tx, debited, w)
  BY <1>1, SumKept
<1> QED BY <1>2 DEF Balanced

LEMMA RowsTyped ==
  ASSUME TypeOK
  PROVE  \A id \in TxIds : tx[id].amount \in Nat
BY DEF TypeOK, Row, NoRow

(* A request starts: it has just read its row. *)
LEMMA StartKeeps ==
  ASSUME LedgerInv, NEW h \in Handlers, Kept(handlers[h]),
         ClientRequest(h) \/ Webhook(h) \/ (\E id \in TxIds : StartApproval(h, id))
  PROVE  Kept(handlers[h])'
<1>0. TypeOK
  BY DEF LedgerInv
<1>1. PICK pc, id, w, a, k :
        /\ pc \in {"create_payment", "check_funds", "mark_failed", "acquire_lock",
                   "read_wallet", "payout"}
        /\ id \in TxIds
        /\ Begin(h, pc, id, w, a, k)
        /\ UNCHANGED <<balance, tx, credited, debited, payouts>>
        /\ pc \in {"acquire_lock", "read_wallet", "payout"} =>
             w = tx[id].wallet /\ a = tx[id].amount
        /\ pc \in {"mark_failed", "acquire_lock", "read_wallet"} => ~Processed(tx[id])
        /\ pc = "payout" => tx[id].status = "REQUIRES_APPROVAL"
        /\ pc \in Creating => a \in DepositAmounts \cup WithdrawalAmounts
  <2>1. CASE ClientRequest(h)
    BY <2>1 DEF ClientRequest, InitializeDeposit, RequestWithdrawal, FreshIds
  <2>2. CASE Webhook(h)
    BY <2>2 DEF Webhook, ReceiveWebhook, AfterChecks, Creating
  <2>3. CASE \E id \in TxIds : StartApproval(h, id)
    BY <2>3 DEF StartApproval, Approvable, Creating
  <2> QED BY <2>1, <2>2, <2>3
<1>2. handlers[h] = Idle
  BY <1>1 DEF Begin
<1>3. handlers' = [handlers EXCEPT ![h] =
        [pc |-> pc, tx |-> id, wallet |-> w, amount |-> a, key |-> k, seen |-> 0]]
  BY <1>1 DEF Begin
<1>4. handlers'[h] = [pc |-> pc, tx |-> id, wallet |-> w, amount |-> a, key |-> k, seen |-> 0]
  BY <1>0, <1>3 DEF TypeOK
<1>5. Knows(handlers[h])'
  BY <1>1, <1>4 DEF Knows, Crediting, Approving, Processed
<1>6. ASSUME NEW j \in TxIds PROVE PostedBy(handlers[h], j)'
  BY <1>1, <1>2, <1>4 DEF Kept, PostedBy, CreditedBy, PaidOutBy, Debited, Idle
<1>7. Balanced'
  BY <1>0, <1>1, BalancedKept DEF Kept
<1> QED BY <1>5, <1>6, <1>7 DEF Kept

(* A request stores the row it was asked for: no money has moved for it. *)
LEMMA RecordKeeps ==
  ASSUME LedgerInv, NEW h \in Handlers, Kept(handlers[h]), RecordDeposit(h) \/ RecordWithdrawal(h)
  PROVE  Kept(handlers[h])'
<1> DEFINE r == handlers[h]
<1>0. /\ TypeOK
      /\ r.tx \in TxIds /\ tx[r.tx].status = "ABSENT"
      /\ r.pc \in {"record_deposit", "record_withdrawal"}
  BY DEF LedgerInv, OwnsNewId, HasRow, RecordDeposit, RecordWithdrawal, Creating, Stored
<1>1. handlers'[h] = Idle /\ UNCHANGED <<balance, credited, debited, payouts>>
  BY <1>0 DEF RecordDeposit, RecordWithdrawal, Finish, TypeOK
<1>2. /\ \A id \in TxIds \ {r.tx} : tx'[id] = tx[id]
      /\ \/ tx'[r.tx] = tx[r.tx]
         \/ tx'[r.tx].status \in {"PENDING", "REQUIRES_APPROVAL"}
  BY <1>0 DEF RecordDeposit, RecordWithdrawal, Insert, TypeOK
<1>3. credited[r.tx] = 0 /\ debited[r.tx] = 0
  BY <1>0 DEF Kept, PostedBy, CreditedBy, Debited
<1>4. \A id \in TxIds : PostedBy(handlers[h], id)'
  <2> TAKE id \in TxIds
  <2>1. PostedBy(r, id)
    BY DEF Kept
  <2>2. CASE id = r.tx
    BY <1>0, <1>1, <1>2, <2>1, <2>2 DEF PostedBy, CreditedBy, PaidOutBy, Debited, Idle, ShortfallStatus
  <2>3. CASE id # r.tx
    BY <1>0, <1>1, <1>2, <2>1, <2>3 DEF PostedBy, CreditedBy, PaidOutBy, Debited, Idle
  <2> QED BY <2>2, <2>3
<1>5. Balanced'
  BY <1>0, <1>1, <1>2, <1>3, BalancedKept DEF Kept
<1> QED BY <1>1, <1>4, <1>5 DEF Kept, Knows, Creating, Idle, Crediting, Approving

(* A request that only reads, or gives up before it has done anything. *)
LEMMA ReadKeeps ==
  ASSUME LedgerInv, NEW h \in Handlers, Kept(handlers[h]),
         \/ CreatePayment(h) \/ AcquireLock(h) \/ ReadWallet(h) \/ CheckFunds(h)
         \/ LockWallet(h)
  PROVE  Kept(handlers[h])'
<1> DEFINE r == handlers[h]
           s == handlers'[h]
<1>0. /\ TypeOK /\ DOMAIN handlers = Handlers
      /\ r \in [pc : HandlerPcs, tx : TxIds \cup {NoTx}, wallet : Wallets \cup {NoWallet},
                amount : Nat, key : Keys \cup {NoKey}, seen : Nat]
      /\ Knows(r) /\ \A id \in TxIds : PostedBy(r, id)
  BY DEF LedgerInv, TypeOK, Kept
<1>1. UNCHANGED <<balance, tx, credited, debited, payouts>>
  BY DEF CreatePayment, AcquireLock, ReadWallet, CheckFunds, LockWallet
<1>2. /\ \/ s = Idle /\ r.pc \in {"create_payment", "acquire_lock", "check_funds"}
         \/ /\ s.tx = r.tx /\ s.wallet = r.wallet /\ s.amount = r.amount
            /\ \/ r.pc = "create_payment" /\ s.pc = "record_deposit"
               \/ r.pc = "acquire_lock" /\ s.pc = "read_wallet"
               \/ r.pc = "read_wallet" /\ s.pc = "credit" /\ s.seen = balance[r.wallet]
               \/ r.pc = "check_funds" /\ s.pc = "record_withdrawal"
               \/ r.pc = "lock_wallet" /\ s.pc = "debit"
               \/ /\ r.pc = "lock_wallet" /\ s.pc = "shortfall"
                  /\ ~HasSufficientFunds(r.wallet, r.amount)
  <2>1. CASE CreatePayment(h)
    BY <1>0, <2>1 DEF CreatePayment, Goto, Finish
  <2>2. CASE AcquireLock(h)
    BY <1>0, <2>2 DEF AcquireLock, Goto, Finish
  <2>3. CASE ReadWallet(h)
    BY <1>0, <2>3 DEF ReadWallet
  <2>4. CASE CheckFunds(h)
    BY <1>0, <2>4 DEF CheckFunds, Goto, Finish
  <2>5. CASE LockWallet(h)
    BY <1>0, <2>5 DEF LockWallet
  <2> QED BY <2>1, <2>2, <2>3, <2>4, <2>5
<1>3. Knows(handlers[h])'
  BY <1>0, <1>1, <1>2 DEF Knows, Creating, HasSufficientFunds, Idle, Crediting, Approving, Processed
<1>4. \A id \in TxIds : PostedBy(handlers[h], id)'
  BY <1>0, <1>1, <1>2 DEF PostedBy, CreditedBy, PaidOutBy, Debited, Idle
<1>5. Balanced'
  BY <1>0, <1>1, BalancedKept DEF Kept
<1> QED BY <1>3, <1>4, <1>5 DEF Kept

(* A request settles its row without moving money; a payout goes out. *)
LEMMA SettleKeeps ==
  ASSUME LedgerInv, NEW h \in Handlers, Kept(handlers[h]),
         \/ MarkDepositFailed(h) \/ CompleteDeposit(h) \/ PayoutFails(h) \/ CommitShortfall(h)
         \/ PayoutSucceeds(h)
  PROVE  Kept(handlers[h])'
<1> DEFINE r == handlers[h]
           s == handlers'[h]
           t == r.tx
<1>0. /\ TypeOK /\ DOMAIN handlers = Handlers
      /\ r \in [pc : HandlerPcs, tx : TxIds \cup {NoTx}, wallet : Wallets \cup {NoWallet},
                amount : Nat, key : Keys \cup {NoKey}, seen : Nat]
      /\ Knows(r) /\ \A id \in TxIds : PostedBy(r, id)
      /\ HasRow(h)
  BY DEF LedgerInv, TypeOK, Kept
<1>1. /\ t \in TxIds /\ tx[t] \in Row
      /\ UNCHANGED <<balance, credited, debited>>
  <2>1. t \in TxIds /\ tx[t].type \in {"DEPOSIT", "WITHDRAWAL"}
    BY <1>0 DEF HasRow, Crediting, Approving, MarkDepositFailed, CompleteDeposit, PayoutFails,
       CommitShortfall, PayoutSucceeds
  <2>2. UNCHANGED <<balance, credited, debited>>
    BY DEF MarkDepositFailed, CompleteDeposit, PayoutFails, CommitShortfall, PayoutSucceeds
  <2> QED BY <1>0, <2>1, <2>2 DEF TypeOK, NoRow
<1>2. /\ \A id \in TxIds \ {t} : tx'[id] = tx[id] /\ payouts'[id] = payouts[id]
      /\ tx'[t].wallet = tx[t].wallet /\ tx'[t].amount = tx[t].amount
      /\ tx'[t].type = tx[t].type
  BY <1>0, <1>1 DEF TypeOK, Row, SetStatus, MarkDepositFailed, CompleteDeposit, PayoutFails,
     CommitShortfall, PayoutSucceeds
<1>3. CASE MarkDepositFailed(h)
  <2>1. /\ tx[t].type = "DEPOSIT" /\ tx'[t].status = "FAILED" /\ tx[t].status # "COMPLETED"
        /\ payouts'[t] = payouts[t] /\ s = Idle /\ r.pc = "mark_failed"
    BY <1>0, <1>1, <1>3 DEF MarkDepositFailed, SetStatus, Finish, TypeOK, Row, HasRow, Knows, Processed
  <2>2. \A id \in TxIds : PostedBy(handlers[h], id)'
    BY <1>0, <1>1, <1>2, <2>1 DEF PostedBy, CreditedBy, PaidOutBy, Debited, Idle, ShortfallStatus
  <2> QED BY <1>0, <1>1, <1>2, <2>1, <2>2, BalancedKept
          DEF Kept, Knows, Creating, Idle, Crediting, Approving
<1>4. CASE CompleteDeposit(h)
  <2>1. /\ tx[t].type = "DEPOSIT" /\ tx'[t].status = "COMPLETED"
        /\ payouts'[t] = payouts[t] /\ s = Idle /\ r.pc = "complete"
    BY <1>0, <1>1, <1>4 DEF CompleteDeposit, SetStatus, Finish, TypeOK, Row, HasRow, Crediting
  <2>2. \A id \in TxIds : PostedBy(handlers[h], id)'
    BY <1>0, <1>1, <1>2, <2>1 DEF PostedBy, CreditedBy, PaidOutBy, Debited, Idle, ShortfallStatus
  <2> QED BY <1>0, <1>1, <1>2, <2>1, <2>2, BalancedKept
          DEF Kept, Knows, Creating, Idle, Crediting, Approving
<1>5. CASE PayoutFails(h)
  <2>1. /\ tx[t].type = "WITHDRAWAL" /\ tx[t].status = "REQUIRES_APPROVAL"
        /\ tx'[t].status \in {"PAYMENT_FAILED", "REQUIRES_APPROVAL"}
        /\ payouts'[t] = payouts[t] /\ s = Idle /\ r.pc = "payout"
    BY <1>0, <1>1, <1>5 DEF PayoutFails, SetStatus, Finish, TypeOK, Row, HasRow, Knows, Approving
  <2>2. \A id \in TxIds : PostedBy(handlers[h], id)'
    BY <1>0, <1>1, <1>2, <2>1 DEF PostedBy, CreditedBy, PaidOutBy, Debited, Idle, ShortfallStatus
  <2> QED BY <1>0, <1>1, <1>2, <2>1, <2>2, BalancedKept
          DEF Kept, Knows, Creating, Idle, Crediting, Approving
<1>6. CASE CommitShortfall(h)
  <2>1. /\ tx[t].type = "WITHDRAWAL" /\ tx[t].status = "REQUIRES_APPROVAL"
        /\ tx'[t].status = ShortfallStatus
        /\ payouts'[t] = payouts[t] /\ s = Idle /\ r.pc = "shortfall"
    BY <1>0, <1>1, <1>6 DEF CommitShortfall, SetStatus, Finish, TypeOK, Row, HasRow, Knows, Approving
  <2>2. \A id \in TxIds : PostedBy(handlers[h], id)'
    BY <1>0, <1>1, <1>2, <2>1 DEF PostedBy, CreditedBy, PaidOutBy, Debited, Idle, ShortfallStatus
  <2> QED BY <1>0, <1>1, <1>2, <2>1, <2>2, BalancedKept
          DEF Kept, Knows, Creating, Idle, Crediting, Approving
<1>7. CASE PayoutSucceeds(h)
  <2>1. /\ tx[t].type = "WITHDRAWAL" /\ tx[t].status = "REQUIRES_APPROVAL"
        /\ tx' = tx /\ payouts'[t] = payouts[t] + 1 /\ r.pc = "payout"
        /\ \/ LoggerDeclared /\ s = [r EXCEPT !.pc = "lock_wallet"]
           \/ ~LoggerDeclared /\ s = Idle
    BY <1>0, <1>1, <1>7 DEF PayoutSucceeds, Goto, Finish, TypeOK, Row, HasRow, Knows, Approving
  <2>2. \A id \in TxIds : PostedBy(handlers[h], id)'
    BY <1>0, <1>1, <1>2, <2>1 DEF PostedBy, CreditedBy, PaidOutBy, Debited, Idle, ShortfallStatus
  <2>3. Knows(handlers[h])'
    BY <1>0, <1>1, <2>1 DEF Knows, Creating, Idle, Crediting, Approving
  <2> QED BY <1>0, <1>1, <1>2, <2>1, <2>2, <2>3, BalancedKept DEF Kept
<1> QED BY <1>3, <1>4, <1>5, <1>6, <1>7

(* The amount of a deposit is added to its wallet for the first time. *)
LEMMA CreditKeeps ==
  ASSUME LedgerInv, NEW h \in Handlers, Kept(handlers[h]), CreditWallet(h)
  PROVE  Kept(handlers[h])'
<1> DEFINE r == handlers[h]
           s == handlers'[h]
           t == r.tx
<1>0. /\ TypeOK /\ DOMAIN handlers = Handlers
      /\ r \in [pc : HandlerPcs, tx : TxIds \cup {NoTx}, wallet : Wallets \cup {NoWallet},
                amount : Nat, key : Keys \cup {NoKey}, seen : Nat]
      /\ Knows(r) /\ (\A id \in TxIds : PostedBy(r, id)) /\ Balanced
      /\ HasRow(h) /\ r.pc = "credit"
  BY DEF LedgerInv, TypeOK, Kept, CreditWallet
<1>1. /\ t \in TxIds /\ tx[t].type = "DEPOSIT" /\ ~Processed(tx[t])
      /\ r.wallet \in Wallets /\ r.wallet = tx[t].wallet /\ r.amount = tx[t].amount
      /\ r.seen = balance[r.wallet]
  BY <1>0 DEF HasRow, Knows, Crediting
<1>2. /\ balance' = [balance EXCEPT ![r.wallet] = r.seen + r.amount]
      /\ credited' = [credited EXCEPT ![t] = @ + 1]
      /\ s = [r EXCEPT !.pc = "complete"]
      /\ UNCHANGED <<tx, debited, payouts>>
  BY <1>0 DEF CreditWallet, Goto
<1>3. credited[t] = 0 /\ credited \in [TxIds -> Nat]
  BY <1>0, <1>1 DEF PostedBy, CreditedBy, Processed, TypeOK
<1>4. Balanced'
  <2> SUFFICES ASSUME NEW w \in Wallets
      PROVE balance'[w] = InitialBalance + Sum(tx', credited', w) - Sum(tx', debited', w)
    BY DEF Balanced
  <2>1. \A id \in TxIds : tx[id].amount \in Nat
    BY <1>0, RowsTyped
  <2>2. Sum(tx, credited', w) =
          Sum(tx, credited, w) + (IF tx[t].wallet = w THEN tx[t].amount ELSE 0)
    <3>1. \A id \in TxIds : /\ tx[id].amount \in Nat
                            /\ tx[id].wallet = tx[id].wallet
                            /\ tx[id].amount = tx[id].amount
      BY <2>1
    <3>2. t \in TxIds /\ credited'[t] = 1 /\ \A id \in TxIds \ {t} : credited'[id] = credited[id]
      BY <1>1, <1>2, <1>3
    <3> HIDE DEF t
    <3> QED BY <1>3, <3>1, <3>2, SumGrows
  <2>3. balance[w] = InitialBalance + Sum(tx, credited, w) - Sum(tx, debited, w)
    BY <1>0 DEF Balanced
  <2>4. /\ Sum(tx, credited, w) \in Nat /\ Sum(tx, debited, w) \in Nat
        /\ tx[t].amount \in Nat /\ InitialBalance \in Nat
    BY <1>1, <2>1, SumTyped, AmountsArePositive
  <2>5. balance'[w] = balance[w] + (IF tx[t].wallet = w THEN tx[t].amount ELSE 0)
    BY <1>0, <1>1, <1>2 DEF TypeOK
  <2>6. Sum(tx', credited', w) = Sum(tx, credited', w) /\ Sum(tx', debited', w) = Sum(tx, debited, w)
    BY <1>2
  <2> DEFINE a == Sum(tx, credited, w)
             b == Sum(tx, debited, w)
             c == IF tx[t].wallet = w THEN tx[t].amount ELSE 0
  <2>7. a \in Nat /\ b \in Nat /\ c \in Nat
    BY <2>4
  <2> HIDE DEF a, b, c
  <2>8. /\ balance'[w] = (InitialBalance + a - b) + c
        /\ Sum(tx', credited', w) = a + c /\ Sum(tx', debited', w) = b
    BY <2>2, <2>3, <2>5, <2>6 DEF a, b, c
  <2> QED BY <2>4, <2>7, <2>8
<1>5. \A id \in TxIds : PostedBy(handlers[h], id)'
  BY <1>0, <1>1, <1>2, <1>3 DEF PostedBy, CreditedBy, PaidOutBy, Debited
<1>6. Knows(handlers[h])'
  BY <1>0, <1>1, <1>2 DEF Knows, Creating, Crediting, Approving, Processed
<1> QED BY <1>4, <1>5, <1>6 DEF Kept

(* The amount of a withdrawal is taken from its wallet for the first time. *)
LEMMA DebitKeeps ==
  ASSUME LedgerInv, NEW h \in Handlers, Kept(handlers[h]), CommitDebit(h)
  PROVE  Kept(handlers[h])'
<1> DEFINE r == handlers[h]
           s == handlers'[h]
           t == r.tx
<1>0. /\ TypeOK /\ DOMAIN handlers = Handlers
      /\ r \in [pc : HandlerPcs, tx : TxIds \cup {NoTx}, wallet : Wallets \cup {NoWallet},
                amount : Nat, key : Keys \cup {NoKey}, seen : Nat]
      /\ Knows(r) /\ (\A id \in TxIds : PostedBy(r, id)) /\ Balanced
      /\ HasRow(h) /\ HoldsRow(h) /\ r.pc = "debit"
  BY DEF LedgerInv, TypeOK, Kept, CommitDebit
<1>1. /\ t \in TxIds /\ tx[t].type = "WITHDRAWAL" /\ tx[t].status = "REQUIRES_APPROVAL"
      /\ r.wallet \in Wallets /\ r.wallet = tx[t].wallet /\ r.amount = tx[t].amount
      /\ r.seen = balance[r.wallet] /\ tx[t] \in Row
  BY <1>0 DEF HasRow, HoldsRow, Knows, Approving, TypeOK, NoRow
<1>2. /\ balance' = [balance EXCEPT ![r.wallet] = r.seen - r.amount]
      /\ debited' = [debited EXCEPT ![t] = @ + 1]
      /\ s = Idle
      /\ tx' = [tx EXCEPT ![t].status = "COMPLETED"]
      /\ UNCHANGED <<credited, payouts>>
  BY <1>0 DEF CommitDebit, Finish, SetStatus
<1>3. debited[t] = 0 /\ debited \in [TxIds -> Nat] /\ credited \in [TxIds -> Nat]
  BY <1>0, <1>1 DEF PostedBy, Debited, TypeOK
<1>4. /\ \A id \in TxIds : /\ tx'[id].wallet = tx[id].wallet /\ tx'[id].amount = tx[id].amount
                           /\ tx'[id].type = tx[id].type
      /\ \A id \in TxIds \ {t} : tx'[id] = tx[id]
      /\ tx'[t].status = "COMPLETED"
  BY <1>0, <1>1, <1>2 DEF TypeOK, Row
<1>5. Balanced'
  <2> SUFFICES ASSUME NEW w \in Wallets
      PROVE balance'[w] = InitialBalance + Sum(tx', credited', w) - Sum(tx', debited', w)
    BY DEF Balanced
  <2>1. \A id \in TxIds : tx[id].amount \in Nat
    BY <1>0, RowsTyped
  <2>2. Sum(tx', debited', w) =
          Sum(tx, debited, w) + (IF tx[t].wallet = w THEN tx[t].amount ELSE 0)
    <3>1. \A id \in TxIds : /\ tx[id].amount \in Nat
                            /\ tx'[id].wallet = tx[id].wallet
                            /\ tx'[id].amount = tx[id].amount
      BY <1>4, <2>1
    <3>2. t \in TxIds /\ debited'[t] = 1 /\ \A id \in TxIds \ {t} : debited'[id] = debited[id]
      BY <1>1, <1>2, <1>3
    <3> HIDE DEF t
    <3> QED BY <1>3, <3>1, <3>2, SumGrows
  <2>3. balance[w] = InitialBalance + Sum(tx, credited, w) - Sum(tx, debited, w)
    BY <1>0 DEF Balanced
  <2>4. /\ Sum(tx, credited, w) \in Nat /\ Sum(tx, debited, w) \in Nat
        /\ tx[t].amount \in Nat /\ InitialBalance \in Nat
    BY <1>1, <2>1, SumTyped, AmountsArePositive
  <2>5. balance'[w] = balance[w] - (IF tx[t].wallet = w THEN tx[t].amount ELSE 0)
    BY <1>0, <1>1, <1>2 DEF TypeOK
  <2>6. Sum(tx', credited, w) = Sum(tx, credited, w)
    BY <1>3, <1>4, SumKept
  <2>7. Sum(tx', credited', w) = Sum(tx, credited, w)
    BY <1>2, <2>6
  <2> DEFINE a == Sum(tx, credited, w)
             b == Sum(tx, debited, w)
             c == IF tx[t].wallet = w THEN tx[t].amount ELSE 0
  <2>8. a \in Nat /\ b \in Nat /\ c \in Nat
    BY <2>4
  <2> HIDE DEF a, b, c
  <2>9. /\ balance'[w] = (InitialBalance + a - b) - c
        /\ Sum(tx', credited', w) = a /\ Sum(tx', debited', w) = b + c
    BY <2>2, <2>3, <2>5, <2>7 DEF a, b, c
  <2> QED BY <2>4, <2>8, <2>9
<1>6. \A id \in TxIds : PostedBy(handlers[h], id)'
  BY <1>0, <1>1, <1>2, <1>3, <1>4 DEF PostedBy, CreditedBy, PaidOutBy, Debited, Idle
<1>7. Knows(handlers[h])'
  BY <1>2 DEF Knows, Creating, Idle, Crediting, Approving
<1> QED BY <1>5, <1>6, <1>7 DEF Kept

(* Only the request that starts, or goes on, changes. *)
LEMMA StartsAlone ==
  ASSUME LedgerInv, NEW h \in Handlers,
         ClientRequest(h) \/ Webhook(h) \/ (\E id \in TxIds : StartApproval(h, id))
  PROVE  /\ handlers[h] = Idle /\ handlers'[h] # Idle
         /\ \A g \in Handlers \ {h} : handlers'[g] = handlers[g]
<1>1. PICK pc, id, w, a, k :
        /\ pc \in {"create_payment", "check_funds", "mark_failed", "acquire_lock",
                   "read_wallet", "payout"}
        /\ id \in TxIds
        /\ Begin(h, pc, id, w, a, k)
  BY DEF ClientRequest, InitializeDeposit, RequestWithdrawal, FreshIds, Webhook,
     ReceiveWebhook, AfterChecks, StartApproval
<1> QED BY <1>1 DEF Begin, LedgerInv, TypeOK, Idle

LEMMA OthersStay ==
  ASSUME LedgerInv, NEW h \in Handlers, Continue(h)
  PROVE  handlers[h] # Idle /\ \A g \in Handlers \ {h} : handlers'[g] = handlers[g]
<1>1. handlers \in [Handlers -> [pc : HandlerPcs, tx : TxIds \cup {NoTx},
                                 wallet : Wallets \cup {NoWallet}, amount : Nat,
                                 key : Keys \cup {NoKey}, seen : Nat]]
  BY DEF LedgerInv, TypeOK
<1>2. handlers[h].pc # "idle"
  BY DEF Continue, CreatePayment, RecordDeposit, MarkDepositFailed, AcquireLock, ReadWallet,
     CreditWallet, CompleteDeposit, CheckFunds, RecordWithdrawal, PayoutSucceeds, PayoutFails,
     LockWallet, CommitDebit, CommitShortfall
<1>3. \E r : handlers' = [handlers EXCEPT ![h] = r]
  <2>1. CASE CreatePayment(h) \/ RecordDeposit(h) \/ MarkDepositFailed(h) \/ AcquireLock(h)
    BY <1>1, <2>1 DEF CreatePayment, RecordDeposit, MarkDepositFailed, AcquireLock, Goto, Finish
  <2>2. CASE CreditWallet(h) \/ CompleteDeposit(h) \/ CheckFunds(h) \/ RecordWithdrawal(h)
    BY <1>1, <2>2 DEF CreditWallet, CompleteDeposit, CheckFunds, RecordWithdrawal, Goto, Finish
  <2>3. CASE PayoutSucceeds(h) \/ PayoutFails(h) \/ CommitDebit(h) \/ CommitShortfall(h)
    BY <1>1, <2>3 DEF PayoutSucceeds, PayoutFails, CommitDebit, CommitShortfall, Goto, Finish
  <2>4. CASE ReadWallet(h)
    <3>1. handlers' = [handlers EXCEPT ![h] =
            [handlers[h] EXCEPT !.pc = "credit", !.seen = balance[handlers[h].wallet]]]
      BY <1>1, <2>4 DEF ReadWallet
    <3> QED BY <3>1
  <2>5. CASE LockWallet(h)
    <3>1. handlers' = [handlers EXCEPT ![h] =
            [handlers[h] EXCEPT !.seen = balance[handlers[h].wallet], !.pc =
               IF HasSufficientFunds(handlers[h].wallet, handlers[h].amount)
                 THEN "debit" ELSE "shortfall"]]
      BY <1>1, <2>5 DEF LockWallet
    <3> QED BY <3>1
  <2> QED BY <2>1, <2>2, <2>3, <2>4, <2>5 DEF Continue
<1> QED BY <1>1, <1>2, <1>3 DEF Idle

(* At most one request in progress, as the history counts them, is one at a time. *)
LEMMA OneBusy ==
  ASSUME Cardinality({h \in Handlers : handlers'[h] # Idle}) <= 1
  PROVE  OneAtATime'
<1> DEFINE Busy == {h \in Handlers : handlers'[h] # Idle}
<1>1. SUFFICES ASSUME NEW g \in Busy, NEW h \in Busy, g # h PROVE FALSE
  BY DEF OneAtATime, Idle
<1>2. IsFiniteSet(Busy)
  <2>1. Busy \subseteq Handlers
    OBVIOUS
  <2> QED BY <2>1, FinitelyMany, FS_Subset
<1>3. IsFiniteSet({g}) /\ Cardinality({g}) = 1
  BY FS_Singleton
<1>4. Cardinality({g} \cup {h}) = 1 + 1
  BY <1>1, <1>3, FS_AddElement
<1>5. {g} \cup {h} \in SUBSET Busy
  OBVIOUS
<1>6. Cardinality({g} \cup {h}) <= Cardinality(Busy)
  BY <1>2, <1>5, FS_Subset
<1>7. Cardinality(Busy) \in Nat /\ Cardinality(Busy) <= 1
  BY <1>2, FS_CardinalityType
<1> QED BY <1>4, <1>6, <1>7

(* A request that takes its turn keeps the books. *)
LEMMA TurnKeeps ==
  ASSUME LedgerInv, Undisturbed, OneAtATime', NEW h \in Handlers,
         ClientRequest(h) \/ Webhook(h) \/ (\E id \in TxIds : StartApproval(h, id)) \/ Continue(h)
  PROVE  Undisturbed'
<1>1. /\ handlers[h] # Idle \/ handlers'[h] # Idle
      /\ \A g \in Handlers \ {h} : handlers'[g] = handlers[g]
      /\ Kept(handlers[h]) => Kept(handlers[h])'
  <2>1. CASE Continue(h)
    <3>1. Kept(handlers[h]) => Kept(handlers[h])'
      BY <2>1, RecordKeeps, ReadKeeps, SettleKeeps, CreditKeeps, DebitKeeps DEF Continue
    <3> QED BY <2>1, <3>1, OthersStay
  <2>2. CASE ClientRequest(h) \/ Webhook(h) \/ (\E id \in TxIds : StartApproval(h, id))
    <3>1. Kept(handlers[h]) => Kept(handlers[h])'
      BY <2>2, StartKeeps
    <3>2. /\ handlers[h] = Idle /\ handlers'[h] # Idle
          /\ \A g \in Handlers \ {h} : handlers'[g] = handlers[g]
      BY <2>2, StartsAlone
    <3> QED BY <3>1, <3>2
  <2> QED BY <2>1, <2>2
<1>2. \A g \in Handlers \ {h} : handlers[g] = Idle /\ handlers'[g] = Idle
  BY <1>1 DEF Undisturbed, OneAtATime
<1>3. Kept(handlers[h])'
  BY <1>1, <1>2 DEF Undisturbed, Alone
<1>4. ASSUME NEW g \in Handlers, Alone(g)' PROVE Kept(handlers[g])'
  <2>1. CASE g = h
    BY <1>3, <2>1
  <2>2. CASE g # h
    <3>1. handlers'[h] = handlers'[g]
      BY <1>2, <1>4, <2>2 DEF Alone
    <3> QED BY <1>3, <3>1 DEF Kept, Knows, PostedBy, CreditedBy, PaidOutBy
  <2> QED BY <2>1, <2>2
<1>5. (\A g \in Handlers : handlers[g] = Idle)' => Kept(Idle)'
  BY <1>3 DEF Kept, Knows, PostedBy, CreditedBy, PaidOutBy, Idle
<1> QED BY <1>4, <1>5 DEF Undisturbed

(* The inductive step. *)
LEMMA TurnsStep ==
  ASSUME TurnsInv, [TurnsNext]_<<vars, disturbed>>
  PROVE  TurnsInv'
<1>1. [Next]_vars
  BY DEF TurnsNext, vars
<1>2. LedgerInv'
  BY <1>1, StepLedgerInv DEF TurnsInv
<1>3. SUFFICES ASSUME ~disturbed' PROVE Undisturbed'
  BY <1>2 DEF TurnsInv
<1>4. ASSUME UNCHANGED <<balance, tx, handlers, credited, debited, payouts>> PROVE Undisturbed'
  <2>1. Undisturbed
    BY <1>3 DEF TurnsNext, TurnsInv
  <2>2. /\ OneAtATime' <=> OneAtATime
        /\ \A h \in Handlers : /\ Alone(h)' <=> Alone(h)
                               /\ Kept(handlers[h])' <=> Kept(handlers[h])
        /\ Kept(Idle)' <=> Kept(Idle)
    BY <1>4 DEF OneAtATime, Alone, Kept, Knows, Creating, HasSufficientFunds, PostedBy, CreditedBy, PaidOutBy, Debited, Balanced
  <2>3. \A h \in Handlers : handlers'[h] = handlers[h]
    BY <1>4
  <2> QED BY <2>1, <2>2, <2>3 DEF Undisturbed
<1>5. CASE UNCHANGED vars \/ \E id \in TxIds : SettlePayment(id)
  BY <1>4, <1>5 DEF vars, SettlePayment
<1>6. ASSUME ~(UNCHANGED vars), NEW h \in Handlers,
             \/ ClientRequest(h) \/ Webhook(h) \/ (\E id \in TxIds : StartApproval(h, id))
             \/ Continue(h) \/ RequestFails(h)
      PROVE  Undisturbed'
  <2>1. /\ ~disturbed /\ ~(failures' > 0)
        /\ ~(Cardinality({g \in Handlers : handlers'[g] # Idle}) > 1)
    BY <1>3, <1>6 DEF TurnsNext, vars
  <2>2. ~RequestFails(h)
    BY <2>1 DEF RequestFails, TurnsInv, LedgerInv, TypeOK
  <2>3. OneAtATime'
    <3>1. IsFiniteSet({g \in Handlers : handlers'[g] # Idle})
      BY FinitelyMany, FS_Subset
    <3>2. Cardinality({g \in Handlers : handlers'[g] # Idle}) <= 1
      BY <2>1, <3>1, FS_CardinalityType
    <3> QED BY <3>2, OneBusy
  <2> QED BY <1>6, <2>1, <2>2, <2>3, TurnKeeps DEF TurnsInv
<1> QED BY <1>1, <1>5, <1>6 DEF Next, Quiescent

LEMMA InitTurns == TurnsInit => TurnsInv
<1> SUFFICES ASSUME TurnsInit PROVE TurnsInv
  OBVIOUS
<1>1. LedgerInv
  BY InitLedgerInv DEF TurnsInit
<1>2. Kept(Idle)
  <2>1. Knows(Idle) /\ \A id \in TxIds : PostedBy(Idle, id)
    BY DEF TurnsInit, Init, Knows, Creating, PostedBy, CreditedBy, PaidOutBy, Debited, Idle, NoRow,
       Crediting, Approving
  <2>2. ASSUME NEW w \in Wallets
        PROVE  balance[w] = InitialBalance + Sum(tx, credited, w) - Sum(tx, debited, w)
    <3>1. Moved(tx, credited, w) = {} /\ Moved(tx, debited, w) = {}
      BY DEF TurnsInit, Init, Moved
    <3>2. Units(tx, {}) = {}
      BY DEF Units
    <3>3. Sum(tx, credited, w) = 0 /\ Sum(tx, debited, w) = 0
      BY <3>1, <3>2, FS_EmptySet DEF Sum
    <3> QED BY <3>3, AmountsArePositive DEF TurnsInit, Init
  <2> QED BY <2>1, <2>2 DEF Kept, Balanced
<1>3. \A h \in Handlers : handlers[h] = Idle
  BY DEF TurnsInit, Init
<1> QED BY <1>1, <1>2, <1>3 DEF TurnsInv, Undisturbed, OneAtATime

LEMMA TurnsAlways == TurnsSpec => []TurnsInv
<1>1. TurnsInv /\ [TurnsNext]_<<vars, disturbed>> => TurnsInv'
  BY TurnsStep
<1> QED BY InitTurns, <1>1, PTL DEF TurnsSpec

(* One request at a time, or none: the books are as one of them keeps them. *)
LEMMA SomeoneKeeps ==
  ASSUME TurnsInv, ~disturbed
  PROVE  \E r : /\ Kept(r)
                /\ r = Idle \/ \E h \in Handlers : r = handlers[h]
<1>1. CASE \A h \in Handlers : handlers[h] = Idle
  BY <1>1 DEF TurnsInv, Undisturbed
<1>2. ASSUME NEW h \in Handlers, handlers[h] # Idle
      PROVE  Kept(handlers[h])
  BY <1>2 DEF TurnsInv, Undisturbed, OneAtATime, Alone
<1> QED BY <1>1, <1>2

(* Webhooks that take turns credit a deposit once, for every number of deposits and
   repetitions and whether or not there is a lock manager. *)
THEOREM TurnsCreditOnce == TurnsSpec => []CreditedOnceInTurns
<1>1. TurnsInv => CreditedOnceInTurns
  <2> SUFFICES ASSUME TurnsInv, ~disturbed, NEW id \in TxIds PROVE credited[id] <= 1
    BY DEF CreditedOnceInTurns, CreditedAtMostOnce
  <2>1. PICK r : Kept(r)
    BY SomeoneKeeps
  <2> QED BY <2>1 DEF Kept, PostedBy
<1> QED BY <1>1, TurnsAlways, PTL

(* Once its logger is declared, approvals that take turns pay a withdrawal out once and
   leave a trace of it in its row.  (With the logger as it is the outer handler rolls back
   what was to be stored, and the row can be approved, and paid, again.) *)
THEOREM TurnsAccountForPayouts ==
  ASSUME LoggerDeclared
  PROVE  TurnsSpec => []PayoutAccountedInTurns
<1>1. TurnsInv => PayoutAccountedInTurns
  <2> SUFFICES ASSUME TurnsInv, ~disturbed, NEW id \in TxIds
      PROVE  /\ payouts[id] <= 1
             /\ payouts[id] > 0 /\ ~InProgress(id) =>
                  tx[id].status \in {"COMPLETED", "ERROR_INSUFFICIENT_FUNDS_POST_PAYMENT"}
    BY DEF PayoutAccountedInTurns, PaidOutAtMostOnce, PayoutAccounted
  <2>1. PICK r : Kept(r) /\ (r = Idle \/ \E h \in Handlers : r = handlers[h])
    BY SomeoneKeeps
  <2>2. payouts[id] = IF PaidOutBy(r, id) THEN 1 ELSE 0
    BY <2>1 DEF Kept, PostedBy
  <2>3. PaidOutBy(r, id) /\ ~InProgress(id) =>
          tx[id].status \in {"COMPLETED", "ERROR_INSUFFICIENT_FUNDS_POST_PAYMENT"}
    BY <2>1, NullsAreNotValues DEF PaidOutBy, InProgress, Idle, ShortfallStatus
  <2> QED BY <2>2, <2>3
<1> QED BY <1>1, TurnsAlways, PTL

(* Between requests that take turns and do not fail, every wallet holds what its COMPLETED
   transactions say, to the unit: no arithmetic of the use cases is off. *)
THEOREM TurnsBalance == TurnsSpec => []BalanceMatchesInTurns
<1>1. TurnsInv => BalanceMatchesInTurns
  <2> SUFFICES ASSUME TurnsInv, ~disturbed, \A h \in Handlers : handlers[h] = Idle,
                      NEW w \in Wallets
      PROVE  balance[w] =
               InitialBalance + Total(Settled(w, "DEPOSIT")) - Total(Settled(w, "WITHDRAWAL"))
    BY DEF BalanceMatchesInTurns, BalanceMatchesTransactions
  <2>1. Kept(Idle)
    BY DEF TurnsInv, Undisturbed
  <2>2. /\ Settled(w, "DEPOSIT") = Moved(tx, credited, w)
        /\ Settled(w, "WITHDRAWAL") = Moved(tx, debited, w)
    BY <2>1 DEF Kept, PostedBy, CreditedBy, Debited, Idle, Settled, Moved
  <2>3. /\ Total(Settled(w, "DEPOSIT")) = Sum(tx, credited, w)
        /\ Total(Settled(w, "WITHDRAWAL")) = Sum(tx, debited, w)
    BY <2>2 DEF Total, Coins, Sum, Units
  <2> QED BY <2>1, <2>3 DEF Kept, Balanced
<1> QED BY <1>1, TurnsAlways, PTL

-----------------------------------------------------------------------------
(* The tables implement the ledger.                                            *)

Amounts == DepositAmounts \cup WithdrawalAmounts

PaidFor == {id \in TxIds : payments[id] = "paid"}

(* The ledger sees a step of one row: a move of its state, of its wallet's balance and of
   what the gateway and the payment service were asked for. *)
LEMMA StateMoves ==
  ASSUME NEW i \in TxIds, NEW s, LedgerState(i)' = s,
         \A id \in TxIds \ {i} : LedgerState(id)' = LedgerState(id)
  PROVE  [id \in TxIds |-> LedgerState(id)]' =
           [[id \in TxIds |-> LedgerState(id)] EXCEPT ![i] = s]
OBVIOUS

LEMMA EntriesStay ==
  ASSUME \A id \in TxIds : AsEntry(tx[id])' = AsEntry(tx[id])
  PROVE  [id \in TxIds |-> AsEntry(tx[id])]' = [id \in TxIds |-> AsEntry(tx[id])]
OBVIOUS

(* Whoever works alone keeps the books. *)
LEMMA KeptInTurn ==
  ASSUME TurnsInv, TurnsInv', ~disturbed, ~disturbed', NEW h \in Handlers,
         \/ ClientRequest(h) \/ Webhook(h) \/ (\E id \in TxIds : StartApproval(h, id))
         \/ Continue(h)
  PROVE  Kept(handlers[h])
<1>1. /\ handlers[h] # Idle \/ handlers'[h] # Idle
      /\ \A g \in Handlers \ {h} : handlers'[g] = handlers[g]
  BY StartsAlone, OthersStay DEF TurnsInv
<1>2. OneAtATime /\ OneAtATime' /\ Undisturbed
  BY DEF TurnsInv, Undisturbed
<1>3. \A g \in Handlers \ {h} : handlers[g] = Idle
  BY <1>1, <1>2 DEF OneAtATime
<1> QED BY <1>2, <1>3 DEF Undisturbed, Alone

(* A step that changes no row, no balance and no payout, and pays for nothing. *)
LEMMA SameLedger ==
  ASSUME UNCHANGED <<balance, payouts, PaidFor>>,
         \A id \in TxIds : /\ LedgerState(id)' = LedgerState(id)
                           /\ AsEntry(tx[id])' = AsEntry(tx[id])
  PROVE  UNCHANGED Promised!vars
<1>1. [id \in TxIds |-> AsEntry(tx[id])]' = [id \in TxIds |-> AsEntry(tx[id])]
  BY EntriesStay
<1>2. [id \in TxIds |-> LedgerState(id)]' = [id \in TxIds |-> LedgerState(id)]
  OBVIOUS
<1> QED BY <1>1, <1>2 DEF Promised!vars, PaidFor

LEMMA SameRows ==
  ASSUME UNCHANGED <<balance, tx, credited, payouts, PaidFor>>
  PROVE  UNCHANGED Promised!vars
<1>1. \A id \in TxIds : /\ LedgerState(id)' = LedgerState(id)
                        /\ AsEntry(tx[id])' = AsEntry(tx[id])
  BY DEF LedgerState, DepositState, WithdrawalState, Stored, AsEntry
<1> QED BY <1>1, SameLedger

LEMMA OtherRowsSame ==
  ASSUME NEW i \in TxIds,
         \A id \in TxIds \ {i} : /\ tx'[id] = tx[id] /\ credited'[id] = credited[id]
                                 /\ payouts'[id] = payouts[id]
  PROVE  \A id \in TxIds \ {i} : /\ LedgerState(id)' = LedgerState(id)
                                 /\ AsEntry(tx[id])' = AsEntry(tx[id])
BY DEF LedgerState, DepositState, WithdrawalState, Stored, AsEntry

(* Starting, reading, locking and giving up leave the ledger as it is. *)
LEMMA LooksOnly ==
  ASSUME LedgerInv, NEW h \in Handlers,
         \/ ClientRequest(h) \/ Webhook(h) \/ (\E id \in TxIds : StartApproval(h, id))
         \/ CreatePayment(h) \/ AcquireLock(h) \/ ReadWallet(h) \/ CheckFunds(h)
         \/ LockWallet(h)
  PROVE  UNCHANGED Promised!vars
<1>1. CASE CreatePayment(h)
  <2>1. /\ handlers[h].tx \in TxIds /\ payments[handlers[h].tx] = "none"
        /\ payments \in [TxIds -> PaymentStates]
    BY <1>1 DEF CreatePayment, LedgerInv, OwnsNewId, HasRow, Creating, TypeOK
  <2>2. /\ \A id \in TxIds : payments'[id] = "paid" <=> payments[id] = "paid"
        /\ UNCHANGED <<balance, tx, credited, payouts>>
    BY <1>1, <2>1 DEF CreatePayment
  <2>3. UNCHANGED PaidFor
    BY <2>2 DEF PaidFor
  <2> QED BY <2>2, <2>3, SameRows
<1>2. CASE ~CreatePayment(h)
  <2>1. UNCHANGED <<balance, tx, credited, payouts, payments>>
    BY <1>2 DEF ClientRequest, InitializeDeposit, RequestWithdrawal, Webhook, ReceiveWebhook,
       StartApproval, AcquireLock, ReadWallet, CheckFunds, LockWallet
  <2>2. UNCHANGED PaidFor
    BY <2>1 DEF PaidFor
  <2> QED BY <2>1, <2>2, SameRows
<1> QED BY <1>1, <1>2

(* The row a request stores is an entry of the ledger, unless another row has its key. *)
LEMMA RecordsEntry ==
  ASSUME LedgerInv, LoggerDeclared, NEW h \in Handlers, Kept(handlers[h]),
         RecordDeposit(h) \/ RecordWithdrawal(h)
  PROVE  [Promised!Next]_(Promised!vars)
<1> DEFINE r == handlers[h]
<1>t. PICK t \in TxIds : t = r.tx
  BY DEF LedgerInv, HasRow, RecordDeposit, RecordWithdrawal
<1>0. /\ TypeOK /\ r.pc \in {"record_deposit", "record_withdrawal"}
      /\ r.wallet \in Wallets /\ tx[t] = NoRow
      /\ r.amount \in Amounts /\ r.key \in Keys \cup {NoKey}
      /\ payments[t] \in {"issued", "none"}
      /\ credited[t] = 0 /\ payouts[t] = 0
  <2>1. /\ TypeOK /\ r.pc \in {"record_deposit", "record_withdrawal"} /\ OwnsNewId(h)
        /\ HasRow(h) /\ Knows(r)
    BY DEF LedgerInv, RecordDeposit, RecordWithdrawal, Kept
  <2>2. r.wallet \in Wallets /\ tx[t].status = "ABSENT"
    BY <1>t, <2>1 DEF HasRow, OwnsNewId, Creating, Stored
  <2>3. tx[t] = NoRow
    BY <2>1, <2>2 DEF TypeOK, Row, Statuses
  <2>4. PostedBy(r, t)
    BY <2>2 DEF Kept
  <2>5. credited[t] = 0 /\ payouts[t] = 0
    BY <1>t, <2>1, <2>3, <2>4 DEF PostedBy, CreditedBy, PaidOutBy, NoRow
  <2>6. r.amount \in Amounts /\ r.key \in Keys \cup {NoKey}
    BY <2>1 DEF Knows, Creating, Amounts, TypeOK
  <2>7. payments[t] \in {"issued", "none"}
    BY <1>t, <2>1 DEF OwnsNewId, Creating
  <2> QED BY <2>1, <2>2, <2>3, <2>5, <2>6, <2>7
<1>1. UNCHANGED <<balance, credited, payouts>>
  BY DEF RecordDeposit, RecordWithdrawal
<1>2. UNCHANGED PaidFor
  <2>1. \A id \in TxIds : payments'[id] = "paid" <=> payments[id] = "paid"
    BY <1>t, <1>0 DEF RecordDeposit, RecordWithdrawal, TypeOK
  <2> QED BY <2>1 DEF PaidFor
<1> DEFINE New(type, status) ==
             [type |-> type, wallet |-> r.wallet, amount |-> r.amount,
              status |-> status, key |-> r.key]
<1>3. PICK row \in {New("DEPOSIT", "PENDING"), New("WITHDRAWAL", "REQUIRES_APPROVAL")} :
        Insert(t, row)
  <2>1. CASE RecordDeposit(h)
    BY <1>t, <2>1 DEF RecordDeposit
  <2>2. CASE RecordWithdrawal(h)
    BY <1>t, <2>2 DEF RecordWithdrawal
  <2> QED BY <2>1, <2>2
<1>r. /\ \/ row.type = "DEPOSIT" /\ row.status = "PENDING"
         \/ row.type = "WITHDRAWAL" /\ row.status = "REQUIRES_APPROVAL"
      /\ row.wallet = r.wallet /\ row.amount = r.amount /\ row.key = r.key
  BY <1>3
<1>4. CASE KeyTaken(r.key)
  <2>1. UNCHANGED tx
    BY <1>3, <1>4, <1>r DEF Insert
  <2> QED BY <1>1, <1>2, <2>1, SameRows
<1>5. CASE ~KeyTaken(r.key)
  <2>1. tx' = [tx EXCEPT ![t] = row]
    BY <1>3, <1>5, <1>r DEF Insert
  <2>2. tx'[t] = row /\ \A id \in TxIds \ {t} : tx'[id] = tx[id]
    BY <1>0, <2>1 DEF TypeOK
  <2>3. LedgerState(t) = "absent" /\ LedgerState(t)' = "open"
    <3>1. LedgerState(t) = "absent"
      BY <1>0 DEF LedgerState, NoRow, Stored
    <3>2. /\ tx'[t].type = row.type /\ tx'[t].status = row.status
          /\ credited'[t] = 0 /\ payouts'[t] = 0
      BY <1>0, <1>1, <2>2
    <3>3. /\ DepositState(t)' = "open"
          /\ row.type = "WITHDRAWAL" => WithdrawalState(t)' = "open"
      BY <1>r, <3>2 DEF DepositState, WithdrawalState, Outcome
    <3> QED BY <1>r, <3>1, <3>2, <3>3 DEF LedgerState, Stored
  <2>4. /\ \A id \in TxIds \ {t} : LedgerState(id)' = LedgerState(id)
        /\ \A id \in TxIds \ {t} : AsEntry(tx[id])' = AsEntry(tx[id])
    BY <1>0, <1>1, <2>2, OtherRowsSame
  <2>5. [id \in TxIds |-> LedgerState(id)]' =
          [[id \in TxIds |-> LedgerState(id)] EXCEPT ![t] = "open"]
    BY <2>3, <2>4, StateMoves
  <2>6. Promised!Becomes(t, "absent", "open")
    BY <1>0, <2>3, <2>5 DEF Promised!Becomes
  <2> DEFINE e == AsEntry(row)
  <2>7. [id \in TxIds |-> AsEntry(tx[id])]' = [[id \in TxIds |-> AsEntry(tx[id])] EXCEPT ![t] = e]
    BY <2>2, <2>4
  <2>8. e \in Promised!Entry /\ e.key = r.key
    BY <1>0, <1>r DEF Promised!Entry, AsEntry, Amounts
  <2>9. Promised!KeyFree(r.key)
    <3>1. ASSUME NEW id \in TxIds, LedgerState(id) # "absent" PROVE Stored(id)
      BY <1>0, <3>1 DEF LedgerState, Stored, TypeOK, Row, Statuses, NoRow
    <3>2. r.key = NoKey \/ \A id \in TxIds : Stored(id) => tx[id].key # r.key
      BY <1>5 DEF KeyTaken
    <3> QED BY <3>1, <3>2 DEF Promised!KeyFree, AsEntry
  <2> HIDE DEF e
  <2>10. Promised!Enter(t)
    BY <1>1, <1>2, <2>6, <2>7, <2>8, <2>9 DEF Promised!Enter, PaidFor
  <2> QED BY <1>0, <2>10 DEF Promised!Next
<1> QED BY <1>4, <1>5

(* A request refuses, credits or completes its row. *)
LEMMA SettlesDeposit ==
  ASSUME LedgerInv, NEW h \in Handlers, Kept(handlers[h]),
         MarkDepositFailed(h) \/ CreditWallet(h) \/ CompleteDeposit(h)
  PROVE  [Promised!Next]_(Promised!vars)
<1> DEFINE r == handlers[h]
<1>t. PICK t \in TxIds : t = r.tx
  BY DEF LedgerInv, HasRow, MarkDepositFailed, CreditWallet, CompleteDeposit
<1>0. /\ TypeOK /\ Knows(r) /\ PostedBy(r, t) /\ HasRow(h) /\ MoneyFirst(h)
      /\ r.pc \in {"mark_failed", "credit", "complete"}
  BY DEF LedgerInv, Kept, MarkDepositFailed, CreditWallet, CompleteDeposit
<1>1. /\ tx[t].type = "DEPOSIT" /\ tx[t] \in Row /\ ~Processed(tx[t])
      /\ r.pc # "mark_failed" => /\ payments[t] = "paid" /\ r.wallet = tx[t].wallet
                                  /\ r.amount = tx[t].amount
      /\ r.pc = "credit" => r.seen = balance[r.wallet]
      /\ credited[t] = IF r.pc = "complete" THEN 1 ELSE 0
  <2>1. tx[t].type = "DEPOSIT" /\ tx[t] \in Row
    BY <1>t, <1>0 DEF HasRow, Crediting, TypeOK, NoRow
  <2>2. ~Processed(tx[t]) /\ (r.pc = "credit" => r.seen = balance[r.wallet])
    BY <1>t, <1>0 DEF Knows, Crediting
  <2>3. r.pc # "mark_failed" => /\ payments[t] = "paid" /\ r.wallet = tx[t].wallet
                                /\ r.amount = tx[t].amount
    BY <1>t, <1>0 DEF MoneyFirst, Knows, Crediting
  <2>4. credited[t] = IF r.pc = "complete" THEN 1 ELSE 0
    BY <1>t, <1>0, <2>1, <2>2 DEF PostedBy, CreditedBy, Processed
  <2> QED BY <2>1, <2>2, <2>3, <2>4
<1>2. UNCHANGED <<payments, payouts>> /\ UNCHANGED PaidFor
  BY DEF MarkDepositFailed, CreditWallet, CompleteDeposit, PaidFor
<1>3. /\ Stored(t) /\ tx[t].status \notin {"COMPLETED", "FAILED"}
      /\ LedgerState(t) = IF r.pc = "complete" THEN "settled" ELSE "open"
  BY <1>1 DEF LedgerState, DepositState, Stored, Processed, Row, Statuses
<1>4. CASE MarkDepositFailed(h) \/ CompleteDeposit(h)
  <2>1. /\ UNCHANGED <<balance, credited>>
        /\ tx' = [tx EXCEPT ![t].status = IF r.pc = "complete" THEN "COMPLETED" ELSE "FAILED"]
    <3>1. CASE MarkDepositFailed(h)
      BY <1>t, <3>1 DEF MarkDepositFailed, SetStatus
    <3>2. CASE CompleteDeposit(h)
      BY <1>t, <3>2 DEF CompleteDeposit, SetStatus
    <3> QED BY <1>4, <3>1, <3>2
  <2>2. /\ \A id \in TxIds \ {t} : tx'[id] = tx[id]
        /\ tx'[t] = [tx[t] EXCEPT !.status = IF r.pc = "complete" THEN "COMPLETED" ELSE "FAILED"]
    BY <1>0, <2>1 DEF TypeOK
  <2>3. /\ AsEntry(tx'[t]) = AsEntry(tx[t]) /\ tx'[t].type = "DEPOSIT"
        /\ tx'[t].status = IF r.pc = "complete" THEN "COMPLETED" ELSE "FAILED"
    BY <1>1, <2>2 DEF AsEntry, Row
  <2>4. LedgerState(t)' = IF r.pc = "complete" THEN "settled" ELSE "refused"
    BY <1>0, <1>1, <1>4, <2>1, <2>3 DEF LedgerState, DepositState, Stored
  <2>5. /\ \A id \in TxIds \ {t} : LedgerState(id)' = LedgerState(id)
        /\ \A id \in TxIds : AsEntry(tx[id])' = AsEntry(tx[id])
    <3>1. /\ \A id \in TxIds \ {t} : LedgerState(id)' = LedgerState(id)
          /\ \A id \in TxIds \ {t} : AsEntry(tx[id])' = AsEntry(tx[id])
      BY <1>2, <2>1, <2>2, OtherRowsSame
    <3> QED BY <2>3, <3>1
  <2>6. CASE r.pc = "complete"
    <3>1. \A id \in TxIds : LedgerState(id)' = LedgerState(id)
      BY <1>3, <2>4, <2>5, <2>6
    <3> QED BY <1>2, <2>1, <2>5, <3>1, SameLedger
  <2>7. CASE r.pc # "complete"
    <3>1. LedgerState(t) = "open" /\ LedgerState(t)' = "refused"
      BY <1>3, <2>4, <2>7
    <3>2. [id \in TxIds |-> LedgerState(id)]' =
            [[id \in TxIds |-> LedgerState(id)] EXCEPT ![t] = "refused"]
      BY <2>5, <3>1, StateMoves
    <3>3. Promised!Becomes(t, "open", "refused")
      BY <3>1, <3>2 DEF Promised!Becomes
    <3>4. [id \in TxIds |-> AsEntry(tx[id])]' = [id \in TxIds |-> AsEntry(tx[id])]
      BY <2>5, EntriesStay
    <3>5. Promised!Refuse(t)
      BY <1>2, <2>1, <3>3, <3>4 DEF Promised!Refuse, PaidFor
    <3> QED BY <3>5 DEF Promised!Next
  <2> QED BY <2>6, <2>7
<1>5. CASE CreditWallet(h)
  <2>1. /\ UNCHANGED tx /\ r.pc = "credit"
        /\ credited' = [credited EXCEPT ![t] = @ + 1]
        /\ balance' = [balance EXCEPT ![r.wallet] = r.seen + r.amount]
    BY <1>t, <1>5 DEF CreditWallet
  <2>2. credited'[t] = 1 /\ \A id \in TxIds \ {t} : credited'[id] = credited[id]
    BY <1>0, <1>1, <2>1 DEF TypeOK
  <2>3. LedgerState(t) = "open" /\ LedgerState(t)' = "settled"
    BY <1>1, <1>3, <2>1, <2>2 DEF LedgerState, DepositState, Stored
  <2>4. \A id \in TxIds \ {t} : LedgerState(id)' = LedgerState(id)
    BY <1>2, <2>1, <2>2, OtherRowsSame
  <2>5. [id \in TxIds |-> LedgerState(id)]' =
          [[id \in TxIds |-> LedgerState(id)] EXCEPT ![t] = "settled"]
    BY <2>3, <2>4, StateMoves
  <2>6. Promised!Becomes(t, "open", "settled")
    BY <2>3, <2>5 DEF Promised!Becomes
  <2>7. [id \in TxIds |-> AsEntry(tx[id])]' = [id \in TxIds |-> AsEntry(tx[id])]
    BY <2>1, EntriesStay
  <2>8. /\ AsEntry(tx[t]).type = "DEPOSIT" /\ AsEntry(tx[t]).wallet = tx[t].wallet
        /\ AsEntry(tx[t]).amount = tx[t].amount /\ t \in PaidFor
    BY <1>1, <2>1 DEF AsEntry, PaidFor
  <2>9. balance' = [balance EXCEPT ![tx[t].wallet] = @ + tx[t].amount]
    BY <1>0, <1>1, <2>1 DEF TypeOK, Row
  <2>10. Promised!Credit(t)
    BY <1>2, <2>6, <2>7, <2>8, <2>9 DEF Promised!Credit, PaidFor
  <2> QED BY <2>10 DEF Promised!Next
<1> QED BY <1>4, <1>5

(* A payout that is refused, or goes out and is then taken from the wallet or owed. *)
LEMMA SettlesWithdrawal ==
  ASSUME LedgerInv, LoggerDeclared, NEW h \in Handlers, Kept(handlers[h]),
         PayoutSucceeds(h) \/ PayoutFails(h) \/ CommitDebit(h) \/ CommitShortfall(h)
  PROVE  Promised!Next
<1> DEFINE r == handlers[h]
<1>t. PICK t \in TxIds : t = r.tx
  BY DEF LedgerInv, HasRow, PayoutSucceeds, PayoutFails, CommitDebit, CommitShortfall
<1>0. /\ TypeOK /\ Knows(r) /\ PostedBy(r, t) /\ HasRow(h) /\ HoldsRow(h)
      /\ r.pc \in {"payout", "debit", "shortfall"}
  BY DEF LedgerInv, Kept, PayoutSucceeds, PayoutFails, CommitDebit, CommitShortfall
<1>1. /\ tx[t].type = "WITHDRAWAL" /\ tx[t] \in Row /\ tx[t].status = "REQUIRES_APPROVAL"
      /\ r.wallet = tx[t].wallet /\ r.amount = tx[t].amount /\ r.amount \in Nat
      /\ r.pc = "debit" => r.seen = balance[r.wallet] /\ r.amount <= balance[r.wallet]
      /\ r.pc = "shortfall" => balance[r.wallet] < r.amount
      /\ payouts[t] = IF r.pc = "payout" THEN 0 ELSE 1
  <2>1. tx[t].type = "WITHDRAWAL" /\ tx[t] \in Row
    BY <1>t, <1>0 DEF HasRow, Approving, TypeOK, NoRow
  <2>2. /\ tx[t].status = "REQUIRES_APPROVAL"
        /\ r.wallet = tx[t].wallet /\ r.amount = tx[t].amount
    BY <1>t, <1>0 DEF Knows, Approving
  <2>3. r.amount \in Nat /\ balance[r.wallet] \in Nat
    BY <1>0, <2>1, <2>2 DEF TypeOK, Row
  <2>4. /\ r.pc = "debit" => r.seen = balance[r.wallet] /\ r.amount <= balance[r.wallet]
        /\ r.pc = "shortfall" => balance[r.wallet] < r.amount
    BY <1>0, <2>3 DEF HoldsRow, Knows, HasSufficientFunds
  <2>5. payouts[t] = IF r.pc = "payout" THEN 0 ELSE 1
    BY <1>t, <1>0, <2>1, <2>2 DEF PostedBy, PaidOutBy, ShortfallStatus
  <2> QED BY <2>1, <2>2, <2>3, <2>4, <2>5
<1>2. UNCHANGED <<payments, credited>> /\ UNCHANGED PaidFor
  BY DEF PayoutSucceeds, PayoutFails, CommitDebit, CommitShortfall, PaidFor
<1>3. Stored(t) /\ LedgerState(t) = IF r.pc = "payout" THEN "open" ELSE "sent"
  BY <1>1 DEF LedgerState, WithdrawalState, Outcome, Stored
<1>4. /\ AsEntry(tx[t]).type = "WITHDRAWAL" /\ AsEntry(tx[t]).wallet = r.wallet
      /\ AsEntry(tx[t]).amount = r.amount
  BY <1>1 DEF AsEntry
<1>5. CASE PayoutSucceeds(h)
  <2>1. /\ UNCHANGED <<balance, tx>> /\ r.pc = "payout"
        /\ payouts' = [payouts EXCEPT ![t] = @ + 1]
    BY <1>t, <1>5 DEF PayoutSucceeds
  <2>2. payouts'[t] = 1 /\ \A id \in TxIds \ {t} : payouts'[id] = payouts[id]
    BY <1>0, <1>1, <2>1 DEF TypeOK
  <2>3. LedgerState(t) = "open" /\ LedgerState(t)' = "sent"
    BY <1>1, <1>3, <2>1, <2>2 DEF LedgerState, WithdrawalState, Outcome, Stored
  <2>4. \A id \in TxIds \ {t} : LedgerState(id)' = LedgerState(id)
    BY <1>2, <2>1, <2>2, OtherRowsSame
  <2>5. Promised!Becomes(t, "open", "sent")
    BY <2>3, <2>4, StateMoves DEF Promised!Becomes
  <2>6. [id \in TxIds |-> AsEntry(tx[id])]' = [id \in TxIds |-> AsEntry(tx[id])]
    BY <2>1, EntriesStay
  <2>7. Promised!Send(t)
    BY <1>2, <1>4, <2>1, <2>5, <2>6 DEF Promised!Send, PaidFor
  <2> QED BY <2>7 DEF Promised!Next
<1>6. CASE PayoutFails(h) \/ CommitDebit(h) \/ CommitShortfall(h)
  <2> DEFINE end == CASE r.pc = "payout" -> "PAYMENT_FAILED"
                      [] r.pc = "debit" -> "COMPLETED"
                      [] r.pc = "shortfall" -> ShortfallStatus
  <2>1. UNCHANGED payouts /\ tx' = [tx EXCEPT ![t].status = end]
    <3>1. CASE PayoutFails(h)
      BY <1>t, <3>1 DEF PayoutFails, SetStatus
    <3>2. CASE CommitDebit(h)
      BY <1>t, <3>2 DEF CommitDebit, SetStatus
    <3>3. CASE CommitShortfall(h)
      BY <1>t, <3>3 DEF CommitShortfall, SetStatus
    <3> QED BY <1>6, <3>1, <3>2, <3>3
  <2>e. end \in DOMAIN Outcome /\ end # "ABSENT"
    BY <1>0 DEF Outcome, ShortfallStatus
  <2>p. PICK status : status = end
    OBVIOUS
  <2> HIDE DEF end
  <2>2. /\ \A id \in TxIds \ {t} : tx'[id] = tx[id]
        /\ tx'[t] = [tx[t] EXCEPT !.status = status]
    BY <1>0, <2>1, <2>p DEF TypeOK
  <2>3. AsEntry(tx'[t]) = AsEntry(tx[t]) /\ tx'[t].type = "WITHDRAWAL" /\ tx'[t].status = status
    BY <1>1, <2>2 DEF AsEntry, Row
  <2>4. LedgerState(t)' = Outcome[status]
    BY <2>3, <2>e, <2>p DEF LedgerState, WithdrawalState, Stored
  <2>5. /\ \A id \in TxIds \ {t} : LedgerState(id)' = LedgerState(id)
        /\ \A id \in TxIds : AsEntry(tx[id])' = AsEntry(tx[id])
    <3>1. /\ \A id \in TxIds \ {t} : LedgerState(id)' = LedgerState(id)
          /\ \A id \in TxIds \ {t} : AsEntry(tx[id])' = AsEntry(tx[id])
      BY <1>2, <2>1, <2>2, OtherRowsSame
    <3> QED BY <2>3, <3>1
  <2>6. [id \in TxIds |-> AsEntry(tx[id])]' = [id \in TxIds |-> AsEntry(tx[id])]
    BY <2>5, EntriesStay
  <2>7. ASSUME NEW s, Outcome[status] = s, NEW from, LedgerState(t) = from
        PROVE  Promised!Becomes(t, from, s)
    BY <2>4, <2>5, <2>7, StateMoves DEF Promised!Becomes
  <2>8. CASE PayoutFails(h)
    <3>1. r.pc = "payout" /\ UNCHANGED balance
      BY <2>8 DEF PayoutFails
    <3>2. Outcome[status] = "refused"
      BY <2>p, <3>1 DEF end, Outcome
    <3>3. Promised!Becomes(t, "open", "refused")
      BY <1>3, <2>7, <3>1, <3>2
    <3>4. Promised!Refuse(t)
      BY <1>2, <2>1, <2>6, <3>1, <3>3 DEF Promised!Refuse, PaidFor
    <3> QED BY <3>4 DEF Promised!Next
  <2>9. CASE CommitDebit(h)
    <3>1. r.pc = "debit" /\ balance' = [balance EXCEPT ![r.wallet] = r.seen - r.amount]
      BY <2>9 DEF CommitDebit
    <3>2. Outcome[status] = "settled"
      BY <2>p, <3>1 DEF end, Outcome
    <3>3. Promised!Becomes(t, "sent", "settled")
      BY <1>3, <2>7, <3>1, <3>2
    <3>4. balance' = [balance EXCEPT ![r.wallet] = @ - r.amount] /\ balance[r.wallet] >= r.amount
      BY <1>0, <1>1, <3>1 DEF TypeOK, Row
    <3>5. Promised!Debit(t)
      BY <1>2, <1>4, <2>1, <2>6, <3>3, <3>4 DEF Promised!Debit, PaidFor
    <3> QED BY <3>5 DEF Promised!Next
  <2>10. CASE CommitShortfall(h)
    <3>1. r.pc = "shortfall" /\ UNCHANGED balance
      BY <2>10 DEF CommitShortfall
    <3>2. Outcome[status] = "owed"
      BY <2>p, <3>1 DEF end, Outcome, ShortfallStatus
    <3>3. Promised!Becomes(t, "sent", "owed")
      BY <1>3, <2>7, <3>1, <3>2
    <3>4. Promised!Owe(t)
      BY <1>1, <1>2, <1>4, <2>1, <2>6, <3>1, <3>3 DEF Promised!Owe, PaidFor
    <3> QED BY <3>4 DEF Promised!Next
  <2> QED BY <1>6, <2>8, <2>9, <2>10
<1> QED BY <1>5, <1>6

(* The customer pays, or gives up. *)
LEMMA PaysOrNot ==
  ASSUME TypeOK, NEW id \in TxIds, SettlePayment(id)
  PROVE  [Promised!Next]_(Promised!vars)
<1>1. UNCHANGED <<balance, tx, credited, payouts>>
  BY DEF SettlePayment
<1>2. PaidFor' = PaidFor \cup {id} \/ UNCHANGED PaidFor
  <2>1. PICK outcome \in {"paid", "declined"} : payments' = [payments EXCEPT ![id] = outcome]
    BY DEF SettlePayment
  <2>2. payments[id] = "open" /\ payments \in [TxIds -> PaymentStates]
    BY DEF SettlePayment, TypeOK
  <2> QED BY <2>1, <2>2 DEF PaidFor
<1>3. CASE UNCHANGED PaidFor
  BY <1>1, <1>3, SameRows
<1>4. CASE PaidFor' = PaidFor \cup {id}
  <2>1. \A i \in TxIds : LedgerState(i)' = LedgerState(i) /\ AsEntry(tx[i])' = AsEntry(tx[i])
    BY <1>1 DEF LedgerState, DepositState, WithdrawalState, Stored, AsEntry
  <2>2. [i \in TxIds |-> LedgerState(i)]' = [i \in TxIds |-> LedgerState(i)]
    BY <2>1
  <2>3. [i \in TxIds |-> AsEntry(tx[i])]' = [i \in TxIds |-> AsEntry(tx[i])]
    BY <2>1, EntriesStay
  <2>4. Promised!Pay(id)
    BY <1>1, <1>4, <2>2, <2>3 DEF Promised!Pay, PaidFor
  <2> QED BY <2>4 DEF Promised!Next
<1> QED BY <1>2, <1>3, <1>4

(* Every step taken in turn is a step of the ledger, or one it does not see. *)
LEMMA LedgerStep ==
  ASSUME LoggerDeclared, TurnsInv, TurnsInv', [TurnsNext]_<<vars, disturbed>>
  PROVE  [Promised!Next \/ disturbed']_(Promised!vars)
<1> SUFFICES ASSUME ~disturbed' PROVE [Promised!Next]_(Promised!vars)
  OBVIOUS
<1>0. LedgerInv /\ TypeOK
  BY DEF TurnsInv, LedgerInv
<1>1. CASE UNCHANGED vars
  <2>1. UNCHANGED <<balance, tx, credited, payouts>> /\ UNCHANGED PaidFor
    BY <1>1 DEF vars, PaidFor
  <2> QED BY <2>1, SameRows
<1>2. CASE \E id \in TxIds : SettlePayment(id)
  BY <1>0, <1>2, PaysOrNot
<1>3. ASSUME ~(UNCHANGED vars), NEW h \in Handlers,
             \/ ClientRequest(h) \/ Webhook(h) \/ (\E id \in TxIds : StartApproval(h, id))
             \/ Continue(h) \/ RequestFails(h)
      PROVE  [Promised!Next]_(Promised!vars)
  <2>1. ~disturbed /\ ~(failures' > 0)
    BY <1>3 DEF TurnsNext, vars
  <2>2. ~RequestFails(h)
    BY <1>0, <2>1 DEF RequestFails, TypeOK
  <2>3. Kept(handlers[h])
    BY <1>3, <2>1, <2>2, KeptInTurn
  <2>4. CASE \/ ClientRequest(h) \/ Webhook(h) \/ (\E id \in TxIds : StartApproval(h, id))
             \/ CreatePayment(h) \/ AcquireLock(h) \/ ReadWallet(h) \/ CheckFunds(h)
             \/ LockWallet(h)
    BY <1>0, <2>4, LooksOnly
  <2>5. CASE RecordDeposit(h) \/ RecordWithdrawal(h)
    BY <1>0, <2>3, <2>5, RecordsEntry
  <2>6. CASE MarkDepositFailed(h) \/ CreditWallet(h) \/ CompleteDeposit(h)
    BY <1>0, <2>3, <2>6, SettlesDeposit
  <2>7. CASE PayoutSucceeds(h) \/ PayoutFails(h) \/ CommitDebit(h) \/ CommitShortfall(h)
    BY <1>0, <2>3, <2>7, SettlesWithdrawal
  <2> QED BY <1>3, <2>2, <2>4, <2>5, <2>6, <2>7 DEF Continue
<1> QED BY <1>1, <1>2, <1>3 DEF TurnsNext, Next, Quiescent, vars

LEMMA LedgerStart == TurnsInit => Promised!Init
<1> SUFFICES ASSUME TurnsInit PROVE Promised!Init
  OBVIOUS
<1>1. /\ balance = [w \in Wallets |-> InitialBalance]
      /\ payouts = [id \in TxIds |-> 0]
      /\ tx = [id \in TxIds |-> NoRow]
      /\ payments = [id \in TxIds |-> "none"]
  BY DEF TurnsInit, Init
<1>2. \A id \in TxIds : LedgerState(id) = "absent" /\ AsEntry(tx[id]) = AsEntry(NoRow)
  BY <1>1 DEF LedgerState, Stored, NoRow
<1>3. {id \in TxIds : payments[id] = "paid"} = {}
  BY <1>1
<1>4. [id \in TxIds |-> LedgerState(id)] = [id \in TxIds |-> "absent"]
  BY <1>2
<1>5. [id \in TxIds |-> AsEntry(tx[id])] = [id \in TxIds |-> AsEntry(NoRow)]
  BY <1>2
<1> QED BY <1>1, <1>3, <1>4, <1>5 DEF Promised!Init

(* Until two requests overlap or one fails, the use cases implement the ledger: no step of
   theirs moves money twice, in part, or otherwise than an entry says.  The logger has to be
   declared: without it an approval pays and forgets. *)
THEOREM TurnsImplementLedger ==
  ASSUME LoggerDeclared
  PROVE  TurnsSpec => LedgerInTurns
<1>1. TurnsInv /\ TurnsInv' /\ [TurnsNext]_<<vars, disturbed>>
        => [Promised!Next \/ disturbed']_(Promised!vars)
  BY LedgerStep
<1> QED BY <1>1, TurnsAlways, LedgerStart, PTL DEF TurnsSpec, LedgerInTurns

(* Requests that always take turns, and do not fail, are a ledger. *)
THEOREM QuietIsLedger ==
  ASSUME LoggerDeclared
  PROVE  TurnsSpec /\ []~disturbed => Promised!Spec
<1>1. ~disturbed' /\ [Promised!Next \/ disturbed']_(Promised!vars)
        => [Promised!Next]_(Promised!vars)
  OBVIOUS
<1> QED BY <1>1, TurnsImplementLedger, PTL DEF LedgerInTurns, Promised!Spec

=============================================================================
