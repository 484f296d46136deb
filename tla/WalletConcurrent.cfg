\* Three requests at a time: deposits, webhooks, withdrawals and approvals that run
\* to their end, with a lock manager and a call that fails half-way.
SPECIFICATION Spec
CONSTANTS
  Wallets = {w1, w2}
  TxIds = {t1, t2}
  Keys = {k1, k2}
  Handlers = {h1, h2, h3}
  NoWallet = NoWallet
  NoTx = NoTx
  NoKey = NoKey
  NoHandler = NoHandler
  DepositAmounts = {1, 2}
  WithdrawalAmounts = {1}
  InitialBalance = 1
  UseLockManager = TRUE
  LoggerDeclared = TRUE
  MaxFailures = 1
  MaxPayouts = 2
SYMMETRY Symmetry
INVARIANTS
  
  NoLostUpdate
  CreditedWasPaid
  CompletedDepositCredited
