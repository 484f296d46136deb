\* Two deliveries of one webhook, with the lock manager: the status is read before
\* the lock and not again.
SPECIFICATION Spec
CONSTANTS
  Wallets = {w1}
  TxIds = {t1}
  Keys = {k1}
  Handlers = {h1, h2}
  NoWallet = NoWallet
  NoTx = NoTx
  NoKey = NoKey
  NoHandler = NoHandler
  DepositAmounts = {1}
  WithdrawalAmounts = {}
  InitialBalance = 1
  UseLockManager = TRUE
  LoggerDeclared = FALSE
  MaxFailures = 0
  MaxPayouts = 1
SYMMETRY Symmetry
INVARIANTS
  CreditedAtMostOnce
