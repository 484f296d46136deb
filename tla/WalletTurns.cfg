\* Deposits, webhooks, withdrawals and approvals of one wallet, two at a time, one
\* call of which may fail, with the logger declared so that approvals run to their
\* end.  Liveness is checked, so there is no symmetry.
SPECIFICATION TurnsSpec
CONSTANTS
  Wallets = {w1}
  TxIds = {t1, t2}
  Keys = {k1, k2}
  Handlers = {h1, h2}
  NoWallet = NoWallet
  NoTx = NoTx
  NoKey = NoKey
  NoHandler = NoHandler
  DepositAmounts = {1, 2}
  WithdrawalAmounts = {1, 2}
  InitialBalance = 2
  UseLockManager = TRUE
  LoggerDeclared = TRUE
  MaxFailures = 1
  MaxPayouts = 2
INVARIANTS
  
  BalanceMatchesInTurns
PROPERTIES
  PaidDepositSettles
  
