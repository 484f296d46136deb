\* The worker: three files, one malformed, one connection lost, one process ended.
\* The server: two requests, two sockets, two signals, one connection lost.
SPECIFICATION MCFairSpec
CONSTANTS
  Files = {f1, f2, f3}
  Malformed = {f3}
  MaxLosses = 1
  MaxExits = 1
  Requests = {q1, q2}
  Sockets = {s1, s2}
  Signals = {SIGINT, SIGTERM}
  MaxTransactions = 2
  MaxDrops = 1
CHECK_DEADLOCK FALSE
INVARIANTS
  NoFileDropped
  ShutdownIsGraceful
  GoneIsCleared
PROPERTIES
  EveryFileSettled
  
