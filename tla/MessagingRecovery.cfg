\* Two calls of connect(), two lost connections, and close().
SPECIFICATION Spec
CONSTANTS
  Runs = {r1, r2, r3}
  NoRun = NoRun
  Helpers = {h1, h2}
  Shutdown = Shutdown
  Conns = {c1, c2, c3}
  NoConn = NoConn
  MaxRetries = 2
  Queues = 2
  MaxConnects = 2
  MaxLosses = 2
SYMMETRY Symmetry
INVARIANTS
  PromiseIsPending
  NoDeadReference
  NeverSilentlyDown
