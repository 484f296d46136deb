\* Two requests at a time on a tournament of two places and three players; one
\* request may fail.
SPECIFICATION TurnsSpec
CONSTANTS
  Users = {u1, u2, u3}
  EntryIds = {e1, e2, e3}
  Handlers = {h1, h2}
  NoUser = NoUser
  NoEntry = NoEntry
  Sizes = {2, 3}
  Fees = {0, 1}
  InitialBalance = 1
  MaxFailures = 1
  MaxEdits = 1
SYMMETRY Symmetry
INVARIANTS
  RegistrationInv
  NoFreeEntry
  BooksAgreeInTurns
PROPERTIES
  OngoingOnlyEndsInTurns
  LineUpIsFixedInTurns
