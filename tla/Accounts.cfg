CONSTANTS
  Users = {u1, u2}
  Emails = {e1, e2, e3}
  Roles = {PLAYER, ADMIN}
  Player = PLAYER
  Requests = {r1, r2, r3}
  NoUser = NoUser
  NoEmail = NoEmail
  NoRole = NoRole
  MaxTokens = 2
  MaxTime = 1
SPECIFICATION Spec
SYMMETRY Symmetry
INVARIANTS
  RolesAsGranted
  NothingPendingOnceVerified
  AccessWasEarned
CHECK_DEADLOCK FALSE
