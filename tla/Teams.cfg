\* Two requests at a time on a team in a world of three users, with two invitations.
SPECIFICATION Spec
CONSTANTS
  Users = {u1, u2, u3}
  Invites = {i1, i2}
  Handlers = {h1, h2}
  NoTeam = NoTeam
  NoUser = NoUser
  NoInvite = NoInvite
  NoHandler = NoHandler
CONSTRAINTS
  UpToDate
  InvitationsApart
SYMMETRY Symmetry
CHECK_DEADLOCK FALSE
INVARIANTS
  OneOwner
  OwnerIsActive
PROPERTIES
  NobodyIsDraftedIn
