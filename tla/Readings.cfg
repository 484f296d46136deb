\* Leaderboards: three players, two boards, two calls, one lost connection.
\* Listings: three rows, two of which come or go, pages of one or two rows.
SPECIFICATION ReadingsSpec
CONSTANTS
  Users = {1, 2, 3}
  Scores = {1, 2}
  Boards = {"daily", "all_time"}
  ScoreLists <- MCScoreLists
  Standings <- MCStandings
  Surrounding = 1
  PageLimit = 2
  MaxCalls = 2
  MaxCuts = 1
  Rows = {r1, r2, r3}
  Keys = {1, 2, 3}
  MaxLimit = 2
  DefaultLimit = 1
  MaxChanges = 2
CHECK_DEADLOCK FALSE
INVARIANTS
  RankAmongNeighbours
  AddingSkipsNothing
  RemovingRepeatsNothing
PROPERTIES
  LaterScoreStands
