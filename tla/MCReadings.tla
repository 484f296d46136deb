----------------------------- MODULE MCReadings -----------------------------
(***************************************************************************)
(* A small instance of Rankings and of Listings for TLC.  The two share no *)
(* state: a behaviour is one of Rankings while the listings rest in their  *)
(* initial state, or the other way round.                                  *)
(***************************************************************************)
CONSTANTS
  Rows, Keys, MaxLimit, DefaultLimit, MaxChanges,
  Users, Scores, Boards, ScoreLists, Surrounding, PageLimit, Standings, MaxCalls, MaxCuts
VARIABLES
  kind, key, present, request, seen, added, removed, torn,
  client, score, calls, sent, replies, cuts, began, writer

Lists == INSTANCE Listings
listed == <<kind, key, present, request, seen, added, removed, torn>>

Ranks == INSTANCE Rankings WITH lost <- cuts, MaxLosses <- MaxCuts
ranking == <<client, score, calls, sent, replies, cuts, began, writer>>

ASSUME ReadingsTyped == Lists!ConstantsFit /\ Ranks!ConstantsFit

MCScoreLists == {<<"daily", "all_time">>, <<"all_time">>}
MCStandings == {<<0, 0, 0>>, <<1, 1, 1>>, <<1, 0, 2>>, <<2, 1, 2>>}

\* The module that does not run stays in one initial state.
RankingsRest == client = "none" /\ calls = <<>> /\ \A b \in Boards, u \in Users : score[b][u] = 0
ListingsRest ==
  /\ kind = "users" /\ key = [r \in Rows |-> 1] /\ present = {}
  /\ request = Lists!Unasked(1, 1) /\ added = {}

ReadingsInit == Ranks!Init /\ Lists!Init /\ (RankingsRest \/ ListingsRest)
ReadingsNext ==
  \/ ListingsRest /\ Ranks!Next /\ UNCHANGED listed
  \/ RankingsRest /\ Lists!Next /\ UNCHANGED ranking

ReadingsSpec == ReadingsInit /\ [][ReadingsNext]_<<ranking, listed>>

\* Listings' AddingSkipsNothing: a walk skips no row that was there all along.
AddingSkipsNothing == Lists!AddingSkipsNothing

\* Listings' RemovingRepeatsNothing: a walk during which no row appears repeats none.
RemovingRepeatsNothing == Lists!RemovingRepeatsNothing

\* Rankings' RankAmongNeighbours: a rank agrees with the players shown around it.
RankAmongNeighbours == Ranks!RankAmongNeighbours

\* Rankings' LaterScoreStands: an earlier update overwrites no score of a later one.
LaterScoreStands == Ranks!LaterScoreStands

=============================================================================
