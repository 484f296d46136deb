-------------------------- MODULE MCTournamentTurns --------------------------
(* A small instance of TournamentTurns for TLC. *)
EXTENDS TournamentTurns, TLC

\* Players, uuids and requests are interchangeable; no property tells them apart.
Symmetry == Permutations(Users) \cup Permutations(EntryIds) \cup Permutations(Handlers)

=============================================================================
