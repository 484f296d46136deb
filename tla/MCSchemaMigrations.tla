------------------------- MODULE MCSchemaMigrations -------------------------
(* Small instances of SchemaMigrations for TLC. *)
EXTENDS TLC

CONSTANTS Tournaments, Names, NoName, MaxDeaths
VARIABLES schema, applied, run, tournaments, games, deaths, dead

Schema == INSTANCE SchemaMigrations WITH
  Rows <- Tournaments, rows <- tournaments, torn <- dead

ASSUME SchemaTyped == Schema!ConstantsFit

MigrationsSpec == Schema!Spec

\* Tournaments are interchangeable, and so are names.
Symmetry == Permutations(Tournaments) \cup Permutations(Names)

\* SchemaMigrations' UndoRebuilds: undoing gives the former tables and columns back.
UndoRebuilds == Schema!UndoRebuilds

\* SchemaMigrations' ModelsFit: 12 models find the columns they read and write.
ModelsFit == Schema!ModelsFit

\* SchemaMigrations' TournamentsKeepTheirGame: no migration loses a tournament's game.
TournamentsKeepTheirGame == Schema!TournamentsKeepTheirGame

=============================================================================
