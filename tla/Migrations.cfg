\* Every order of migrating and undoing, with two tournaments, two games and one
\* run that dies half-way.
SPECIFICATION MigrationsSpec
CONSTANTS
  Tournaments = {r1, r2}
  Names = {n1, n2}
  NoName = NoName
  MaxDeaths = 1
SYMMETRY Symmetry
INVARIANTS
  UndoRebuilds
  ModelsFit

  
