-------------------------- MODULE SchemaMigrations --------------------------
(***************************************************************************)
(* sequelize-cli db:migrate and db:migrate:undo over the files of          *)
(* db/migrations.  A run executes the statements of one migration one      *)
(* after the other; when the last one succeeds the migration is recorded   *)
(* in (or removed from) SequelizeMeta.  Only the migration that replaces   *)
(* Tournaments.gameType by gameId runs in a transaction: what the others   *)
(* did before a refused statement, or before the process died, stays.      *)
(*                                                                         *)
(* Postgres is modelled from how the files use it: createTable is CREATE   *)
(* TABLE IF NOT EXISTS, dropTable and removeIndex are DROP ... IF EXISTS,  *)
(* and every other statement is refused when its object is there already   *)
(* or missing.  The rows of Tournaments and Games are those that releases  *)
(* of the platform wrote while the schema had the columns for them.        *)
(***************************************************************************)
EXTENDS MigrationScripts, SequencesExt, TLC

CONSTANTS
  Rows,       \* rows of Tournaments
  Names,      \* names of games
  NoName,     \* null
  MaxDeaths   \* bound: runs whose process dies between two statements

\* assumed by MCSchemaMigrations
ConstantsFit == NoName \notin Names /\ MaxDeaths \in Nat

VARIABLES
  schema,     \* tables and their columns, indexes and named constraints
  applied,    \* SequelizeMeta: the number of migrations recorded, always a prefix
  run,        \* the migration being run, its direction and its next statement
  rows,       \* for each row of Tournaments its gameType and the game of its gameId
  games,      \* names of the rows of Games
  deaths,     \* runs that died so far
  torn        \* history: runs <<migration, direction>> that died

history == <<deaths, torn>>
vars == <<schema, applied, run, rows, games, history>>

Levels == 0 .. Len(Migrations)
Idle == [migration |-> 0, direction |-> "up", next |-> 1]
Resting == run = Idle
Statements(r) == Migrations[r.migration][r.direction]
Row(type, game) == [type |-> type, game |-> game]

-----------------------------------------------------------------------------
(* What a statement needs and what it does. *)

Exists(s, t) == t \in DOMAIN s.tables
Has(s, t, c) == Exists(s, t) /\ c \in DOMAIN s.tables[t]
Columns(s, t) == DOMAIN s.tables[t]
ReferredTo(s, t) ==
  \E u \in DOMAIN s.tables \ {t} : \E c \in Columns(s, u) : s.tables[u][c].to = t
TargetsExist(s, stmt) ==
  \A c \in DOMAIN stmt.columns :
    stmt.columns[c].to = NoTable \/ Exists(s, stmt.columns[c].to) \/ stmt.columns[c].to = stmt.table

Accepted(s, stmt) ==
  CASE stmt.op = "createTable" -> Exists(s, stmt.table) \/ TargetsExist(s, stmt)
    [] stmt.op = "dropTable" -> ~ReferredTo(s, stmt.table)
    [] stmt.op = "addColumn" ->
         /\ Exists(s, stmt.table) /\ ~Has(s, stmt.table, stmt.column)
         /\ stmt.kind.to = NoTable \/ Exists(s, stmt.kind.to)
    [] stmt.op = "removeColumn" -> Has(s, stmt.table, stmt.column)
    [] stmt.op \in {"addIndex", "addConstraint"} ->
         /\ <<stmt.table, stmt.columns>> \notin s.indexes
         /\ \A c \in stmt.columns : Has(s, stmt.table, c)
    [] stmt.op = "removeConstraint" -> <<stmt.table, stmt.columns>> \in s.indexes
    [] stmt.op = "linkGames" -> Has(s, "Tournaments", "gameType") /\ Has(s, "Tournaments", "gameId")
    [] stmt.op = "unlinkGames" -> ~Has(s, "Tournaments", "gameType") /\ Has(s, "Tournaments", "gameId")
    [] OTHER -> TRUE

Without(f, S) == [x \in DOMAIN f \ S |-> f[x]]
WithTable(s, t, columns) == [s EXCEPT !.tables = t :> columns @@ @]

WithoutColumn(s, t, c) ==
  [tables |-> [s.tables EXCEPT ![t] = Without(@, {c})],
   indexes |-> {i \in s.indexes : ~(i[1] = t /\ c \in i[2])}]

Effect(s, stmt) ==
  CASE stmt.op = "createTable" ->
         IF Exists(s, stmt.table) THEN s ELSE WithTable(s, stmt.table, stmt.columns)
    [] stmt.op = "dropTable" ->
         [tables |-> Without(s.tables, {stmt.table}),
          indexes |-> {i \in s.indexes : i[1] # stmt.table}]
    [] stmt.op = "addColumn" ->
         WithTable(s, stmt.table, stmt.column :> stmt.kind @@ s.tables[stmt.table])
    [] stmt.op = "removeColumn" -> WithoutColumn(s, stmt.table, stmt.column)
    [] stmt.op = "tryRemoveColumn" ->
         IF Has(s, stmt.table, stmt.column) THEN WithoutColumn(s, stmt.table, stmt.column) ELSE s
    [] stmt.op \in {"addIndex", "addConstraint"} ->
         [s EXCEPT !.indexes = @ \cup {<<stmt.table, stmt.columns>>}]
    [] stmt.op \in {"removeIndex", "removeConstraint"} ->
         [s EXCEPT !.indexes = @ \ {<<stmt.table, stmt.columns>>}]
    [] stmt.op = "linkGames" -> WithoutColumn(s, "Tournaments", "gameType")
    [] stmt.op = "unlinkGames" ->
         WithTable(s, "Tournaments", [s.tables["Tournaments"] EXCEPT !["gameId"] = MayRef("Games")]
                                       @@ ("gameType" :> May))

-----------------------------------------------------------------------------
(* The rows of Tournaments. *)

Linked(r) ==
  IF r.game = NoName /\ r.type \in games THEN Row(NoName, r.type) ELSE Row(NoName, r.game)

\* mutant: the rollback adds gameType back and does not fill it
UnlinkedEmpty(r) == r
Unlinked(r) == IF r.game = NoName THEN r ELSE Row(r.game, r.game)

\* What the rows are after a statement: they lose what a column or a table held.
RowsAfter(stmt) ==
  CASE stmt.op = "linkGames" -> [r \in DOMAIN rows |-> Linked(rows[r])]
    [] stmt.op = "unlinkGames" -> [r \in DOMAIN rows |-> Unlinked(rows[r])]
    [] stmt = DropTable("Tournaments") -> << >>
    [] stmt = RemoveColumn("Tournaments", "gameId") ->
         [r \in DOMAIN rows |-> Row(rows[r].type, NoName)]
    [] OTHER -> rows

\* After linkGames the column gameId is NOT NULL, if every row has one.
SchemaAfter(stmt) ==
  IF stmt.op = "linkGames" /\ \A r \in DOMAIN rows : Linked(rows[r]).game # NoName
  THEN LET s == Effect(schema, stmt)
       IN WithTable(s, "Tournaments",
                    [s.tables["Tournaments"] EXCEPT !["gameId"] = NeedRef("Games")])
  ELSE Effect(schema, stmt)

-----------------------------------------------------------------------------
Init ==
  /\ schema = [tables |-> << >>, indexes |-> {}]
  /\ applied = 0
  /\ run = Idle
  /\ rows = << >>
  /\ games = {}
  /\ deaths = 0
  /\ torn = {}

\* db:migrate runs the first file that is not recorded, db:migrate:undo the
\* down of the last one that is.
Migrate ==
  /\ Resting /\ applied < Len(Migrations)
  /\ run' = [migration |-> applied + 1, direction |-> "up", next |-> 1]
  /\ UNCHANGED <<schema, applied, rows, games, history>>

Undo ==
  /\ Resting /\ applied > 0
  /\ run' = [migration |-> applied, direction |-> "down", next |-> 1]
  /\ UNCHANGED <<schema, applied, rows, games, history>>

Execute ==
  /\ ~Resting /\ run.next <= Len(Statements(run))
  /\ LET stmt == Statements(run)[run.next]
     IN /\ Accepted(schema, stmt)
        /\ schema' = SchemaAfter(stmt)
        /\ rows' = RowsAfter(stmt)
        /\ games' = IF stmt = DropTable("Games") THEN {} ELSE games
  /\ run' = [run EXCEPT !.next = @ + 1]
  /\ UNCHANGED <<applied, history>>

Record ==
  /\ ~Resting /\ run.next > Len(Statements(run))
  /\ applied' = IF run.direction = "up" THEN applied + 1 ELSE applied - 1
  /\ run' = Idle
  /\ UNCHANGED <<schema, rows, games, history>>

\* The error of a refused statement ends the run.
Refuse ==
  /\ ~Resting /\ run.next <= Len(Statements(run))
  /\ ~Accepted(schema, Statements(run)[run.next])
  /\ run' = Idle
  /\ UNCHANGED <<schema, applied, rows, games, history>>

\* The process dies after some statement, perhaps before the migration is recorded.
Die ==
  /\ ~Resting /\ run.next > 1 /\ deaths < MaxDeaths
  /\ deaths' = deaths + 1
  /\ torn' = torn \cup {<<run.migration, run.direction>>}
  /\ run' = Idle
  /\ UNCHANGED <<schema, applied, rows, games>>

AddGame(n) ==
  /\ Exists(schema, "Games") /\ n \notin games
  /\ games' = games \cup {n}
  /\ UNCHANGED <<schema, applied, run, rows, history>>

\* ON DELETE SET NULL, refused when the column is NOT NULL.
DeleteGame(n) ==
  /\ n \in games
  /\ (\E r \in DOMAIN rows : rows[r].game = n) => ~schema.tables["Tournaments"]["gameId"].required
  /\ games' = games \ {n}
  /\ rows' = [r \in DOMAIN rows |-> IF rows[r].game = n THEN Row(rows[r].type, NoName) ELSE rows[r]]
  /\ UNCHANGED <<schema, applied, run, history>>

AddTournament(r, n) ==
  /\ Has(schema, "Tournaments", "gameType") /\ r \notin DOMAIN rows
  /\ rows' = [s \in DOMAIN rows \cup {r} |-> IF s = r THEN Row(n, NoName) ELSE rows[s]]
  /\ UNCHANGED <<schema, applied, run, games, history>>

Next ==
  \/ Migrate \/ Undo \/ Execute \/ Record \/ Refuse \/ Die
  \/ \E n \in Names : AddGame(n) \/ DeleteGame(n)
  \/ \E r \in Rows, n \in Names : AddTournament(r, n)

Spec == Init /\ [][Next]_vars

-----------------------------------------------------------------------------
(* Properties. *)

\* What the up files of the first k migrations make of an empty database that
\* has no rows.
Built ==
  [k \in Levels |->
     FoldLeft(LAMBDA s, m : FoldLeft(Effect, s, m.up),
              [tables |-> << >>, indexes |-> {}], SubSeq(Migrations, 1, k))]

\* Undoing 20250706182654 adds a column gameName that no release's schema had.
Leftovers == {"gameName"}

\* As long as no run died, migrating and undoing keep the tables and columns that
\* the recorded migrations make of an empty database (indexes are not: the one on
\* gameType is lost by undoing 20250708000000), but for the leftovers.
UndoRebuilds ==
  Resting /\ deaths = 0 =>
    /\ DOMAIN schema.tables = DOMAIN Built[applied].tables
    /\ \A t \in DOMAIN schema.tables :
         Columns(schema, t) \ Leftovers = Columns(Built[applied], t)

\* Exchanging gameType for gameId and back loses no tournament's game: as long as
\* a game of that name is there, before and after a step, the tournament keeps it,
\* in whatever half-way state dead runs left the database.  Except one: a run of
\* that very migration that died after its commit; the next undo then starts with
\* the migration before it and removes gameId with all it holds.
Exchange == 4
GameOf(row) == IF row.game = NoName THEN row.type ELSE row.game
TournamentsKeepTheirGame ==
  [][\A r \in DOMAIN rows \cap DOMAIN rows' :
       (<<Exchange, "up">> \notin torn /\ GameOf(rows[r]) \in games \cap games')
         => GameOf(rows'[r]) = GameOf(rows[r])]_vars

\* The models that work on a migrated database: their table and columns exist, and
\* they give every column that must be given.  Four do not: Tournament gives no
\* capacity, Match reads roundNumber, TeamMember reads status, and Game the table
\* games; undoing and migrating again does not change which.
Fits(m) ==
  /\ Exists(schema, m.table)
  /\ m.columns \subseteq Columns(schema, m.table)
  /\ \A c \in Columns(schema, m.table) : schema.tables[m.table][c].required => c \in m.columns
FittingModels ==
  {UserModel, WalletModel, TransactionModel, TournamentParticipantModel, DisputeTicketModel,
   UserGameProfileModel, IdempotencyRequestModel, ChatSessionModel, ChatMessageModel,
   TeamModel, TeamInvitationModel, TournamentImageModel}
ModelsFit ==
  Resting /\ applied = Len(Migrations) /\ deaths = 0 => \A m \in FittingModels : Fits(m)

=============================================================================
