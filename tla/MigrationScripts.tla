-------------------------- MODULE MigrationScripts --------------------------
(***************************************************************************)
(* The files of db/migrations, in the order of their names, as sequences   *)
(* of statements, and the tables the Sequelize models expect.              *)
(*                                                                         *)
(* A table is a function from its columns to what an INSERT has to know of *)
(* them: whether the column must be given (NOT NULL and no default in the  *)
(* database) and the table its foreign key refers to.  The columns id,     *)
(* createdAt and updatedAt, which Sequelize always writes, are left out;   *)
(* types, lengths and ON DELETE clauses are too, but for the one of        *)
(* Tournaments.gameId (see SchemaMigrations).                              *)
(***************************************************************************)
EXTENDS Sequences

NoTable == "none"
Need == [required |-> TRUE, to |-> NoTable]
May == [required |-> FALSE, to |-> NoTable]
NeedRef(t) == [required |-> TRUE, to |-> t]
MayRef(t) == [required |-> FALSE, to |-> t]

\* Statements of the query interface.
CreateTable(t, columns) == [op |-> "createTable", table |-> t, columns |-> columns]
DropTable(t) == [op |-> "dropTable", table |-> t]
AddColumn(t, c, kind) == [op |-> "addColumn", table |-> t, column |-> c, kind |-> kind]
RemoveColumn(t, c) == [op |-> "removeColumn", table |-> t, column |-> c]
\* A removeColumn in a try block whose catch only logs.
TryRemoveColumn(t, c) == [op |-> "tryRemoveColumn", table |-> t, column |-> c]
AddIndex(t, columns) == [op |-> "addIndex", table |-> t, columns |-> columns]
RemoveIndex(t, columns) == [op |-> "removeIndex", table |-> t, columns |-> columns]
\* A named constraint; like an index it belongs to columns of a table.
AddConstraint(t, columns) == [op |-> "addConstraint", table |-> t, columns |-> columns]
RemoveConstraint(t, columns) == [op |-> "removeConstraint", table |-> t, columns |-> columns]
\* The two transactions of the migration that replaces gameType by gameId.
LinkGames == [op |-> "linkGames", table |-> "Tournaments"]
UnlinkGames == [op |-> "unlinkGames", table |-> "Tournaments"]

-----------------------------------------------------------------------------
\* 20250703140000-initial-schema
UsersTable ==
  CreateTable("Users",
    [username |-> Need, email |-> Need, passwordHash |-> Need, roles |-> May,
     refreshToken |-> May, isVerified |-> May, lastLogin |-> May,
     verificationToken |-> May, tokenVersion |-> May])

WalletsTable ==
  << CreateTable("Wallets", [userId |-> NeedRef("Users"), balance |-> May, currency |-> May]),
     AddIndex("Wallets", {"userId"}) >>

TransactionsTable ==
  << CreateTable("Transactions",
       [walletId |-> NeedRef("Wallets"), type |-> Need, amount |-> Need, status |-> May,
        idempotencyKey |-> May, description |-> May, metadata |-> May, transactionDate |-> May]),
     AddIndex("Transactions", {"walletId"}), AddIndex("Transactions", {"type"}),
     AddIndex("Transactions", {"status"}) >>

TournamentsTable ==
  << CreateTable("Tournaments",
       [name |-> Need, gameType |-> Need, description |-> May, rules |-> May, status |-> May,
        entryFee |-> May, prizePool |-> May, capacity |-> Need, maxParticipants |-> Need,
        currentParticipants |-> May, startDate |-> Need, endDate |-> May,
        organizerId |-> MayRef("Users"), bannerImageUrl |-> May,
        createdBy |-> MayRef("Users"), bracketType |-> May, settings |-> May]),
     AddIndex("Tournaments", {"status"}), AddIndex("Tournaments", {"gameType"}) >>

TournamentParticipantsTable ==
  << CreateTable("TournamentParticipants",
       [tournamentId |-> NeedRef("Tournaments"), participantId |-> NeedRef("Users"),
        participantType |-> Need, registeredAt |-> May, checkInStatus |-> May,
        seed |-> May, status |-> May]),
     AddIndex("TournamentParticipants", {"tournamentId", "participantId", "participantType"}),
     AddIndex("TournamentParticipants", {"tournamentId"}),
     AddIndex("TournamentParticipants", {"participantId"}) >>

MatchesTable ==
  << CreateTable("Matches",
       [tournamentId |-> NeedRef("Tournaments"), round |-> Need, matchNumberInRound |-> Need,
        participant1Id |-> MayRef("Users"), participant1Type |-> May,
        participant2Id |-> MayRef("Users"), participant2Type |-> May, status |-> May,
        scheduledTime |-> May, actualStartTime |-> May, actualEndTime |-> May,
        winnerId |-> MayRef("Users"), winnerType |-> May,
        participant1Score |-> May, participant2Score |-> May,
        resultProofUrlP1 |-> May, resultProofUrlP2 |-> May, isConfirmed |-> May,
        moderatorNotes |-> May, nextMatchId |-> MayRef("Matches"),
        nextMatchLoserId |-> MayRef("Matches"), metadata |-> May]),
     AddIndex("Matches", {"tournamentId"}), AddIndex("Matches", {"status"}),
     AddIndex("Matches", {"winnerId"}) >>

AuditLogsTable ==
  << CreateTable("AuditLogs",
       [userId |-> MayRef("Users"), action |-> Need, entity |-> May, entityId |-> May,
        details |-> May, ipAddress |-> May, userAgent |-> May, timestamp |-> May]),
     AddIndex("AuditLogs", {"userId"}), AddIndex("AuditLogs", {"action"}),
     AddIndex("AuditLogs", {"entity", "entityId"}), AddIndex("AuditLogs", {"timestamp"}) >>

DisputeTicketsTable ==
  << CreateTable("DisputeTickets",
       [matchId |-> NeedRef("Matches"), reporterId |-> NeedRef("Users"), reason |-> Need,
        status |-> May, resolutionDetails |-> May, moderatorId |-> MayRef("Users")]),
     AddIndex("DisputeTickets", {"matchId"}), AddIndex("DisputeTickets", {"status"}),
     AddIndex("DisputeTickets", {"moderatorId"}) >>

InitialSchemaUp ==
  << UsersTable >> \o WalletsTable \o TransactionsTable \o TournamentsTable
    \o TournamentParticipantsTable \o MatchesTable \o AuditLogsTable \o DisputeTicketsTable

InitialSchemaDown ==
  << DropTable("DisputeTickets"), DropTable("AuditLogs"), DropTable("Matches"),
     DropTable("TournamentParticipants"), DropTable("Tournaments"),
     DropTable("Transactions"), DropTable("Wallets"), DropTable("Users") >>

\* 20250704000000-create-idempotency-requests
IdempotencyRequestsUp ==
  << CreateTable("IdempotencyRequests",
       [idempotencyKey |-> Need, userId |-> NeedRef("Users"), requestPath |-> Need,
        status |-> May, responseStatusCode |-> May, responseBody |-> May,
        completedAt |-> May, failedAt |-> May]),
     AddIndex("IdempotencyRequests", {"userId"}), AddIndex("IdempotencyRequests", {"status"}) >>

IdempotencyRequestsDown == << DropTable("IdempotencyRequests") >>

\* 20250706182654-add-games-usergameprofiles-update-tournaments
GamesTable ==
  CreateTable("Games",
    [name |-> Need, shortName |-> Need, description |-> May, iconUrl |-> Need,
     bannerUrl |-> May, platforms |-> Need, supportedModes |-> Need,
     isActive |-> May, winCondition |-> May])

GamesUp ==
  << GamesTable,
     AddColumn("Tournaments", "gameId", MayRef("Games")),
     TryRemoveColumn("Tournaments", "gameName"),
     CreateTable("UserGameProfiles",
       [userId |-> NeedRef("Users"), gameId |-> NeedRef("Games"), inGameName |-> Need]),
     AddConstraint("UserGameProfiles", {"userId", "gameId"}),
     AddColumn("Tournaments", "images", May) >>

GamesDown ==
  << RemoveConstraint("UserGameProfiles", {"userId", "gameId"}),
     DropTable("UserGameProfiles"),
     AddColumn("Tournaments", "gameName", May),
     RemoveColumn("Tournaments", "gameId"),
     DropTable("Games"),
     RemoveColumn("Tournaments", "images") >>

\* 20250711123432-create-teams-and-teammembers
TeamsUp ==
  << CreateTable("Teams",
       [name |-> Need, ownerId |-> NeedRef("Users"), description |-> May, logoUrl |-> May]),
     CreateTable("TeamMembers",
       [teamId |-> NeedRef("Teams"), userId |-> NeedRef("Users"), role |-> Need]) >>

TeamsDown == << DropTable("TeamMembers"), DropTable("Teams") >>

\* 20250712000000-add-indexes
IndexesUp ==
  << AddIndex("Transactions", {"idempotencyKey"}), AddIndex("Tournaments", {"organizerId"}),
     AddIndex("Matches", {"participant1Id"}), AddIndex("Matches", {"participant2Id"}) >>

IndexesDown ==
  << RemoveIndex("Transactions", {"idempotencyKey"}), RemoveIndex("Tournaments", {"organizerId"}),
     RemoveIndex("Matches", {"participant1Id"}), RemoveIndex("Matches", {"participant2Id"}) >>

\* 20250713000000-create-chat-schema
ChatUp ==
  << CreateTable("ChatSessions",
       [user_id |-> NeedRef("Users"), support_id |-> MayRef("Users"), status |-> May,
        tournament_id |-> MayRef("Tournaments"), created_at |-> Need, updated_at |-> Need,
        user_last_seen_at |-> May, support_last_seen_at |-> May]),
     CreateTable("ChatMessages",
       [session_id |-> NeedRef("ChatSessions"), sender_id |-> NeedRef("Users"),
        sender_type |-> Need, message_content |-> Need, message_type |-> May,
        timestamp |-> Need, is_read |-> May, metadata |-> May]),
     AddIndex("ChatSessions", {"user_id"}), AddIndex("ChatSessions", {"support_id"}),
     AddIndex("ChatSessions", {"status"}), AddIndex("ChatMessages", {"session_id"}) >>

ChatDown == << DropTable("ChatMessages"), DropTable("ChatSessions") >>

\* 20250714000000-add-edited-deleted-to-chat-messages
\* mutant: the column is named as the entity's field
ChatEditsUpCamelCase ==
  << AddColumn("ChatMessages", "edited_at", May), AddColumn("ChatMessages", "isDeleted", May) >>

ChatEditsUp ==
  << AddColumn("ChatMessages", "edited_at", May), AddColumn("ChatMessages", "is_deleted", May) >>

\* mutant: the rollback forgets one of the two columns
ChatEditsHalfDown == << RemoveColumn("ChatMessages", "edited_at") >>

ChatEditsDown ==
  << RemoveColumn("ChatMessages", "edited_at"), RemoveColumn("ChatMessages", "is_deleted") >>

\* 20250715000000-add-game-images
GameImagesUp ==
  << CreateTable("GameImages", [gameId |-> NeedRef("Games"), type |-> Need, url |-> Need]),
     RemoveColumn("Games", "iconUrl"), RemoveColumn("Games", "bannerUrl") >>

GameImagesDown ==
  << DropTable("GameImages"),
     AddColumn("Games", "iconUrl", May), AddColumn("Games", "bannerUrl", May) >>

\* 20250718192617-create-team-invitations
InvitationsUp ==
  << CreateTable("TeamInvitations",
       [teamId |-> NeedRef("Teams"), userId |-> NeedRef("Users"),
        inviterId |-> NeedRef("Users"), status |-> May]) >>

InvitationsDown == << DropTable("TeamInvitations") >>

\* 20250718192813-create-tournament-images
TournamentImagesUp ==
  << CreateTable("TournamentImages",
       [tournamentId |-> NeedRef("Tournaments"), url |-> Need, description |-> May,
        isPrimary |-> May]) >>

TournamentImagesDown == << DropTable("TournamentImages") >>

Migrations ==
  << [up |-> InitialSchemaUp, down |-> InitialSchemaDown],
     [up |-> IdempotencyRequestsUp, down |-> IdempotencyRequestsDown],
     [up |-> GamesUp, down |-> GamesDown],
     [up |-> << LinkGames >>, down |-> << UnlinkGames >>],
     [up |-> TeamsUp, down |-> TeamsDown],
     [up |-> IndexesUp, down |-> IndexesDown],
     [up |-> ChatUp, down |-> ChatDown],
     [up |-> ChatEditsUp, down |-> ChatEditsDown],
     [up |-> GameImagesUp, down |-> GameImagesDown],
     [up |-> InvitationsUp, down |-> InvitationsDown],
     [up |-> TournamentImagesUp, down |-> TournamentImagesDown] >>

-----------------------------------------------------------------------------
(* The tables and columns the Sequelize models read and write.             *)

Model(t, columns) == [table |-> t, columns |-> columns]

UserModel ==
  Model("Users", {"username", "email", "passwordHash", "roles", "refreshToken", "isVerified",
                  "lastLogin", "verificationToken", "tokenVersion"})

WalletModel == Model("Wallets", {"userId", "balance", "currency"})

TransactionModel ==
  Model("Transactions", {"walletId", "type", "amount", "status", "idempotencyKey",
                         "description", "metadata", "transactionDate"})

TournamentModel ==
  Model("Tournaments",
    {"name", "gameId", "description", "status", "maxParticipants", "currentParticipants",
     "entryFee", "prizePool", "startDate", "endDate", "rules", "bannerImageUrl", "organizerId",
     "bracketType", "settings"})

TournamentParticipantModel ==
  Model("TournamentParticipants", {"tournamentId", "participantId", "participantType",
                                   "registeredAt", "checkInStatus", "seed"})

MatchModel ==
  Model("Matches",
    {"tournamentId", "roundNumber", "matchNumberInRound", "participant1Id", "participant1Type",
     "participant2Id", "participant2Type", "participant1Score", "participant2Score", "winnerId",
     "winnerType", "status", "scheduledTime", "actualStartTime", "actualEndTime",
     "resultProofUrlP1", "resultProofUrlP2", "isConfirmed", "moderatorNotes", "nextMatchId",
     "nextMatchLoserId", "metadata"})

DisputeTicketModel ==
  Model("DisputeTickets", {"matchId", "reporterId", "reason", "status", "resolutionDetails",
                           "moderatorId"})

GameModel ==
  Model("games", {"name", "shortName", "description", "iconUrl", "bannerUrl", "platforms",
                  "supportedModes", "isActive", "winCondition"})

UserGameProfileModel == Model("UserGameProfiles", {"userId", "gameId", "inGameName"})

IdempotencyRequestModel ==
  Model("IdempotencyRequests", {"idempotencyKey", "userId", "requestPath", "status",
                                "responseStatusCode", "responseBody", "completedAt", "failedAt"})

ChatSessionModel ==
  Model("ChatSessions", {"user_id", "support_id", "status", "tournament_id",
                         "user_last_seen_at", "support_last_seen_at", "created_at", "updated_at"})

ChatMessageModel ==
  Model("ChatMessages", {"session_id", "sender_id", "sender_type", "message_content",
                         "message_type", "timestamp", "is_read", "metadata", "edited_at",
                         "is_deleted"})

TeamModel == Model("Teams", {"name", "description", "logoUrl", "ownerId"})

TeamMemberModel == Model("TeamMembers", {"teamId", "userId", "role", "status"})

TeamInvitationModel == Model("TeamInvitations", {"teamId", "userId", "inviterId", "status"})

TournamentImageModel ==
  Model("TournamentImages", {"tournamentId", "url", "description", "isPrimary"})

=============================================================================
