----------------------- MODULE TournamentRegistration -----------------------
(***************************************************************************)
(* One tournament, the players that register for it and the administrators *)
(* that remove players, change its status and edit its details             *)
(* (src/application/use-cases/tournament/registerForTournament.useCase.js  *)
(* and src/application/use-cases/admin).                                   *)
(*                                                                         *)
(* No use case runs in a database transaction: a request reads the row of  *)
(* the tournament into an entity, works on that copy across its awaits,    *)
(* and writes back.  An action is the code from one await that touches     *)
(* shared state to the next.  The participant count is a column of its     *)
(* own, kept in step with the registrations by separate updates.           *)
(***************************************************************************)
EXTENDS Integers, FiniteSets

CONSTANTS
  Users,            \* players
  EntryIds,         \* uuids of TournamentParticipants rows
  Handlers,         \* requests that may be in progress at the same time
  NoUser, NoEntry,  \* null
  Sizes,            \* values of maxParticipants administrators choose
  Fees,             \* values of entryFee administrators choose
  InitialBalance,   \* balance of every player's wallet
  MaxFailures       \* bound: requests that fail or die half-way

ASSUME NullsAreNotValues == NoUser \notin Users /\ NoEntry \notin EntryIds

ASSUME ParametersTyped ==
  /\ Sizes \subseteq Nat \ {0, 1} /\ Sizes # {}
  /\ Fees \subseteq Nat /\ Fees # {}
  /\ InitialBalance \in Nat
  /\ MaxFailures \in Nat

ASSUME FinitelyMany == IsFiniteSet(Users) /\ IsFiniteSet(Handlers)

VARIABLES
  tournament,  \* its row in Tournaments
  entry,       \* the TournamentParticipants row of each player, if any
  balance,     \* the wallet of each player
  due,         \* history: fees of the registrations stored for a player
  handlers,    \* local state of each request in progress
  failures     \* requests that failed so far

vars == <<tournament, entry, balance, due, handlers, failures>>

-----------------------------------------------------------------------------
Statuses == {"PENDING", "UPCOMING", "REGISTRATION_OPEN", "REGISTRATION_CLOSED",
             "ONGOING", "COMPLETED", "CANCELED"}

Row == [status : Statuses, max : Nat, current : Int, fee : Nat]

NewTournament(max, fee) == [status |-> "PENDING", max |-> max, current |-> 0, fee |-> fee]

HandlerPcs == {"idle",
  "check_entry", "check_funds", "debit", "create", "increment",   \* register
  "find_entry", "read_entry", "delete",                           \* remove
  "write_status", "write_details"}

NoRow == NewTournament(0, 0)

\* of the row it has read, a request keeps in seen what it still uses
Idle == [pc |-> "idle", user |-> NoUser, entry |-> NoEntry, seen |-> NoRow]

Registered == {u \in Users : entry[u] # NoEntry}

Begin(h, pc, u, seen) ==
  /\ handlers[h] = Idle
  /\ handlers' = [handlers EXCEPT ![h] =
       [pc |-> pc, user |-> u, entry |-> NoEntry, seen |-> seen]]

Goto(h, pc) == handlers' = [handlers EXCEPT ![h].pc = pc]

Finish(h) == handlers' = [handlers EXCEPT ![h] = Idle]

(* findById builds an entity from the row, and the constructor of the entity refuses
   a count outside its bounds: such a tournament can no longer be read. *)
Readable == tournament.current \in 0 .. tournament.max

Init ==
  /\ \E max \in Sizes, fee \in Fees : tournament = NewTournament(max, fee)
  /\ entry = [u \in Users |-> NoEntry]
  /\ balance = [u \in Users |-> InitialBalance]
  /\ due = [u \in Users |-> 0]
  /\ handlers = [h \in Handlers |-> Idle]
  /\ failures = 0

-----------------------------------------------------------------------------
(* RegisterForTournamentUseCase *)

CanRegisterUpToMax(t) == t.status = "REGISTRATION_OPEN" /\ t.current <= t.max

CanRegister(t) == t.status = "REGISTRATION_OPEN" /\ t.current < t.max

StartRegistration(h, u) ==
  /\ Readable
  /\ CanRegister(tournament)
  /\ Begin(h, "check_entry", u, [NoRow EXCEPT !.fee = tournament.fee])
  /\ UNCHANGED <<tournament, entry, balance, due, failures>>

CheckNothing(h) ==
  LET r == handlers[h] IN
  /\ r.pc = "check_entry"
  /\ Goto(h, IF r.seen.fee > 0 THEN "check_funds" ELSE "create")
  /\ UNCHANGED <<tournament, entry, balance, due, failures>>

(* A player who is registered already, or has no in-game name for the game of the
   tournament, is refused. *)
CheckEntry(h) ==
  LET r == handlers[h] IN
  /\ r.pc = "check_entry"
  /\ \/ /\ entry[r.user] = NoEntry
        /\ Goto(h, IF r.seen.fee > 0 THEN "check_funds" ELSE "create")
     \/ Finish(h)
  /\ UNCHANGED <<tournament, entry, balance, due, failures>>

CheckFunds(h) ==
  LET r == handlers[h] IN
  /\ r.pc = "check_funds"
  /\ IF balance[r.user] < r.seen.fee THEN Finish(h) ELSE Goto(h, "debit")
  /\ UNCHANGED <<tournament, entry, balance, due, failures>>

DebitUnlessShort(h) ==
  LET r == handlers[h] IN
  /\ r.pc = "debit"
  /\ IF balance[r.user] < r.seen.fee
       THEN UNCHANGED balance
       ELSE balance' = [balance EXCEPT ![r.user] = @ - r.seen.fee]
  /\ Goto(h, "create")
  /\ UNCHANGED <<tournament, entry, due, failures>>

\* walletRepository.debit takes the fee at once, or throws when the balance is short.
Debit(h) ==
  LET r == handlers[h] IN
  /\ r.pc = "debit"
  /\ IF balance[r.user] < r.seen.fee
       THEN Finish(h) /\ UNCHANGED balance
       ELSE /\ balance' = [balance EXCEPT ![r.user] = @ - r.seen.fee]
            /\ Goto(h, "create")
  /\ UNCHANGED <<tournament, entry, due, failures>>

\* uuids are fresh: no row has the id and no request remembers it
FreshEntries == {e \in EntryIds : /\ \A u \in Users : entry[u] # e
                                  /\ \A h \in Handlers : handlers[h].entry # e}

(* The unique index refuses a second row for a player: the request fails, and the
   fee it took is not given back. *)
CreateEntry(h) ==
  LET r == handlers[h] IN
  /\ r.pc = "create"
  /\ IF entry[r.user] = NoEntry
       THEN /\ \E e \in FreshEntries : entry' = [entry EXCEPT ![r.user] = e]
            /\ due' = [due EXCEPT ![r.user] = @ + r.seen.fee]
            /\ Goto(h, "increment")
       ELSE Finish(h) /\ UNCHANGED <<entry, due>>
  /\ UNCHANGED <<tournament, balance, failures>>

IncrementCount(h) ==
  /\ handlers[h].pc = "increment"
  /\ tournament' = [tournament EXCEPT !.current = @ + 1]
  /\ Finish(h)
  /\ UNCHANGED <<entry, balance, due, failures>>

-----------------------------------------------------------------------------
(* RemoveTournamentParticipantUseCase *)

RemovableUntilOver(t) == t.status \notin {"COMPLETED", "CANCELED"}

Removable(t) == t.status \notin {"ONGOING", "COMPLETED", "CANCELED"}

StartRemoval(h, u) ==
  /\ Readable
  /\ Begin(h, "find_entry", u, [NoRow EXCEPT !.status = tournament.status])
  /\ UNCHANGED <<tournament, entry, balance, due, failures>>

(* The registration is looked up, and the status that was read before is judged. *)
FindEntry(h) ==
  LET r == handlers[h] IN
  /\ r.pc = "find_entry"
  /\ IF entry[r.user] # NoEntry /\ Removable(r.seen)
       THEN handlers' = [handlers EXCEPT ![h].pc = "read_entry",
                                         ![h].entry = entry[r.user]]
       ELSE Finish(h)
  /\ UNCHANGED <<tournament, entry, balance, due, failures>>

\* removeParticipant reads the row again, in a database transaction, without a lock.
ReadEntry(h) ==
  LET r == handlers[h] IN
  /\ r.pc = "read_entry"
  /\ IF entry[r.user] = r.entry THEN Goto(h, "delete") ELSE Finish(h)
  /\ UNCHANGED <<tournament, entry, balance, due, failures>>

KeepCount == UNCHANGED tournament

DecrementCount == tournament' = [tournament EXCEPT !.current = @ - 1]

(* Deleting a row that is gone is not an error: the count goes down all the same.
   Both become visible when the database transaction commits.  No fee is refunded. *)
DeleteEntry(h) ==
  LET r == handlers[h] IN
  /\ r.pc = "delete"
  /\ entry' = [entry EXCEPT ![r.user] = IF @ = r.entry THEN NoEntry ELSE @]
  /\ DecrementCount
  /\ Finish(h)
  /\ UNCHANGED <<balance, due, failures>>

-----------------------------------------------------------------------------
(* ChangeTournamentStatusUseCase *)

AllowedBackToPending(from, to) ==
  \/ to = "REGISTRATION_OPEN"   /\ from \in {"PENDING", "UPCOMING"}
  \/ to = "REGISTRATION_CLOSED" /\ from = "REGISTRATION_OPEN"
  \/ to = "ONGOING"             /\ from \in {"REGISTRATION_OPEN", "REGISTRATION_CLOSED"}
  \/ to = "COMPLETED"           /\ from = "ONGOING"
  \/ to = "PENDING"             /\ from # "REGISTRATION_OPEN"

(* What the entity's methods and the use case allow.  Nothing but ONGOING and
   REGISTRATION_OPEN keeps a tournament from going back to PENDING. *)
Allowed(from, to) ==
  \/ to = "REGISTRATION_OPEN"   /\ from \in {"PENDING", "UPCOMING"}
  \/ to = "REGISTRATION_CLOSED" /\ from = "REGISTRATION_OPEN"
  \/ to = "ONGOING"             /\ from \in {"REGISTRATION_OPEN", "REGISTRATION_CLOSED"}
  \/ to = "COMPLETED"           /\ from = "ONGOING"
  \/ to = "CANCELED"            /\ from \notin {"COMPLETED", "CANCELED"}
  \/ to = "PENDING"             /\ from \notin {"ONGOING", "REGISTRATION_OPEN"}
  \/ to = "UPCOMING"            /\ from = "PENDING"

ChangeStatus(h, to) ==
  /\ Readable
  /\ Allowed(tournament.status, to)
  /\ Begin(h, "write_status", NoUser, [NoRow EXCEPT !.status = to])
  /\ UNCHANGED <<tournament, entry, balance, due, failures>>

\* Of the row only the status is written (and description and end date).
WriteStatus(h) ==
  /\ handlers[h].pc = "write_status"
  /\ tournament' = [tournament EXCEPT !.status = handlers[h].seen.status]
  /\ Finish(h)
  /\ UNCHANGED <<entry, balance, due, failures>>

-----------------------------------------------------------------------------
(* UpdateTournamentDetailsUseCase, and the same update by a tournament's manager *)

Fits(t, max) == max > 1 /\ t.current <= max

UpdateDetails(h, max, fee) ==
  /\ Readable
  /\ Fits(tournament, max)
  /\ Begin(h, "write_details", NoUser, [tournament EXCEPT !.max = max, !.fee = fee])
  /\ UNCHANGED <<tournament, entry, balance, due, failures>>

(* The whole entity is written, its status included; the repository leaves out the
   count only. *)
WriteDetails(h) ==
  /\ handlers[h].pc = "write_details"
  /\ tournament' = [handlers[h].seen EXCEPT !.current = tournament.current]
  /\ Finish(h)
  /\ UNCHANGED <<entry, balance, due, failures>>

-----------------------------------------------------------------------------
(* A database call of a request fails, or its process dies.  What the request has
   written stays written; an open removal is rolled back. *)
RequestFails(h) ==
  /\ handlers[h] # Idle
  /\ failures < MaxFailures
  /\ failures' = failures + 1
  /\ Finish(h)
  /\ UNCHANGED <<tournament, entry, balance, due>>

Start(h) ==
  \/ \E u \in Users : StartRegistration(h, u) \/ StartRemoval(h, u)
  \/ \E to \in Statuses : ChangeStatus(h, to)
  \/ \E max \in Sizes, fee \in Fees : UpdateDetails(h, max, fee)

Continue(h) ==
  \/ CheckEntry(h) \/ CheckFunds(h) \/ Debit(h) \/ CreateEntry(h) \/ IncrementCount(h)
  \/ FindEntry(h) \/ ReadEntry(h) \/ DeleteEntry(h)
  \/ WriteStatus(h) \/ WriteDetails(h)

\* Nobody has a request in progress, and perhaps nobody can start one any more.
Quiescent == (\A h \in Handlers : handlers[h] = Idle) /\ UNCHANGED vars

Next ==
  \/ \E h \in Handlers : Start(h) \/ Continue(h) \/ RequestFails(h)
  \/ Quiescent

Spec == Init /\ [][Next]_vars

-----------------------------------------------------------------------------
TypeOK ==
  /\ tournament \in Row
  /\ entry \in [Users -> EntryIds \cup {NoEntry}]
  /\ balance \in [Users -> Nat]
  /\ due \in [Users -> Nat]
  /\ handlers \in [Handlers -> [pc : HandlerPcs, user : Users \cup {NoUser},
                                entry : EntryIds \cup {NoEntry}, seen : Row]]
  /\ failures \in Nat

(* The participant count never runs ahead of the registrations, whatever interleaves
   or fails: no player is refused because of places that nobody holds. *)
CountNeverAhead == tournament.current <= Cardinality(Registered)

Counting == {h \in Handlers : handlers[h].pc = "increment"}

WithUser == {"check_entry", "check_funds", "debit", "create", "increment",
             "find_entry", "read_entry", "delete"}

(* The inductive invariant behind it: registrations that are stored and not counted
   yet keep their distance, and a request knows the player it acts for. *)
RegistrationInv ==
  /\ TypeOK
  /\ \A h \in Handlers : handlers[h].pc \in WithUser => handlers[h].user \in Users
  /\ tournament.current + Cardinality(Counting) <= Cardinality(Registered)

(* No registration is stored that was not paid for, although fee, balance and
   registration are checked and written in separate steps. *)
NoFreeEntry == \A u \in Users : due[u] <= InitialBalance - balance[u]

Quiet == \A h \in Handlers : handlers[h] = Idle

(* While no request is in progress, the count is the number of registrations. *)
CountMatches == Quiet => tournament.current = Cardinality(Registered)

(* There are never more registrations than places. *)
NotOverbooked == Cardinality(Registered) <= tournament.max

(* While no request is in progress, the fees taken from a player are the fees of the
   registrations stored for that player: no fee is taken for nothing. *)
FeesMatchEntries == Quiet => \A u \in Users : due[u] = InitialBalance - balance[u]

(* A tournament that is under way only ends: it does not go back to registration. *)
OngoingOnlyEnds ==
  [][tournament.status = "ONGOING" =>
       tournament'.status \in {"ONGOING", "COMPLETED", "CANCELED"}]_vars

(* Nobody joins or leaves a tournament that is under way or over. *)
LineUpIsFixed ==
  [][tournament.status \in {"ONGOING", "COMPLETED", "CANCELED"} => entry' = entry]_vars

=============================================================================
