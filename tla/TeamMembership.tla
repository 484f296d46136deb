--------------------------- MODULE TeamMembership ---------------------------
(***************************************************************************)
(* One team: who owns it, who belongs to it in which role, and who is      *)
(* invited (src/application/use-cases/team, teamMember, team-dashboard and *)
(* the repositories postgres.team, postgres.teamMember,                    *)
(* postgres.teamInvitation).                                               *)
(*                                                                         *)
(* The owner is kept twice, as a column of the team and as the role of a   *)
(* membership.  A use case judges rows it has read; the repository method  *)
(* it calls reads the row again, checks it again and writes the fields     *)
(* that differ from that second copy.  Only the transfer of ownership runs *)
(* in a database transaction, and it locks the team's row after reading    *)
(* it.  An action is the code from one such access to the next.            *)
(***************************************************************************)
EXTENDS Integers, FiniteSets

CONSTANTS
  Users,     \* everybody
  Invites,   \* rows that TeamInvitations may get
  Handlers,  \* requests that may be in progress at the same time
  NoTeam,    \* in place of the owner of a team that is deleted
  NoUser, NoInvite, NoHandler  \* null

ASSUME NullsAreNotValues ==
  /\ NoTeam \notin Users /\ NoUser \notin Users
  /\ NoInvite \notin Invites /\ NoHandler \notin Handlers

VARIABLES
  owner,       \* Teams.ownerId, or NoTeam
  member,      \* the TeamMembers row of each user, if any
  invitation,  \* rows of TeamInvitations
  teamLock,    \* the transfer that holds the lock on the team's row
  handlers,    \* local state of each request in progress
  stale        \* history: the stalest data a write has been based on so far

vars == <<owner, member, invitation, teamLock, handlers, stale>>

-----------------------------------------------------------------------------
Roles == {"owner", "admin", "member"}
Statuses == {"invited", "active", "rejected", "left"}
Same == "unchanged"

Row(role, status) == [role |-> role, status |-> status]

NoRow == Row("none", "none")    \* the user has none
Gone == Row("gone", "gone")     \* a copy of a row that was deleted since

Rows == [role : Roles, status : Statuses]

Invitation(user, status) == [user |-> user, status |-> status]

Absent == Invitation(NoUser, "ABSENT")

InvitationRows == [user : Users, status : {"PENDING", "REJECTED", "DELETED"}]

(* row: the user's row as it was last read, by the use case that judges it or by the
   repository that is about to write it; role, status: what to change it to; held: the
   team's owner when it was read. *)
Call(pc, by, user, row, role, status, held, invite) ==
  [pc |-> pc, by |-> by, user |-> user, row |-> row, role |-> role, status |-> status,
   held |-> held, invite |-> invite]

Idle == Call("idle", NoUser, NoUser, NoRow, Same, Same, NoTeam, NoInvite)

HandlerPcs == {"idle",
  "judge_transfer", "read_team", "lock_team", "find_heir", "commit",  \* change owner
  "judge_removal", "find_removed", "destroy",                         \* remove
  "judge_role", "load", "store",                                      \* role, status
  "find_known", "create",                                             \* add
  "delete",                                                           \* delete the team
  "invite", "answer"}                                                 \* invitations

IsActive(row) == row.status = "active"

Begin(h, call) == handlers[h] = Idle /\ handlers' = [handlers EXCEPT ![h] = call]

Continue(h, call) == handlers' = [handlers EXCEPT ![h] = call]

\* the caller's name is of no more use once the call is judged
Goto(h, pc) ==
  LET r == handlers[h] IN
  Continue(h, Call(pc, NoUser, r.user, r.row, r.role, r.status, r.held, r.invite))

Finish(h) == handlers' = [handlers EXCEPT ![h] = Idle]

Request(pc, by, user, row, role, status) ==
  Call(pc, by, user, row, role, status, NoTeam, NoInvite)

\* handler h ends, and what the others are about to write of these users' rows is gone
FinishAndForget(h, users) ==
  handlers' = [g \in Handlers |->
    LET r == handlers[g] IN
    IF g = h THEN Idle
    ELSE IF r.user \in users /\ r.pc \in {"store", "destroy", "commit"} /\ r.row \in Rows
      THEN Call(r.pc, r.by, r.user, Gone, r.role, r.status, r.held, r.invite)
    ELSE r]

(* Sequelize writes the fields that differ from the copy the new values are set on. *)
Written(current, copy, role, status) ==
  Row(IF role = Same \/ role = copy.role THEN current.role ELSE role,
      IF status = Same \/ status = copy.status THEN current.status ELSE status)

(* "judged": a repository read, to write it, a row that was not what the use case had
   judged; "row": it wrote over a row that was not what it had read. *)
NoteJudged(r) ==
  stale' = IF stale = "nothing" /\ r.row # member[r.user] THEN "judged" ELSE stale

NoteWritten(upToDate) == stale' = IF upToDate THEN stale ELSE "row"

Init ==
  /\ owner \in Users
  /\ member = [u \in Users |-> IF u = owner THEN Row("owner", "active") ELSE NoRow]
  /\ invitation = [i \in Invites |-> Absent]
  /\ teamLock = NoHandler
  /\ handlers = [h \in Handlers |-> Idle]
  /\ stale = "nothing"

-----------------------------------------------------------------------------
(* ChangeTeamOwnerUseCase and PostgresTeamRepository.changeOwner *)

StartTransfer(h, u, heir) ==
  /\ owner = u
  /\ heir # u
  /\ Begin(h, Request("judge_transfer", u, heir, NoRow, Same, Same))
  /\ UNCHANGED <<owner, member, invitation, teamLock, stale>>

\* the use case reads its caller's membership, and the repository opens the transaction
JudgeTransfer(h) ==
  LET r == handlers[h] IN
  /\ r.pc = "judge_transfer"
  /\ IF member[r.by].role = "owner" /\ IsActive(member[r.by])
       THEN Goto(h, "read_team") ELSE Finish(h)
  /\ UNCHANGED <<owner, member, invitation, teamLock, stale>>

\* no lock: the owner may change until the row is written
ReadTeam(h) ==
  LET r == handlers[h] IN
  /\ r.pc = "read_team"
  /\ IF owner = NoTeam THEN Finish(h)
     ELSE Continue(h, Call(IF owner = r.user THEN "find_heir" ELSE "lock_team",
                           NoUser, r.user, NoRow, Same, Same, owner, NoInvite))
  /\ UNCHANGED <<owner, member, invitation, teamLock, stale>>

\* the update of ownerId locks the row until the transaction ends
LockTeam(h) ==
  /\ handlers[h].pc = "lock_team"
  /\ teamLock = NoHandler
  /\ IF owner = NoTeam THEN Finish(h) /\ UNCHANGED teamLock
     ELSE Goto(h, "find_heir") /\ teamLock' = h
  /\ UNCHANGED <<owner, member, invitation, stale>>

FindHeir(h) ==
  LET r == handlers[h] IN
  /\ r.pc = "find_heir"
  /\ Continue(h, Call("commit", NoUser, r.user, member[r.user], Same, Same, r.held,
                      NoInvite))
  /\ UNCHANGED <<owner, member, invitation, teamLock, stale>>

Unlock(h) == teamLock' = IF teamLock = h THEN NoHandler ELSE teamLock

\* an heir found to be the owner already is left as it is
HeirRow(r) ==
  IF r.row = NoRow THEN Row("owner", "active")
  ELSE IF \/ r.row = Gone \/ member[r.user] = NoRow
          \/ r.held = r.user /\ r.row.role = "owner" THEN member[r.user]
  ELSE Written(member[r.user], r.row, "owner", "active")

CommitTransferOnly(h) ==
  LET r == handlers[h] IN
  /\ r.pc = "commit"
  /\ owner # NoTeam
  /\ owner' = IF teamLock = h THEN r.user ELSE owner
  /\ member' = [member EXCEPT ![r.user] = HeirRow(r)]
  /\ NoteWritten(r.row = member[r.user] /\ r.held = owner)
  /\ Unlock(h)
  /\ Finish(h)
  /\ UNCHANGED invitation

(* The heir becomes owner, as a new member if need be, and the owner that was read an
   admin.  The rows written are seen by the others when the transaction commits, which
   it does unless the heir got a membership in the meantime or the team is gone. *)
CommitTransfer(h) ==
  LET r == handlers[h] IN
  /\ r.pc = "commit"
  /\ owner # NoTeam
  /\ r.row = NoRow => member[r.user] = NoRow
  /\ owner' = IF teamLock = h THEN r.user ELSE owner
  /\ member' = [u \in Users |->
       IF u = r.user THEN HeirRow(r)
       ELSE IF u = r.held /\ member[u] # NoRow THEN Row("admin", member[u].status)
       ELSE member[u]]
  /\ NoteWritten(r.row = member[r.user] /\ r.held = owner)
  /\ Unlock(h)
  /\ Finish(h)
  /\ UNCHANGED invitation

\* a unique or a foreign key is violated, or the database fails, or the process dies
TransferFails(h) ==
  /\ handlers[h].pc \in {"find_heir", "commit"}
  /\ Unlock(h)
  /\ Finish(h)
  /\ UNCHANGED <<owner, member, invitation, stale>>

-----------------------------------------------------------------------------
(* DeleteTeamUseCase: memberships and invitations go with the team. *)

StartDeletion(h, u) ==
  /\ owner # NoTeam
  /\ member[u].role = "owner" /\ IsActive(member[u])
  /\ Begin(h, Request("delete", NoUser, u, NoRow, Same, Same))
  /\ UNCHANGED <<owner, member, invitation, teamLock, stale>>

DeleteTeam(h) ==
  /\ handlers[h].pc = "delete"
  /\ teamLock = NoHandler
  /\ owner' = NoTeam
  /\ member' = [u \in Users |-> NoRow]
  /\ invitation' = [i \in Invites |->
       IF invitation[i] = Absent THEN Absent ELSE Invitation(invitation[i].user, "DELETED")]
  /\ FinishAndForget(h, Users)
  /\ UNCHANGED <<teamLock, stale>>

-----------------------------------------------------------------------------
(* UpdateTeamMemberRoleUseCase *)

StartRoleChange(h, u, target, role) ==
  /\ IsActive(member[target])
  /\ role # "owner"
  /\ Begin(h, Request("judge_role", u, target, member[target], role, Same))
  /\ UNCHANGED <<owner, member, invitation, teamLock, stale>>

JudgeRoleChange(h) ==
  LET r == handlers[h] IN
  /\ r.pc = "judge_role"
  /\ IF /\ member[r.by].role = "owner" /\ IsActive(member[r.by])
        /\ r.row.role \notin {"owner", r.role}
       THEN Goto(h, "load") ELSE Finish(h)
  /\ UNCHANGED <<owner, member, invitation, teamLock, stale>>

(* UpdateTeamMemberStatusUseCase: a user answers an invitation or leaves. *)
MayBecomeAnyTime(row, status) == status # "left" \/ row.role # "owner"

MayBecomeAsOwner(row, status) ==
  IF status = "left" THEN IsActive(row) ELSE row.status = "invited"

MayBecome(row, status) ==
  IF status = "left" THEN IsActive(row) /\ row.role # "owner" ELSE row.status = "invited"

StartStatusChange(h, u, status) ==
  /\ status \in {"active", "rejected", "left"}
  /\ member[u] # NoRow
  /\ MayBecome(member[u], status)
  /\ Begin(h, Request("load", NoUser, u, member[u], Same, status))
  /\ UNCHANGED <<owner, member, invitation, teamLock, stale>>

(* PostgresTeamMemberRepository.updateByTeamAndUser and update.  Nothing is checked when
   only the status changes. *)
RoleMayChange(row, role) == role = Same \/ (row.role = "owner") = (role = "owner")

LoadRow(h) ==
  LET r == handlers[h]
      current == member[r.user]
  IN
  /\ r.pc = "load"
  /\ IF current = NoRow \/ ~RoleMayChange(current, r.role) THEN Finish(h)
     ELSE Continue(h, Call("store", NoUser, r.user, current, r.role, r.status, NoTeam,
                           NoInvite))
  /\ NoteJudged(r)
  /\ UNCHANGED <<owner, member, invitation, teamLock>>

\* a row that is gone is not written, nor is one created since in its place
StoreRow(h) ==
  LET r == handlers[h]
      current == member[r.user]
  IN
  /\ r.pc = "store"
  /\ IF r.row = Gone \/ current = NoRow THEN UNCHANGED <<member, stale>>
     ELSE /\ member' = [member EXCEPT ![r.user] =
               Written(current, r.row, r.role, r.status)]
          /\ NoteWritten(r.row = current)
  /\ Finish(h)
  /\ UNCHANGED <<owner, invitation, teamLock>>

-----------------------------------------------------------------------------
(* RemoveTeamMemberUseCase *)

StartRemoval(h, u, target) ==
  /\ member[target] # NoRow
  /\ Begin(h, Request("judge_removal", u, target, member[target], Same, Same))
  /\ UNCHANGED <<owner, member, invitation, teamLock, stale>>

MayRemove(mine, theirs, self) ==
  /\ IsActive(mine)
  /\ theirs.role # "owner"
  /\ self \/ mine.role = "owner" \/ (mine.role = "admin" /\ theirs.role = "member")

JudgeRemoval(h) ==
  LET r == handlers[h] IN
  /\ r.pc = "judge_removal"
  /\ IF MayRemove(member[r.by], r.row, r.by = r.user)
       THEN Goto(h, "find_removed") ELSE Finish(h)
  /\ UNCHANGED <<owner, member, invitation, teamLock, stale>>

FindRemoved(h) ==
  LET r == handlers[h]
      current == member[r.user]
  IN
  /\ r.pc = "find_removed"
  /\ IF current = NoRow \/ current.role = "owner" THEN Finish(h)
     ELSE Continue(h, Call("destroy", NoUser, r.user, current, Same, Same, NoTeam,
                           NoInvite))
  /\ NoteJudged(r)
  /\ UNCHANGED <<owner, member, invitation, teamLock>>

Destroy(h) ==
  LET r == handlers[h] IN
  /\ r.pc = "destroy"
  /\ IF r.row = Gone THEN Finish(h) /\ UNCHANGED <<member, stale>>
     ELSE /\ member' = [member EXCEPT ![r.user] = NoRow]
          /\ NoteWritten(r.row = member[r.user])
          /\ FinishAndForget(h, {r.user})
  /\ UNCHANGED <<owner, invitation, teamLock>>

-----------------------------------------------------------------------------
(* AddTeamMemberUseCase *)

StartAddition(h, u, target, role) ==
  /\ IsActive(member[u])
  /\ member[u].role = "owner" \/ (member[u].role = "admin" /\ role # "admin")
  /\ role # "owner"
  /\ target # u
  /\ Begin(h, Request("find_known", NoUser, target, NoRow, role, "invited"))
  /\ UNCHANGED <<owner, member, invitation, teamLock, stale>>

\* somebody who left or declined is invited again, in the row there is
FindKnown(h) ==
  LET r == handlers[h]
      current == member[r.user]
  IN
  /\ r.pc = "find_known"
  /\ \/ current = NoRow /\ Goto(h, "create")
     \/ /\ current # NoRow /\ current.status \in {"left", "rejected"}
        /\ Continue(h, Call("load", NoUser, r.user, current, r.role, r.status, NoTeam,
                            NoInvite))
     \/ current # NoRow /\ current.status \notin {"left", "rejected"} /\ Finish(h)
  /\ UNCHANGED <<owner, member, invitation, teamLock, stale>>

CreateMember(h) ==
  LET r == handlers[h] IN
  /\ r.pc = "create"
  /\ owner # NoTeam
  /\ member[r.user] = NoRow
  /\ member' = [member EXCEPT ![r.user] = Row(r.role, r.status)]
  /\ Finish(h)
  /\ UNCHANGED <<owner, invitation, teamLock, stale>>

-----------------------------------------------------------------------------
(* InviteUserToTeamUseCase and RespondToInvitationUseCase *)

Pending(u) == {i \in Invites : invitation[i] = Invitation(u, "PENDING")}

\* anybody may invite anybody: neither the inviter's nor the user's membership is read
StartInvite(h, u) ==
  /\ owner # NoTeam
  /\ Pending(u) = {}
  /\ Begin(h, Request("invite", NoUser, u, NoRow, Same, Same))
  /\ UNCHANGED <<owner, member, invitation, teamLock, stale>>

CreateInvitation(h, i) ==
  /\ handlers[h].pc = "invite"
  /\ owner # NoTeam
  /\ invitation[i] = Absent
  /\ invitation' = [invitation EXCEPT ![i] = Invitation(handlers[h].user, "PENDING")]
  /\ Finish(h)
  /\ UNCHANGED <<owner, member, teamLock, stale>>

(* To accept fails before anything is written: TeamRole is imported by a name the enum's
   module does not export.  To decline goes through. *)
StartAnswer(h, i) ==
  /\ invitation[i].status = "PENDING"
  /\ LET u == invitation[i].user IN
     Begin(h, Call("answer", NoUser, u, NoRow, Same, Same, NoTeam, i))
  /\ UNCHANGED <<owner, member, invitation, teamLock, stale>>

Answer(h) ==
  LET i == handlers[h].invite IN
  /\ handlers[h].pc = "answer"
  /\ invitation' = [invitation EXCEPT ![i] =
       IF @.status \in {"PENDING", "REJECTED"} THEN Invitation(@.user, "REJECTED") ELSE @]
  /\ Finish(h)
  /\ UNCHANGED <<owner, member, teamLock, stale>>

\* an error, a constraint of the database, or the end of the process ends a request
RequestFails(h) ==
  /\ handlers[h] # Idle
  /\ handlers[h].pc \notin {"find_heir", "commit"}
  /\ Finish(h)
  /\ UNCHANGED <<owner, member, invitation, teamLock, stale>>

-----------------------------------------------------------------------------
ChangeOwner(h) ==
  \/ \E u, heir \in Users : StartTransfer(h, u, heir)
  \/ JudgeTransfer(h) \/ ReadTeam(h) \/ LockTeam(h) \/ FindHeir(h) \/ CommitTransfer(h)
  \/ TransferFails(h)

ChangeMember(h) ==
  \/ \E u, target \in Users, role \in Roles : StartRoleChange(h, u, target, role)
  \/ \E u \in Users, status \in Statuses : StartStatusChange(h, u, status)
  \/ JudgeRoleChange(h) \/ LoadRow(h) \/ StoreRow(h)

RemoveMember(h) ==
  \/ \E u, target \in Users : StartRemoval(h, u, target)
  \/ JudgeRemoval(h) \/ FindRemoved(h) \/ Destroy(h)

AddMember(h) ==
  \/ \E u, target \in Users, role \in Roles : StartAddition(h, u, target, role)
  \/ FindKnown(h) \/ CreateMember(h)

Delete(h) == (\E u \in Users : StartDeletion(h, u)) \/ DeleteTeam(h)

Invitations(h) ==
  \/ \E u \in Users : StartInvite(h, u)
  \/ \E i \in Invites : CreateInvitation(h, i) \/ StartAnswer(h, i)
  \/ Answer(h)

Next ==
  \E h \in Handlers :
    \/ ChangeOwner(h) \/ ChangeMember(h) \/ RemoveMember(h) \/ AddMember(h)
    \/ Delete(h) \/ Invitations(h) \/ RequestFails(h)

Spec == Init /\ [][Next]_vars

-----------------------------------------------------------------------------
CallTyped(r) ==
  /\ r.pc \in HandlerPcs
  /\ r.by \in Users \cup {NoUser} /\ r.user \in Users \cup {NoUser}
  /\ r.pc # "idle" => r.user \in Users
  /\ r.row \in Rows \cup {NoRow, Gone}
  /\ r.role \in Roles \cup {Same} /\ r.status \in Statuses \cup {Same}
  /\ r.held \in Users \cup {NoTeam}
  /\ r.invite \in Invites \cup {NoInvite}

(* Every variable keeps its type, and the team's row is locked by a transfer under way
   and by no other request. *)
TypeOK ==
  /\ owner \in Users \cup {NoTeam}
  /\ member \in [Users -> Rows \cup {NoRow}]
  /\ invitation \in [Invites -> InvitationRows \cup {Absent}]
  /\ teamLock \in Handlers \cup {NoHandler}
  /\ teamLock # NoHandler => handlers[teamLock].pc \in {"find_heir", "commit"}
  /\ DOMAIN handlers = Handlers
  /\ \A h \in Handlers : CallTyped(handlers[h])
  /\ stale \in {"nothing", "judged", "row"}

Owners == {u \in Users : member[u].role = "owner"}

(* The column of the team and the roles of its members name one and the same owner,
   whatever requests interleave and however old the data is that the use cases judged
   them by, as long as the repositories overwrite the row they have read. *)
OneOwner == owner # NoTeam /\ stale # "row" => Owners = {owner}

(* That owner is an active member unless a request was judged by a row that changed
   before it was written: the repository does not look at the role when a status changes. *)
OwnerIsActive == owner # NoTeam /\ stale = "nothing" => member[owner] = Row("owner", "active")

(* Nobody becomes an active member but by a transfer of the team or by accepting an
   invitation that stands: not one declined before, nor by coming back after leaving. *)
NobodyIsDraftedIn ==
  [][\A u \in Users :
       ~IsActive(member[u]) /\ IsActive(member'[u]) /\ stale' = "nothing" =>
         member'[u].role = "owner" \/ member[u].status = "invited"]_vars

=============================================================================
