------------------------ MODULE TeamMembership_proofs ------------------------
(***************************************************************************)
(* For any number of users, invitations and requests in progress: the      *)
(* variables of TeamMembership keep their types, and the team has exactly  *)
(* one owner, the one its column names, as long as no repository method    *)
(* wrote over a row that was not the one it had read.  As long as nothing  *)
(* was judged by a row that changed since, that owner is an active member  *)
(* and nobody becomes one uninvited.                                       *)
(*                                                                         *)
(* The strengthening says what a request knows by the time it writes: the  *)
(* row it is about to store or to destroy was no owner's when it was read, *)
(* unless only its status changes, and a transfer holds the lock on the    *)
(* team exactly if it read an owner other than the heir.                   *)
(***************************************************************************)
EXTENDS TeamMembership, TLAPS

CallOK(h, r) ==
  /\ r.role # "owner"
  /\ r.pc \in {"find_known", "create"} => r.role \in Roles /\ r.status \in Statuses
  /\ r.pc = "store" =>
       r.row = Gone \/ (r.row \in Rows /\ (r.role = Same \/ r.row.role # "owner"))
  /\ r.pc = "destroy" => r.row = Gone \/ (r.row \in Rows /\ r.row.role # "owner")
  /\ r.pc = "lock_team" => r.held \in Users /\ r.held # r.user
  /\ r.pc \in {"find_heir", "commit"} =>
       r.held \in Users /\ ((teamLock = h) = (r.held # r.user))

CallsOK == \A h \in Handlers : CallOK(h, handlers[h])

IInv == TypeOK /\ CallsOK /\ OneOwner

Stales == {"nothing", "judged", "row"}

-----------------------------------------------------------------------------
LEMMA RowsAreTyped ==
  /\ \A role \in Roles, status \in Statuses : Row(role, status) \in Rows
  /\ NoRow \notin Rows /\ Gone \notin Rows /\ NoRow # Gone
  /\ NoRow.role # "owner"
  /\ \A row \in Rows : row.role \in Roles /\ row.status \in Statuses
BY DEF Row, Rows, NoRow, Gone, Roles, Statuses

LEMMA WrittenTyped ==
  \A current, copy \in Rows, role \in Roles \cup {Same}, status \in Statuses \cup {Same} :
    /\ Written(current, copy, role, status) \in Rows
    /\ Written(current, copy, role, status).role =
         IF role = Same \/ role = copy.role THEN current.role ELSE role
BY RowsAreTyped DEF Written, Row

LEMMA IdleIsFine ==
  ASSUME NEW h PROVE CallTyped(Idle) /\ CallOK(h, Idle)
BY DEF CallTyped, CallOK, Idle, Call, HandlerPcs, NoRow, Same, Row, Roles, Statuses

(* A step that changes the local state of one request, and notes what was stale. *)
LEMMA CallStep ==
  ASSUME IInv, NEW h \in Handlers, NEW c,
         CallTyped(c), CallOK(h, c), teamLock = h => c.pc \in {"find_heir", "commit"},
         handlers' = [handlers EXCEPT ![h] = c],
         UNCHANGED <<owner, member, invitation, teamLock>>,
         stale' \in Stales, stale = "row" => stale' = "row"
  PROVE  IInv'
<1>1. /\ DOMAIN handlers' = Handlers
      /\ \A g \in Handlers : handlers'[g] = IF g = h THEN c ELSE handlers[g]
  BY DEF IInv, TypeOK
<1>2. TypeOK'
  BY <1>1 DEF IInv, TypeOK, Stales, CallTyped
<1>3. CallsOK'
  BY <1>1 DEF IInv, CallsOK, CallOK
<1>4. OneOwner'
  BY DEF IInv, OneOwner, Owners, Stales
<1> QED BY <1>2, <1>3, <1>4 DEF IInv

\* a request that is no transfer under way does not hold the lock
LEMMA NotLocking ==
  ASSUME IInv, NEW h \in Handlers, handlers[h].pc \notin {"find_heir", "commit"}
  PROVE  teamLock # h
BY NullsAreNotValues DEF IInv, TypeOK

LEMMA FinishStep ==
  ASSUME IInv, NEW h \in Handlers, handlers[h].pc \notin {"find_heir", "commit"}, Finish(h),
         UNCHANGED <<owner, member, invitation, teamLock>>,
         stale' \in Stales, stale = "row" => stale' = "row"
  PROVE  IInv'
BY NotLocking, IdleIsFine, CallStep DEF Finish

(* A step that changes one membership, and nobody's being owner unless the row is stale. *)
LEMMA MemberStep ==
  ASSUME TypeOK, OneOwner, NEW u \in Users, NEW new,
         member' = [member EXCEPT ![u] = new],
         owner' = owner,
         stale' # "row" =>
           stale # "row" /\ ((new.role = "owner") = (member[u].role = "owner"))
  PROVE  OneOwner'
<1>1. \A v \in Users : member'[v] = IF v = u THEN new ELSE member[v]
  BY DEF TypeOK
<1>2. stale' # "row" => \A v \in Users : (member'[v].role = "owner") = (member[v].role = "owner")
  BY <1>1
<1>3. stale' # "row" => Owners' = Owners
  BY <1>2 DEF Owners
<1> QED BY <1>3 DEF OneOwner

LEMMA ForgetKeeps ==
  ASSUME IInv, NEW h \in Handlers, NEW users, FinishAndForget(h, users),
         UNCHANGED teamLock, handlers[h].pc \notin {"find_heir", "commit"}
  PROVE  /\ DOMAIN handlers' = Handlers
         /\ \A g \in Handlers : CallTyped(handlers'[g])
         /\ CallsOK'
         /\ teamLock # NoHandler => handlers'[teamLock].pc \in {"find_heir", "commit"}
<1> DEFINE r(g) == handlers[g]
           Forgotten(g) == Call(r(g).pc, r(g).by, r(g).user, Gone, r(g).role, r(g).status,
                                r(g).held, r(g).invite)
<1>1. /\ DOMAIN handlers' = Handlers
      /\ \A g \in Handlers : \/ g = h /\ handlers'[g] = Idle
                             \/ g # h /\ handlers'[g] = r(g)
                             \/ g # h /\ handlers'[g] = Forgotten(g)
  BY DEF FinishAndForget
<1>2. ASSUME NEW g \in Handlers
      PROVE  /\ CallTyped(Forgotten(g)) /\ CallOK(g, Forgotten(g))
             /\ Forgotten(g).pc = r(g).pc
  BY RowsAreTyped DEF Call, CallTyped, CallOK, CallsOK, IInv, TypeOK
<1>3. \A g \in Handlers : CallTyped(handlers'[g]) /\ CallOK(g, handlers'[g])
  BY <1>1, <1>2, IdleIsFine DEF IInv, TypeOK, CallsOK
<1>4. CallsOK'
  BY <1>3 DEF CallsOK, CallOK
<1>5. teamLock # NoHandler => handlers'[teamLock].pc \in {"find_heir", "commit"}
  BY <1>1, <1>2 DEF IInv, TypeOK
<1> QED BY <1>1, <1>3, <1>4, <1>5

-----------------------------------------------------------------------------
LEMMA InitIInv == Init => IInv
<1> SUFFICES ASSUME Init PROVE IInv
  OBVIOUS
<1>1. Row("owner", "active") \in Rows /\ Row("owner", "active").role = "owner"
  BY DEF Row, Rows, Roles, Statuses
<1>2. \A u \in Users : (member[u].role = "owner") = (u = owner)
  BY <1>1, RowsAreTyped DEF Init
<1>3. TypeOK
  BY <1>1, IdleIsFine DEF Init, TypeOK
<1>4. CallsOK
  BY IdleIsFine DEF Init, CallsOK
<1>5. OneOwner
  BY <1>2 DEF OneOwner, Owners, Init
<1> QED BY <1>3, <1>4, <1>5 DEF IInv

(* The steps that read a row or a team, or judge what was read. *)
LEMMA StartsKeep ==
  ASSUME IInv, NEW h \in Handlers, NEW c, Begin(h, c),
         UNCHANGED <<owner, member, invitation, teamLock, stale>>,
         CallTyped(c), CallOK(h, c), c.pc \notin {"find_heir", "commit"}
  PROVE  IInv'
<1>1. handlers[h].pc \notin {"find_heir", "commit"}
  BY DEF Begin, Idle, Call
<1>2. stale' \in Stales
  BY DEF IInv, TypeOK, Stales
<1> QED BY <1>1, <1>2, NotLocking, CallStep DEF Begin

LEMMA RequestFine ==
  ASSUME NEW h, NEW pc \in HandlerPcs \ {"store", "destroy", "lock_team", "find_heir", "commit"},
         NEW by \in Users \cup {NoUser}, NEW user \in Users, NEW row \in Rows \cup {NoRow},
         NEW role \in (Roles \cup {Same}) \ {"owner"}, NEW status \in Statuses \cup {Same},
         pc \in {"find_known", "create"} => role \in Roles /\ status \in Statuses
  PROVE  LET c == Request(pc, by, user, row, role, status)
         IN  CallTyped(c) /\ CallOK(h, c) /\ c.pc \notin {"find_heir", "commit"}
BY DEF Request, Call, CallTyped, CallOK

LEMMA Constants ==
  /\ Same # "owner" /\ Same \notin Roles /\ Same \notin Statuses
  /\ "invited" \in Statuses
BY DEF Same, Roles, Statuses

LEMMA BeginsKeep ==
  ASSUME IInv, NEW h \in Handlers, NEW u \in Users, NEW target \in Users,
         NEW role \in Roles, NEW status \in Statuses,
         \/ StartTransfer(h, u, target)
         \/ StartDeletion(h, u)
         \/ StartRoleChange(h, u, target, role)
         \/ StartStatusChange(h, u, status)
         \/ StartRemoval(h, u, target)
         \/ StartAddition(h, u, target, role)
         \/ StartInvite(h, u)
  PROVE  IInv'
<1>1. member[u] \in Rows \cup {NoRow} /\ member[target] \in Rows \cup {NoRow}
  BY DEF IInv, TypeOK
<1> USE <1>1, Constants, RequestFine, StartsKeep DEF HandlerPcs
<1>2. CASE StartTransfer(h, u, target)
  <2> DEFINE c == Request("judge_transfer", u, target, NoRow, Same, Same)
  <2>1. Begin(h, c) /\ UNCHANGED <<owner, member, invitation, teamLock, stale>>
    BY <1>2 DEF StartTransfer
  <2>2. CallTyped(c) /\ CallOK(h, c) /\ c.pc \notin {"find_heir", "commit"}
    BY RequestFine
  <2> HIDE DEF c
  <2> QED BY <2>1, <2>2
<1>3. CASE StartDeletion(h, u)
  BY <1>3 DEF StartDeletion
<1>4. CASE StartRoleChange(h, u, target, role)
  BY <1>4 DEF StartRoleChange
<1>5. CASE StartStatusChange(h, u, status)
  BY <1>5 DEF StartStatusChange
<1>6. CASE StartRemoval(h, u, target)
  BY <1>6 DEF StartRemoval
<1>7. CASE StartAddition(h, u, target, role)
  BY <1>7 DEF StartAddition
<1>8. CASE StartInvite(h, u)
  BY <1>8 DEF StartInvite
<1> QED BY <1>2, <1>3, <1>4, <1>5, <1>6, <1>7, <1>8

LEMMA StartAnswerKeeps ==
  ASSUME IInv, NEW h \in Handlers, NEW i \in Invites, StartAnswer(h, i)
  PROVE  IInv'
<1> DEFINE u == invitation[i].user
           c == Call("answer", NoUser, u, NoRow, Same, Same, NoTeam, i)
<1>1. Begin(h, c) /\ UNCHANGED <<owner, member, invitation, teamLock, stale>>
  BY DEF StartAnswer
<1>2. u \in Users
  BY DEF StartAnswer, IInv, TypeOK, InvitationRows, Absent, Invitation
<1>3. CallTyped(c) /\ CallOK(h, c) /\ c.pc \notin {"find_heir", "commit"}
  BY <1>2, Constants DEF Call, CallTyped, CallOK, HandlerPcs
<1> QED BY <1>1, <1>3, StartsKeep

LEMMA ReadsKeep ==
  ASSUME IInv, NEW h \in Handlers,
         \/ JudgeTransfer(h) \/ ReadTeam(h) \/ FindHeir(h)
         \/ JudgeRoleChange(h) \/ LoadRow(h)
         \/ JudgeRemoval(h) \/ FindRemoved(h) \/ FindKnown(h)
  PROVE  IInv'
<1> DEFINE r == handlers[h]
           c == handlers'[h]
<1>1. /\ CallTyped(r) /\ CallOK(h, r)
      /\ owner \in Users \cup {NoTeam} /\ stale \in Stales
      /\ \A u \in Users : member[u] \in Rows \cup {NoRow}
      /\ DOMAIN handlers = Handlers
      /\ teamLock = h => r.pc \in {"find_heir", "commit"}
  BY NotLocking DEF IInv, TypeOK, CallsOK, Stales
<1>2. ASSUME NEW d, handlers' = [handlers EXCEPT ![h] = d],
             UNCHANGED <<owner, member, invitation, teamLock>>,
             stale' \in Stales, stale = "row" => stale' = "row",
             CallTyped(d), CallOK(h, d), teamLock = h => d.pc \in {"find_heir", "commit"}
      PROVE  IInv'
  BY <1>2, CallStep
<1>3. ASSUME Finish(h), r.pc \notin {"find_heir", "commit"},
             UNCHANGED <<owner, member, invitation, teamLock>>,
             stale' \in Stales, stale = "row" => stale' = "row"
      PROVE  IInv'
  BY <1>3, FinishStep
<1>4. ASSUME NEW pc \in HandlerPcs \ {"store", "destroy", "lock_team", "find_heir", "commit"},
             Goto(h, pc), r.pc \notin {"idle", "find_heir", "commit"},
             pc \in {"find_known", "create"} => r.pc = "find_known",
             UNCHANGED <<owner, member, invitation, teamLock>>,
             stale' = stale
      PROVE  IInv'
  <2> DEFINE d == Call(pc, NoUser, r.user, r.row, r.role, r.status, r.held, r.invite)
  <2>1. CallTyped(d) /\ CallOK(h, d) /\ (teamLock = h => d.pc \in {"find_heir", "commit"})
    BY <1>1, <1>4 DEF Call, CallTyped, CallOK
  <2>2. handlers' = [handlers EXCEPT ![h] = d]
    BY <1>4 DEF Goto, Continue
  <2> HIDE DEF d
  <2> QED BY <1>1, <1>2, <1>4, <2>1, <2>2
<1>5. ASSUME r.pc # "idle" PROVE r.user \in Users
  BY <1>1, <1>5 DEF CallTyped
<1>6. stale' \in Stales /\ (stale = "row" => stale' = "row") /\ (stale' = stale \/ NoteJudged(r))
  BY <1>1 DEF JudgeTransfer, ReadTeam, FindHeir, JudgeRoleChange, LoadRow, JudgeRemoval,
     FindRemoved, FindKnown, NoteJudged, Stales
<1>7. CASE JudgeTransfer(h)
  BY <1>3, <1>4, <1>6, <1>7 DEF JudgeTransfer, HandlerPcs
<1>8. CASE JudgeRoleChange(h)
  BY <1>3, <1>4, <1>6, <1>8 DEF JudgeRoleChange, HandlerPcs
<1>9. CASE JudgeRemoval(h)
  BY <1>3, <1>4, <1>6, <1>9 DEF JudgeRemoval, HandlerPcs
<1>10. CASE ReadTeam(h)
  <2>1. CASE owner = NoTeam
    BY <1>3, <1>6, <1>10, <2>1 DEF ReadTeam
  <2>2. CASE owner # NoTeam
    <3> DEFINE d == Call(IF owner = r.user THEN "find_heir" ELSE "lock_team",
                         NoUser, r.user, NoRow, Same, Same, owner, NoInvite)
    <3>1. handlers' = [handlers EXCEPT ![h] = d] /\ UNCHANGED <<owner, member, invitation, teamLock>>
      BY <1>10, <2>2 DEF ReadTeam, Continue
    <3>2. CallTyped(d) /\ CallOK(h, d) /\ (teamLock = h => d.pc \in {"find_heir", "commit"})
      BY <1>1, <1>5, <1>10, <2>2, Constants DEF ReadTeam, Call, CallTyped, CallOK, HandlerPcs
    <3> HIDE DEF d
    <3> QED BY <1>2, <1>6, <3>1, <3>2
  <2> QED BY <2>1, <2>2
<1>11. CASE FindHeir(h)
  <2> DEFINE d == Call("commit", NoUser, r.user, member[r.user], Same, Same, r.held, NoInvite)
  <2>1. handlers' = [handlers EXCEPT ![h] = d] /\ UNCHANGED <<owner, member, invitation, teamLock>>
    BY <1>11 DEF FindHeir, Continue
  <2>2. CallTyped(d) /\ CallOK(h, d) /\ (teamLock = h => d.pc \in {"find_heir", "commit"})
    BY <1>1, <1>5, <1>11, Constants DEF FindHeir, Call, CallTyped, CallOK, HandlerPcs
  <2> HIDE DEF d
  <2> QED BY <1>2, <1>6, <2>1, <2>2
<1>12. CASE LoadRow(h)
  <2>1. CASE member[r.user] = NoRow \/ ~RoleMayChange(member[r.user], r.role)
    BY <1>3, <1>6, <1>12, <2>1 DEF LoadRow
  <2>2. CASE ~(member[r.user] = NoRow \/ ~RoleMayChange(member[r.user], r.role))
    <3> DEFINE d == Call("store", NoUser, r.user, member[r.user], r.role, r.status, NoTeam, NoInvite)
    <3>1. handlers' = [handlers EXCEPT ![h] = d] /\ UNCHANGED <<owner, member, invitation, teamLock>>
      BY <1>12, <2>2 DEF LoadRow, Continue
    <3>2. CallTyped(d) /\ CallOK(h, d) /\ (teamLock = h => d.pc \in {"find_heir", "commit"})
      BY <1>1, <1>5, <1>12, <2>2 DEF LoadRow, RoleMayChange, Call, CallTyped, CallOK, HandlerPcs
    <3> HIDE DEF d
    <3> QED BY <1>2, <1>6, <3>1, <3>2
  <2> QED BY <2>1, <2>2
<1>13. CASE FindRemoved(h)
  <2>1. CASE member[r.user] = NoRow \/ member[r.user].role = "owner"
    BY <1>3, <1>6, <1>13, <2>1 DEF FindRemoved
  <2>2. CASE ~(member[r.user] = NoRow \/ member[r.user].role = "owner")
    <3> DEFINE d == Call("destroy", NoUser, r.user, member[r.user], Same, Same, NoTeam, NoInvite)
    <3>1. handlers' = [handlers EXCEPT ![h] = d] /\ UNCHANGED <<owner, member, invitation, teamLock>>
      BY <1>13, <2>2 DEF FindRemoved, Continue
    <3>2. CallTyped(d) /\ CallOK(h, d) /\ (teamLock = h => d.pc \in {"find_heir", "commit"})
      BY <1>1, <1>5, <1>13, <2>2, Constants DEF FindRemoved, Call, CallTyped, CallOK, HandlerPcs
    <3> HIDE DEF d
    <3> QED BY <1>2, <1>6, <3>1, <3>2
  <2> QED BY <2>1, <2>2
<1>14. CASE FindKnown(h)
  <2>1. CASE member[r.user] = NoRow
    <3>1. Goto(h, "create") /\ UNCHANGED <<owner, member, invitation, teamLock, stale>>
      BY <1>14, <2>1 DEF FindKnown
    <3>2. r.pc = "find_known"
      BY <1>14 DEF FindKnown
    <3> QED BY <1>4, <3>1, <3>2 DEF HandlerPcs
  <2>2. CASE member[r.user] # NoRow /\ member[r.user].status \in {"left", "rejected"}
    <3> DEFINE d == Call("load", NoUser, r.user, member[r.user], r.role, r.status, NoTeam, NoInvite)
    <3>1. handlers' = [handlers EXCEPT ![h] = d] /\ UNCHANGED <<owner, member, invitation, teamLock>>
      BY <1>14, <2>2 DEF FindKnown, Continue
    <3>2. CallTyped(d) /\ CallOK(h, d) /\ (teamLock = h => d.pc \in {"find_heir", "commit"})
      BY <1>1, <1>5, <1>14, <2>2 DEF FindKnown, Call, CallTyped, CallOK, HandlerPcs
    <3> HIDE DEF d
    <3> QED BY <1>2, <1>6, <3>1, <3>2
  <2>3. CASE member[r.user] # NoRow /\ member[r.user].status \notin {"left", "rejected"}
    BY <1>3, <1>6, <1>14, <2>3 DEF FindKnown
  <2> QED BY <2>1, <2>2, <2>3
<1> QED BY <1>7, <1>8, <1>9, <1>10, <1>11, <1>12, <1>13, <1>14

-----------------------------------------------------------------------------
(* The steps that write. *)
LEMMA EndsTyped ==
  ASSUME IInv, NEW h \in Handlers, Finish(h),
         UNCHANGED teamLock, handlers[h].pc \notin {"find_heir", "commit"}
  PROVE  /\ DOMAIN handlers' = Handlers
         /\ \A g \in Handlers : CallTyped(handlers'[g])
         /\ CallsOK'
         /\ teamLock # NoHandler => handlers'[teamLock].pc \in {"find_heir", "commit"}
<1>1. /\ DOMAIN handlers' = Handlers
      /\ \A g \in Handlers : handlers'[g] = IF g = h THEN Idle ELSE handlers[g]
  BY DEF Finish, IInv, TypeOK
<1>2. \A g \in Handlers : CallTyped(handlers'[g]) /\ CallOK(g, handlers'[g])
  BY <1>1, IdleIsFine DEF IInv, TypeOK, CallsOK
<1>3. CallsOK'
  BY <1>2 DEF CallsOK, CallOK
<1>4. teamLock # NoHandler => handlers'[teamLock].pc \in {"find_heir", "commit"}
  BY <1>1, NotLocking DEF IInv, TypeOK
<1> QED BY <1>1, <1>2, <1>3, <1>4

LEMMA LockTeamKeeps ==
  ASSUME IInv, NEW h \in Handlers, LockTeam(h)
  PROVE  IInv'
<1> DEFINE r == handlers[h]
<1>1. stale' \in Stales /\ stale' = stale
  BY DEF IInv, TypeOK, Stales, LockTeam
<1>2. CASE owner = NoTeam
  BY <1>1, <1>2, FinishStep DEF LockTeam
<1>3. CASE owner # NoTeam
  <2> DEFINE c == Call("find_heir", NoUser, r.user, r.row, r.role, r.status, r.held, r.invite)
  <2>1. /\ handlers' = [handlers EXCEPT ![h] = c]
        /\ teamLock = NoHandler /\ teamLock' = h
        /\ UNCHANGED <<owner, member, invitation, stale>>
        /\ r.pc = "lock_team"
    BY <1>3 DEF LockTeam, Goto, Continue
  <2>2. /\ CallTyped(c) /\ c.role # "owner" /\ c.pc = "find_heir"
        /\ c.held \in Users /\ c.held # c.user
    BY <2>1 DEF IInv, TypeOK, CallsOK, CallTyped, CallOK, Call, HandlerPcs
  <2>3. /\ DOMAIN handlers' = Handlers
        /\ \A g \in Handlers : handlers'[g] = IF g = h THEN c ELSE handlers[g]
    BY <2>1 DEF IInv, TypeOK
  <2> HIDE DEF c
  <2>4. TypeOK'
    BY <2>1, <2>2, <2>3 DEF IInv, TypeOK, CallTyped
  <2>5. ASSUME NEW g \in Handlers PROVE CallOK(g, handlers[g])'
    <3>1. CASE g = h
      BY <2>1, <2>2, <2>3, <3>1 DEF CallOK
    <3>2. CASE g # h
      BY <2>1, <2>3, <3>2, NullsAreNotValues DEF CallOK, CallsOK, IInv
    <3> QED BY <3>1, <3>2
  <2>6. OneOwner'
    BY <2>1 DEF IInv, OneOwner, Owners
  <2> QED BY <2>4, <2>5, <2>6 DEF IInv, CallsOK
<1> QED BY <1>2, <1>3

LEMMA UnlockStep ==
  ASSUME IInv, NEW h \in Handlers, handlers[h].pc \in {"find_heir", "commit"},
         Unlock(h), Finish(h)
  PROVE  /\ DOMAIN handlers' = Handlers
         /\ \A g \in Handlers : CallTyped(handlers'[g])
         /\ CallsOK'
         /\ teamLock' \in Handlers \cup {NoHandler}
         /\ teamLock' # NoHandler => handlers'[teamLock'].pc \in {"find_heir", "commit"}
<1>1. /\ DOMAIN handlers' = Handlers
      /\ \A g \in Handlers : handlers'[g] = IF g = h THEN Idle ELSE handlers[g]
  BY DEF Finish, IInv, TypeOK
<1>2. \A g \in Handlers : CallTyped(handlers'[g])
  BY <1>1, IdleIsFine DEF IInv, TypeOK
<1>3. /\ teamLock' \in Handlers \cup {NoHandler} /\ teamLock' # h
      /\ \A g \in Handlers : g # h => ((teamLock' = g) = (teamLock = g))
  BY NullsAreNotValues DEF Unlock, IInv, TypeOK
<1>4. ASSUME NEW g \in Handlers PROVE CallOK(g, handlers[g])'
  <2>1. CASE g = h
    BY <1>1, <2>1 DEF CallOK, Idle, Call, Same
  <2>2. CASE g # h
    BY <1>1, <1>3, <2>2 DEF IInv, CallsOK, CallOK
  <2> QED BY <2>1, <2>2
<1>5. teamLock' # NoHandler => handlers'[teamLock'].pc \in {"find_heir", "commit"}
  BY <1>1, <1>3 DEF IInv, TypeOK
<1> QED BY <1>1, <1>2, <1>3, <1>4, <1>5 DEF CallsOK

LEMMA TransferFailsKeeps ==
  ASSUME IInv, NEW h \in Handlers, TransferFails(h)
  PROVE  IInv'
<1>1. Unlock(h) /\ Finish(h) /\ UNCHANGED <<owner, member, invitation, stale>>
      /\ handlers[h].pc \in {"find_heir", "commit"}
  BY DEF TransferFails
<1>2. TypeOK' /\ CallsOK'
  BY <1>1, UnlockStep DEF IInv, TypeOK
<1>3. OneOwner'
  BY <1>1 DEF IInv, OneOwner, Owners
<1> QED BY <1>2, <1>3 DEF IInv

LEMMA CommitTransferKeeps ==
  ASSUME IInv, NEW h \in Handlers, CommitTransfer(h)
  PROVE  IInv'
<1> DEFINE r == handlers[h]
<1>1. /\ r.pc = "commit" /\ owner \in Users /\ owner # NoTeam
      /\ r.row = NoRow => member[r.user] = NoRow
      /\ Unlock(h) /\ Finish(h) /\ invitation' = invitation
      /\ stale' = IF r.row = member[r.user] /\ r.held = owner THEN stale ELSE "row"
  BY DEF CommitTransfer, NoteWritten, IInv, TypeOK
<1>2. /\ r.user \in Users /\ r.held \in Users
      /\ r.row \in Rows \cup {NoRow, Gone}
      /\ (teamLock = h) = (r.held # r.user)
      /\ member \in [Users -> Rows \cup {NoRow}]
  BY <1>1 DEF IInv, TypeOK, CallsOK, CallTyped, CallOK
<1>3. /\ HeirRow(r) \in Rows \cup {NoRow}
      /\ r.row # Gone /\ r.row = member[r.user] => HeirRow(r).role = "owner"
  <2>0. "owner" \in Roles /\ "active" \in Statuses /\ member[r.user] \in Rows \cup {NoRow}
    BY <1>2 DEF Roles, Statuses
  <2>1. CASE r.row = NoRow
    BY <2>0, <2>1, RowsAreTyped DEF HeirRow, Row
  <2>2. CASE r.row # NoRow /\ (r.row = Gone \/ member[r.user] = NoRow \/ (r.held = r.user /\ r.row.role = "owner"))
    <3>1. HeirRow(r) = member[r.user]
      BY <2>2 DEF HeirRow
    <3> QED BY <2>0, <2>2, <3>1, RowsAreTyped
  <2>3. CASE r.row # NoRow /\ ~(r.row = Gone \/ member[r.user] = NoRow \/ (r.held = r.user /\ r.row.role = "owner"))
    <3>1. HeirRow(r) = Written(member[r.user], r.row, "owner", "active")
      BY <2>3 DEF HeirRow
    <3>2. member[r.user] \in Rows /\ r.row \in Rows
      BY <1>2, <2>0, <2>3
    <3>3. ASSUME NEW current \in Rows, NEW copy \in Rows
          PROVE  /\ Written(current, copy, "owner", "active") \in Rows
                 /\ copy = current => Written(current, copy, "owner", "active").role = "owner"
      <4>1. "owner" \in Roles \cup {Same} /\ "active" \in Statuses \cup {Same}
        BY <2>0
      <4>2. /\ Written(current, copy, "owner", "active") \in Rows
        BY <4>1, WrittenTyped
      <4>3. \/ Written(current, copy, "owner", "active").role = "owner"
            \/ Written(current, copy, "owner", "active").role = current.role /\ copy.role = "owner"
        BY Constants DEF Written, Row
      <4> QED BY <4>2, <4>3
    <3> QED BY <3>1, <3>2, <3>3
  <2> QED BY <2>1, <2>2, <2>3
<1>4. \A u \in Users : (member'[u] = IF u = r.user THEN HeirRow(r)
         ELSE IF u = r.held /\ member[u] # NoRow THEN Row("admin", member[u].status)
         ELSE member[u])
  BY DEF CommitTransfer
<1>5. TypeOK' /\ CallsOK'
  <2>1. /\ DOMAIN handlers' = Handlers
        /\ \A g \in Handlers : CallTyped(handlers'[g])
        /\ CallsOK'
        /\ teamLock' \in Handlers \cup {NoHandler}
        /\ teamLock' # NoHandler => handlers'[teamLock'].pc \in {"find_heir", "commit"}
    BY <1>1, UnlockStep
  <2>2. member' \in [Users -> Rows \cup {NoRow}]
    <3>1. \A u \in Users : member[u] # NoRow => Row("admin", member[u].status) \in Rows
      BY <1>2, RowsAreTyped DEF Roles
    <3>2. \A u \in Users : member'[u] \in Rows \cup {NoRow}
      BY <1>2, <1>3, <1>4, <3>1
    <3> QED BY <3>2 DEF CommitTransfer
  <2>3. owner' \in Users \cup {NoTeam} /\ stale' \in Stales
    BY <1>1, <1>2 DEF CommitTransfer, IInv, TypeOK, Stales
  <2> QED BY <1>1, <2>1, <2>2, <2>3 DEF TypeOK, IInv, Stales
<1>6. OneOwner'
  <2> SUFFICES ASSUME stale' # "row" PROVE Owners' = {owner'}
    BY DEF OneOwner
  <2>1. /\ stale # "row" /\ r.row = member[r.user] /\ r.held = owner
    BY <1>1
  <2>2. HeirRow(r).role = "owner"
    BY <1>2, <1>3, <2>1, RowsAreTyped
  <2>3. \A u \in Users : (member[u].role = "owner") = (u = owner)
    BY <1>1, <2>1 DEF IInv, OneOwner, Owners
  <2>4. owner' = r.user
    BY <1>2, <2>1 DEF CommitTransfer
  <2>5. \A u \in Users : (member'[u].role = "owner") = (u = r.user)
    <3>1. \A status : Row("admin", status).role # "owner"
      BY DEF Row
    <3>2. ASSUME NEW u \in Users PROVE (member'[u].role = "owner") = (u = r.user)
      <4>1. CASE u = r.user
        BY <1>4, <2>2, <4>1
      <4>2. CASE u # r.user /\ u = owner
        BY <1>4, <2>1, <3>1, <4>2, RowsAreTyped
      <4>3. CASE u # r.user /\ u # owner
        BY <1>4, <2>1, <2>3, <4>3
      <4> QED BY <4>1, <4>2, <4>3
    <3> QED BY <3>2
  <2> QED BY <1>2, <2>4, <2>5 DEF Owners
<1> QED BY <1>5, <1>6 DEF IInv

LEMMA DeleteTeamKeeps ==
  ASSUME IInv, NEW h \in Handlers, DeleteTeam(h)
  PROVE  IInv'
<1>1. /\ FinishAndForget(h, Users) /\ teamLock' = teamLock /\ stale' = stale
      /\ handlers[h].pc \notin {"find_heir", "commit"} /\ owner' = NoTeam
  BY DEF DeleteTeam
<1>2. member' \in [Users -> Rows \cup {NoRow}]
  BY DEF DeleteTeam
<1>3. invitation' \in [Invites -> InvitationRows \cup {Absent}]
  <2>1. \A i \in Invites : invitation[i] # Absent => Invitation(invitation[i].user, "DELETED") \in InvitationRows
    BY DEF IInv, TypeOK, InvitationRows, Invitation
  <2> QED BY <2>1 DEF DeleteTeam
<1>4. TypeOK' /\ CallsOK'
  BY <1>1, <1>2, <1>3, ForgetKeeps DEF IInv, TypeOK
<1>5. OneOwner'
  BY <1>1 DEF OneOwner
<1> QED BY <1>4, <1>5 DEF IInv

LEMMA StoreRowKeeps ==
  ASSUME IInv, NEW h \in Handlers, StoreRow(h)
  PROVE  IInv'
<1> DEFINE r == handlers[h]
           current == member[r.user]
           new == Written(current, r.row, r.role, r.status)
<1>1. /\ r.pc = "store" /\ Finish(h) /\ UNCHANGED <<owner, invitation, teamLock>>
      /\ r.user \in Users /\ current \in Rows \cup {NoRow} /\ CallTyped(r) /\ CallOK(h, r)
      /\ stale \in Stales
  BY DEF StoreRow, IInv, TypeOK, CallsOK, CallTyped, Stales
<1>2. CASE r.row = Gone \/ current = NoRow
  BY <1>1, <1>2, FinishStep DEF StoreRow
<1>3. CASE ~(r.row = Gone \/ current = NoRow)
  <2>1. /\ member' = [member EXCEPT ![r.user] = new]
        /\ stale' = IF r.row = current THEN stale ELSE "row"
    BY <1>3 DEF StoreRow, NoteWritten
  <2>2. current \in Rows /\ r.row \in Rows
    BY <1>1, <1>3 DEF CallOK
  <2>3. r.role \in Roles \cup {Same} /\ r.status \in Statuses \cup {Same}
    BY <1>1 DEF CallTyped
  <2>4. new \in Rows /\ (new.role = IF r.role = Same \/ r.role = r.row.role THEN current.role ELSE r.role)
    <3>1. \A role \in Roles \cup {Same}, status \in Statuses \cup {Same} :
            /\ Written(current, r.row, role, status) \in Rows
            /\ Written(current, r.row, role, status).role =
                 IF role = Same \/ role = r.row.role THEN current.role ELSE role
      BY <2>2, WrittenTyped
    <3> QED BY <2>3, <3>1
  <2>5. r.row = current => ((new.role = "owner") = (current.role = "owner"))
    BY <1>1, <1>3, <2>4 DEF CallOK
  <2> HIDE DEF new
  <2>6. OneOwner'
    BY <1>1, <2>1, <2>5, MemberStep DEF IInv
  <2>7. member' \in [Users -> Rows \cup {NoRow}]
    BY <2>1, <2>4 DEF IInv, TypeOK
  <2>8. TypeOK' /\ CallsOK'
    BY <1>1, <2>1, <2>7, EndsTyped DEF IInv, TypeOK, Stales
  <2> QED BY <2>6, <2>8 DEF IInv
<1> QED BY <1>2, <1>3

LEMMA DestroyKeeps ==
  ASSUME IInv, NEW h \in Handlers, Destroy(h)
  PROVE  IInv'
<1> DEFINE r == handlers[h]
<1>1. /\ r.pc = "destroy" /\ UNCHANGED <<owner, invitation, teamLock>>
      /\ r.user \in Users /\ CallOK(h, r) /\ stale \in Stales
  BY DEF Destroy, IInv, TypeOK, CallsOK, CallTyped, Stales
<1>2. CASE r.row = Gone
  BY <1>1, <1>2, FinishStep DEF Destroy
<1>3. CASE r.row # Gone
  <2>1. /\ member' = [member EXCEPT ![r.user] = NoRow]
        /\ stale' = IF r.row = member[r.user] THEN stale ELSE "row"
        /\ FinishAndForget(h, {r.user})
    BY <1>3 DEF Destroy, NoteWritten
  <2>2. OneOwner'
    BY <1>1, <1>3, <2>1, MemberStep, RowsAreTyped DEF IInv, CallOK
  <2>3. member' \in [Users -> Rows \cup {NoRow}]
    BY <2>1 DEF IInv, TypeOK
  <2>4. TypeOK' /\ CallsOK'
    BY <1>1, <2>1, <2>3, ForgetKeeps DEF IInv, TypeOK, Stales
  <2> QED BY <2>2, <2>4 DEF IInv
<1> QED BY <1>2, <1>3

LEMMA CreateMemberKeeps ==
  ASSUME IInv, NEW h \in Handlers, CreateMember(h)
  PROVE  IInv'
<1> DEFINE r == handlers[h]
<1>1. /\ r.pc = "create" /\ Finish(h) /\ UNCHANGED <<owner, invitation, teamLock, stale>>
      /\ member' = [member EXCEPT ![r.user] = Row(r.role, r.status)]
      /\ r.user \in Users /\ member[r.user] = NoRow /\ r.role # "owner" /\ stale \in Stales
  BY DEF CreateMember, IInv, TypeOK, CallsOK, CallTyped, CallOK, Stales
<1>2. OneOwner'
  BY <1>1, MemberStep, RowsAreTyped DEF IInv, Row
<1>3. member' \in [Users -> Rows \cup {NoRow}]
  <2>1. Row(r.role, r.status) \in Rows
    BY <1>1, RowsAreTyped DEF IInv, CallsOK, CallOK, TypeOK, CallTyped
  <2> QED BY <1>1, <2>1 DEF IInv, TypeOK
<1>4. TypeOK' /\ CallsOK'
  BY <1>1, <1>3, EndsTyped DEF IInv, TypeOK, Stales
<1> QED BY <1>2, <1>4 DEF IInv

LEMMA InvitationsKeep ==
  ASSUME IInv, NEW h \in Handlers,
         (\E i \in Invites : CreateInvitation(h, i)) \/ Answer(h)
  PROVE  IInv'
<1>1. /\ handlers[h].pc \notin {"find_heir", "commit"} /\ Finish(h)
      /\ UNCHANGED <<owner, member, teamLock, stale>>
  BY DEF CreateInvitation, Answer
<1>2. invitation' \in [Invites -> InvitationRows \cup {Absent}]
  <2>1. CASE \E i \in Invites : CreateInvitation(h, i)
    <3>1. PICK i \in Invites : CreateInvitation(h, i)
      BY <2>1
    <3>2. Invitation(handlers[h].user, "PENDING") \in InvitationRows
      BY <3>1 DEF CreateInvitation, IInv, TypeOK, CallTyped, Invitation, InvitationRows
    <3> QED BY <3>1, <3>2 DEF CreateInvitation, IInv, TypeOK
  <2>2. CASE Answer(h)
    <3>1. \A i \in Invites : invitation[i].status \in {"PENDING", "REJECTED"} =>
            Invitation(invitation[i].user, "REJECTED") \in InvitationRows
      BY DEF IInv, TypeOK, InvitationRows, Invitation, Absent
    <3> QED BY <2>2, <3>1 DEF Answer, IInv, TypeOK
  <2> QED BY <2>1, <2>2
<1>3. TypeOK' /\ CallsOK'
  BY <1>1, <1>2, EndsTyped DEF IInv, TypeOK
<1>4. OneOwner'
  BY <1>1 DEF IInv, OneOwner, Owners
<1> QED BY <1>3, <1>4 DEF IInv

LEMMA NextKeeps == IInv /\ [Next]_vars => IInv'
<1> SUFFICES ASSUME IInv, [Next]_vars PROVE IInv'
  OBVIOUS
<1>1. CASE UNCHANGED vars
  BY <1>1 DEF vars, IInv, TypeOK, CallTyped, CallsOK, CallOK, OneOwner, Owners
<1>2. CASE Next
  <2>1. PICK h \in Handlers :
          \/ ChangeOwner(h) \/ ChangeMember(h) \/ RemoveMember(h) \/ AddMember(h)
          \/ Delete(h) \/ Invitations(h) \/ RequestFails(h)
    BY <1>2 DEF Next
  <2> USE Constants
  <2>2. "member" \in Roles /\ "active" \in Statuses
    BY DEF Roles, Statuses
  <2>3. CASE ChangeOwner(h)
    BY <2>2, <2>3, BeginsKeep, ReadsKeep, LockTeamKeeps, CommitTransferKeeps,
       TransferFailsKeeps DEF ChangeOwner
  <2>4. CASE ChangeMember(h)
    BY <2>2, <2>4, BeginsKeep, ReadsKeep, StoreRowKeeps DEF ChangeMember
  <2>5. CASE RemoveMember(h)
    BY <2>2, <2>5, BeginsKeep, ReadsKeep, DestroyKeeps DEF RemoveMember
  <2>6. CASE AddMember(h)
    BY <2>2, <2>6, BeginsKeep, ReadsKeep, CreateMemberKeeps DEF AddMember
  <2>7. CASE Delete(h)
    BY <2>2, <2>7, BeginsKeep, DeleteTeamKeeps DEF Delete
  <2>8. CASE Invitations(h)
    BY <2>2, <2>8, BeginsKeep, StartAnswerKeeps, InvitationsKeep DEF Invitations
  <2>9. CASE RequestFails(h)
    BY <2>9, FinishStep DEF RequestFails, IInv, TypeOK, Stales
  <2> QED BY <2>1, <2>3, <2>4, <2>5, <2>6, <2>7, <2>8, <2>9
<1> QED BY <1>1, <1>2

(* The strengthening holds throughout: what each request relies on when it writes. *)
THEOREM IInvariant == Spec => []IInv
<1>1. Init => IInv
  BY InitIInv
<1> QED BY <1>1, NextKeeps, PTL DEF Spec

(* The variables keep their types whatever the number of requests, and the lock on the
   team's row is held by a transfer only. *)
THEOREM TypeCorrect == Spec => []TypeOK
<1>1. IInv => TypeOK
  BY DEF IInv
<1> QED BY <1>1, IInvariant, PTL

(* However many requests interleave, the team has one owner and the team's column names
   it, until a repository overwrites a row it had not read. *)
THEOREM ExactlyOneOwner == Spec => []OneOwner
<1>1. IInv => OneOwner
  BY DEF IInv
<1> QED BY <1>1, IInvariant, PTL

-----------------------------------------------------------------------------
(* What has been judged.  As long as nothing was judged by a row that changed since, a
   request that is about to write holds a row that allows what it writes. *)
Judged(row, role, status) ==
  \/ role = Same /\ status \in {"active", "rejected", "left"} /\ MayBecome(row, status)
  \/ status = Same /\ IsActive(row) /\ row.role # "owner"
  \/ status = "invited" /\ row.status \in {"left", "rejected"}

CallJudged(r) ==
  /\ r.pc = "judge_role" => r.status = Same /\ IsActive(r.row)
  /\ r.pc = "load" => Judged(r.row, r.role, r.status)
  /\ r.pc = "store" => r.row = Gone \/ Judged(r.row, r.role, r.status)
  /\ r.pc \in {"find_known", "create"} => r.status = "invited"

CallsJudged == stale = "nothing" => \A h \in Handlers : CallJudged(handlers[h])

JInv == CallsJudged /\ OwnerIsActive

NobodyDrafted ==
  \A u \in Users :
    ~IsActive(member[u]) /\ IsActive(member'[u]) /\ stale' = "nothing" =>
      member'[u].role = "owner" \/ member[u].status = "invited"

Unjudged == HandlerPcs \ {"judge_role", "load", "store", "find_known", "create"}

LEMMA InitJInv == Init => JInv
BY DEF Init, JInv, CallsJudged, CallJudged, OwnerIsActive, Idle, Call

LEMMA StaleStays == ASSUME IInv, [Next]_vars PROVE stale' = "nothing" => stale = "nothing"
<1>1. CASE UNCHANGED vars
  BY <1>1 DEF vars
<1>2. CASE Next
  BY <1>2 DEF Next, ChangeOwner, ChangeMember, RemoveMember, AddMember, Delete, Invitations,
     StartTransfer, JudgeTransfer, ReadTeam, LockTeam, FindHeir, CommitTransfer, TransferFails,
     StartRoleChange, StartStatusChange, JudgeRoleChange, LoadRow, StoreRow, StartRemoval,
     JudgeRemoval, FindRemoved, Destroy, StartAddition, FindKnown, CreateMember, StartDeletion,
     DeleteTeam, StartInvite, CreateInvitation, StartAnswer, Answer, RequestFails,
     NoteJudged, NoteWritten
<1> QED BY <1>1, <1>2

(* A step of one request that writes no membership. *)
LEMMA CallJudgedStep ==
  ASSUME IInv, JInv, NEW h \in Handlers, NEW c,
         stale' = "nothing" => stale = "nothing" /\ CallJudged(c),
         handlers' = [handlers EXCEPT ![h] = c], UNCHANGED <<owner, member>>
  PROVE  JInv' /\ NobodyDrafted
<1>1. \A g \in Handlers : handlers'[g] = IF g = h THEN c ELSE handlers[g]
  BY DEF IInv, TypeOK
<1>2. CallsJudged'
  BY <1>1 DEF JInv, CallsJudged, CallJudged
<1>3. OwnerIsActive'
  BY DEF JInv, OwnerIsActive
<1>4. NobodyDrafted
  BY DEF NobodyDrafted
<1> QED BY <1>2, <1>3, <1>4 DEF JInv

LEMMA IdleJudged == CallJudged(Idle)
BY DEF CallJudged, Idle, Call

LEMMA UnjudgedFine ==
  ASSUME NEW c, c.pc \in Unjudged PROVE CallJudged(c)
BY DEF CallJudged, Unjudged

LEMMA UnjudgedStep ==
  ASSUME IInv, JInv, NEW h \in Handlers, NEW c, c.pc \in Unjudged,
         stale' = "nothing" => stale = "nothing",
         handlers' = [handlers EXCEPT ![h] = c], UNCHANGED <<owner, member>>
  PROVE  JInv' /\ NobodyDrafted
BY UnjudgedFine, CallJudgedStep

LEMMA UnjudgedPcs ==
  {"idle", "judge_transfer", "read_team", "lock_team", "find_heir", "commit", "judge_removal",
   "find_removed", "destroy", "delete", "invite", "answer"} \subseteq Unjudged
BY DEF Unjudged, HandlerPcs

(* The requests that judge no row, or end. *)
LEMMA OtherRequestsKeep ==
  ASSUME IInv, JInv, NEW h \in Handlers, stale' = "nothing" => stale = "nothing",
         \/ \E u, v \in Users : StartTransfer(h, u, v) \/ StartRemoval(h, u, v)
         \/ \E u \in Users : StartDeletion(h, u) \/ StartInvite(h, u)
         \/ \E i \in Invites : CreateInvitation(h, i) \/ StartAnswer(h, i)
         \/ JudgeTransfer(h) \/ ReadTeam(h) \/ LockTeam(h) \/ FindHeir(h) \/ TransferFails(h)
         \/ JudgeRemoval(h) \/ FindRemoved(h) \/ Answer(h) \/ RequestFails(h)
  PROVE  JInv' /\ NobodyDrafted
<1>1. UNCHANGED <<owner, member>>
  BY DEF StartTransfer, JudgeTransfer, ReadTeam, LockTeam, FindHeir, TransferFails,
     StartRemoval, JudgeRemoval, FindRemoved, StartDeletion, StartInvite, CreateInvitation,
     StartAnswer, Answer, RequestFails
<1>2. \E c : c.pc \in Unjudged /\ handlers' = [handlers EXCEPT ![h] = c]
  <2>1. Idle.pc \in Unjudged
    BY UnjudgedPcs DEF Idle, Call
  <2>2. CASE \/ \E u, v \in Users : StartTransfer(h, u, v) \/ StartRemoval(h, u, v)
             \/ \E u \in Users : StartDeletion(h, u) \/ StartInvite(h, u)
             \/ \E i \in Invites : StartAnswer(h, i)
    BY <2>2, UnjudgedPcs DEF StartTransfer, StartRemoval, StartDeletion, StartInvite,
       StartAnswer, Begin, Request, Call
  <2>3. CASE JudgeTransfer(h) \/ ReadTeam(h) \/ LockTeam(h) \/ FindHeir(h) \/ JudgeRemoval(h)
             \/ FindRemoved(h)
    BY <2>1, <2>3, UnjudgedPcs DEF JudgeTransfer, ReadTeam, LockTeam, FindHeir, JudgeRemoval,
       FindRemoved, Goto, Continue, Finish, Call
  <2>4. CASE \/ \E i \in Invites : CreateInvitation(h, i)
             \/ TransferFails(h) \/ Answer(h) \/ RequestFails(h)
    BY <2>1, <2>4 DEF TransferFails, CreateInvitation, Answer, RequestFails, Finish
  <2> QED BY <2>2, <2>3, <2>4
<1> QED BY <1>1, <1>2, UnjudgedStep

(* The requests that judge a row, and what they know by it. *)
LEMMA JudgesStart ==
  ASSUME IInv, JInv, NEW h \in Handlers, NEW u \in Users, NEW v \in Users,
         NEW role \in Roles, NEW status \in Statuses,
         stale' = "nothing" => stale = "nothing",
         \/ StartRoleChange(h, u, v, role) \/ StartStatusChange(h, u, status)
         \/ StartAddition(h, u, v, role)
  PROVE  JInv' /\ NobodyDrafted
<1>1. CASE StartRoleChange(h, u, v, role)
  <2> DEFINE c == Request("judge_role", u, v, member[v], role, Same)
  <2>1. /\ handlers' = [handlers EXCEPT ![h] = c] /\ UNCHANGED <<owner, member>>
        /\ IsActive(member[v])
    BY <1>1 DEF StartRoleChange, Begin
  <2>2. CallJudged(c)
    BY <2>1 DEF CallJudged, Request, Call
  <2> HIDE DEF c
  <2> QED BY <2>1, <2>2, CallJudgedStep
<1>2. CASE StartStatusChange(h, u, status)
  <2> DEFINE c == Request("load", NoUser, u, member[u], Same, status)
  <2>1. /\ handlers' = [handlers EXCEPT ![h] = c] /\ UNCHANGED <<owner, member>>
        /\ status \in {"active", "rejected", "left"} /\ MayBecome(member[u], status)
    BY <1>2 DEF StartStatusChange, Begin
  <2>2. CallJudged(c)
    BY <2>1 DEF CallJudged, Judged, Request, Call
  <2> HIDE DEF c
  <2> QED BY <2>1, <2>2, CallJudgedStep
<1>3. CASE StartAddition(h, u, v, role)
  <2> DEFINE c == Request("find_known", NoUser, v, NoRow, role, "invited")
  <2>1. handlers' = [handlers EXCEPT ![h] = c] /\ UNCHANGED <<owner, member>>
    BY <1>3 DEF StartAddition, Begin
  <2>2. CallJudged(c)
    BY DEF CallJudged, Request, Call
  <2> HIDE DEF c
  <2> QED BY <2>1, <2>2, CallJudgedStep
<1> QED BY <1>1, <1>2, <1>3

LEMMA JudgesKeep ==
  ASSUME IInv, JInv, NEW h \in Handlers, stale' = "nothing" => stale = "nothing",
         JudgeRoleChange(h) \/ LoadRow(h) \/ FindKnown(h)
  PROVE  JInv' /\ NobodyDrafted
<1> DEFINE r == handlers[h]
<1>1. /\ r.user \in Users \cup {NoUser} /\ (r.pc # "idle" => r.user \in Users)
      /\ stale = "nothing" => CallJudged(r)
  BY DEF IInv, TypeOK, CallTyped, JInv, CallsJudged
<1>2. CASE JudgeRoleChange(h)
  <2> DEFINE c == Call("load", NoUser, r.user, r.row, r.role, r.status, r.held, r.invite)
  <2>1. UNCHANGED <<owner, member>> /\ r.pc = "judge_role"
    BY <1>2 DEF JudgeRoleChange
  <2>2. \/ handlers' = [handlers EXCEPT ![h] = Idle]
        \/ handlers' = [handlers EXCEPT ![h] = c] /\ r.row.role # "owner"
    BY <1>2 DEF JudgeRoleChange, Goto, Continue, Finish
  <2>3. stale = "nothing" /\ r.row.role # "owner" => CallJudged(c)
    BY <1>1, <2>1 DEF CallJudged, Judged, Call
  <2> HIDE DEF c
  <2> QED BY <2>1, <2>2, <2>3, IdleJudged, CallJudgedStep
<1>3. CASE LoadRow(h)
  <2> DEFINE c == Call("store", NoUser, r.user, member[r.user], r.role, r.status, NoTeam, NoInvite)
  <2>1. /\ UNCHANGED <<owner, member>> /\ r.pc = "load"
        /\ stale' = IF stale = "nothing" /\ r.row # member[r.user] THEN "judged" ELSE stale
    BY <1>3 DEF LoadRow, NoteJudged
  <2>2. handlers' = [handlers EXCEPT ![h] = Idle] \/ handlers' = [handlers EXCEPT ![h] = c]
    BY <1>3 DEF LoadRow, Continue, Finish
  <2>3. stale' = "nothing" => CallJudged(c)
    BY <1>1, <2>1 DEF CallJudged, Call
  <2> HIDE DEF c
  <2> QED BY <2>1, <2>2, <2>3, IdleJudged, CallJudgedStep
<1>4. CASE FindKnown(h)
  <2> DEFINE row == member[r.user]
             c == Call("create", NoUser, r.user, r.row, r.role, r.status, r.held, r.invite)
             d == Call("load", NoUser, r.user, row, r.role, r.status, NoTeam, NoInvite)
  <2>1. UNCHANGED <<owner, member, stale>> /\ r.pc = "find_known"
    BY <1>4 DEF FindKnown
  <2>2. \/ handlers' = [handlers EXCEPT ![h] = Idle]
        \/ handlers' = [handlers EXCEPT ![h] = c]
        \/ handlers' = [handlers EXCEPT ![h] = d] /\ row.status \in {"left", "rejected"}
    BY <1>4 DEF FindKnown, Goto, Continue, Finish
  <2>3. stale = "nothing" =>
          CallJudged(c) /\ (row.status \in {"left", "rejected"} => CallJudged(d))
    BY <1>1, <2>1 DEF CallJudged, Judged, Call
  <2> HIDE DEF c, d
  <2> QED BY <2>1, <2>2, <2>3, IdleJudged, CallJudgedStep
<1> QED BY <1>2, <1>3, <1>4

\* the calls of the others after a write: as they were, or with a row that is gone
LEMMA OthersJudged ==
  ASSUME IInv, JInv, NEW h \in Handlers, stale' = "nothing" => stale = "nothing",
         Finish(h) \/ \E users : FinishAndForget(h, users)
  PROVE  CallsJudged'
<1>1. \A g \in Handlers :
        \/ handlers'[g] = Idle \/ handlers'[g] = handlers[g]
        \/ LET r == handlers[g] IN
           handlers'[g] = Call(r.pc, r.by, r.user, Gone, r.role, r.status, r.held, r.invite)
             /\ r.pc \in {"store", "destroy", "commit"}
  BY DEF Finish, FinishAndForget, IInv, TypeOK
<1>2. ASSUME stale' = "nothing", NEW g \in Handlers PROVE CallJudged(handlers'[g])
  <2>1. CallJudged(handlers[g])
    BY <1>2 DEF JInv, CallsJudged
  <2>2. CASE handlers'[g] = Idle \/ handlers'[g] = handlers[g]
    BY <2>1, <2>2, IdleJudged
  <2>3. CASE ~(handlers'[g] = Idle \/ handlers'[g] = handlers[g])
    <3> DEFINE r == handlers[g]
               c == Call(r.pc, r.by, r.user, Gone, r.role, r.status, r.held, r.invite)
    <3>1. handlers'[g] = c /\ c.pc \in {"store", "destroy", "commit"} /\ c.row = Gone
      BY <1>1, <2>3 DEF Call
    <3>2. CallJudged(c)
      BY <3>1 DEF CallJudged
    <3> QED BY <3>1, <3>2
  <2> QED BY <2>2, <2>3
<1> QED BY <1>2 DEF CallsJudged, CallJudged

LEMMA CommitIsJudged ==
  ASSUME IInv, JInv, NEW h \in Handlers, CommitTransfer(h),
         stale' = "nothing" => stale = "nothing"
  PROVE  JInv' /\ NobodyDrafted
<1> DEFINE r == handlers[h]
<1>1. CallsJudged'
  BY OthersJudged DEF CommitTransfer
<1>. SUFFICES ASSUME stale' = "nothing" PROVE OwnerIsActive' /\ NobodyDrafted
  BY <1>1 DEF JInv, OwnerIsActive, NobodyDrafted
<1>2. /\ r.row = member[r.user] /\ r.held = owner /\ owner \in Users /\ r.user \in Users
      /\ (teamLock = h) = (r.held # r.user)
      /\ owner' = IF teamLock = h THEN r.user ELSE owner
      /\ \A u \in Users : member[u] \in Rows \cup {NoRow}
  BY DEF CommitTransfer, NoteWritten, IInv, TypeOK, CallsOK, CallTyped, CallOK
<1>3. member[owner] = Row("owner", "active") /\ r.row # Gone
  BY <1>2, RowsAreTyped, NullsAreNotValues DEF JInv, OwnerIsActive
<1>4. HeirRow(r) = Row("owner", "active")
  <2>1. CASE r.user = owner
    <3>1. r.row # NoRow /\ r.row.role = "owner" /\ r.held = r.user
      BY <1>2, <1>3, <2>1, RowsAreTyped DEF Row
    <3> QED BY <1>2, <1>3, <2>1, <3>1 DEF HeirRow
  <2>2. CASE r.user # owner /\ r.row # NoRow
    <3>1. HeirRow(r) = Written(r.row, r.row, "owner", "active")
      BY <1>2, <1>3, <2>2 DEF HeirRow
    <3>2. Written(r.row, r.row, "owner", "active")
            = Row(IF "owner" = r.row.role THEN r.row.role ELSE "owner",
                  IF "active" = r.row.status THEN r.row.status ELSE "active")
      BY DEF Written, Same
    <3> QED BY <3>1, <3>2
  <2>3. CASE r.row = NoRow
    BY <2>3 DEF HeirRow
  <2> QED BY <2>1, <2>2, <2>3
<1>5. \A u \in Users : member'[u] =
        IF u = r.user THEN Row("owner", "active")
        ELSE IF u = r.held /\ member[u] # NoRow THEN Row("admin", member[u].status)
        ELSE member[u]
  BY <1>4 DEF CommitTransfer
<1>6. OwnerIsActive'
  BY <1>2, <1>5 DEF OwnerIsActive
<1>7. NobodyDrafted
  <2>1. \A status : Row("owner", status).role = "owner" /\ Row("admin", status).status = status
    BY DEF Row
  <2> QED BY <1>5, <2>1 DEF NobodyDrafted, IsActive
<1> QED BY <1>6, <1>7

LEMMA StoreIsJudged ==
  ASSUME IInv, JInv, NEW h \in Handlers, StoreRow(h), stale' = "nothing" => stale = "nothing"
  PROVE  JInv' /\ NobodyDrafted
<1> DEFINE r == handlers[h]
           current == member[r.user]
<1>1. CallsJudged'
  BY OthersJudged DEF StoreRow
<1>2. CASE r.row = Gone \/ current = NoRow
  BY <1>1, <1>2 DEF StoreRow, JInv, OwnerIsActive, NobodyDrafted
<1>3. CASE ~(r.row = Gone \/ current = NoRow)
  <2>. SUFFICES ASSUME stale' = "nothing" PROVE OwnerIsActive' /\ NobodyDrafted
    BY <1>1 DEF JInv, OwnerIsActive, NobodyDrafted
  <2>1. /\ r.row = current /\ r.user \in Users /\ owner' = owner
        /\ member' = [member EXCEPT ![r.user] = Written(current, current, r.role, r.status)]
        /\ Judged(current, r.role, r.status)
        /\ r.role = Same \/ current.role # "owner"
    BY <1>3 DEF StoreRow, NoteWritten, IInv, TypeOK, CallTyped, CallsOK, CallOK,
       JInv, CallsJudged, CallJudged
  <2>2. \A u \in Users : member'[u] =
          IF u = r.user THEN Written(current, current, r.role, r.status) ELSE member[u]
    BY <2>1 DEF IInv, TypeOK
  <2>3. /\ current = Row("owner", "active") =>
             Written(current, current, r.role, r.status) = Row("owner", "active")
        /\ ~IsActive(current) /\ IsActive(Written(current, current, r.role, r.status)) =>
             current.status = "invited"
    BY <2>1 DEF Judged, MayBecome, IsActive, Written, Row, Same
  <2>4. OwnerIsActive'
    BY <2>1, <2>2, <2>3 DEF JInv, OwnerIsActive, IInv, TypeOK
  <2>5. NobodyDrafted
    BY <2>2, <2>3 DEF NobodyDrafted
  <2> QED BY <2>4, <2>5
<1> QED BY <1>2, <1>3

LEMMA RemovalsAreJudged ==
  ASSUME IInv, JInv, NEW h \in Handlers, Destroy(h) \/ DeleteTeam(h),
         stale' = "nothing" => stale = "nothing"
  PROVE  JInv' /\ NobodyDrafted
<1> DEFINE r == handlers[h]
<1>1. CallsJudged'
  BY OthersJudged DEF Destroy, DeleteTeam
<1>2. NoRow.status # "active"
  BY DEF NoRow, Row
<1>3. CASE Destroy(h)
  <2>1. /\ r.user \in Users /\ owner' = owner
        /\ r.row # Gone => r.row.role # "owner"
        /\ \A u \in Users : member'[u] = IF r.row # Gone /\ u = r.user THEN NoRow ELSE member[u]
        /\ stale' = "nothing" /\ r.row # Gone => r.row = member[r.user]
    BY <1>3 DEF Destroy, NoteWritten, IInv, TypeOK, CallTyped, CallsOK, CallOK
  <2>2. Row("owner", "active").role = "owner"
    BY DEF Row
  <2>3. OwnerIsActive'
    BY <2>1, <2>2 DEF JInv, OwnerIsActive, IInv, TypeOK
  <2>4. NobodyDrafted
    BY <1>2, <2>1 DEF NobodyDrafted, IsActive
  <2> QED BY <1>1, <2>3, <2>4 DEF JInv
<1>4. CASE DeleteTeam(h)
  BY <1>1, <1>2, <1>4 DEF DeleteTeam, JInv, OwnerIsActive, NobodyDrafted, IsActive
<1> QED BY <1>3, <1>4

LEMMA CreationIsJudged ==
  ASSUME IInv, JInv, NEW h \in Handlers, CreateMember(h), stale' = "nothing" => stale = "nothing"
  PROVE  JInv' /\ NobodyDrafted
<1> DEFINE r == handlers[h]
<1>1. CallsJudged'
  BY OthersJudged DEF CreateMember
<1>2. /\ r.user \in Users /\ owner' = owner /\ member[r.user] = NoRow
      /\ \A u \in Users : member'[u] = IF u = r.user THEN Row(r.role, r.status) ELSE member[u]
      /\ stale' = "nothing" => r.status = "invited"
  BY DEF CreateMember, IInv, TypeOK, CallTyped, JInv, CallsJudged, CallJudged
<1>3. OwnerIsActive'
  BY <1>2 DEF JInv, OwnerIsActive, IInv, TypeOK, NoRow, Row
<1>4. NobodyDrafted
  BY <1>2 DEF NobodyDrafted, IsActive, Row
<1> QED BY <1>1, <1>3, <1>4 DEF JInv

LEMMA NextJudges == ASSUME IInv, JInv, [Next]_vars PROVE JInv' /\ NobodyDrafted
<1>1. stale' = "nothing" => stale = "nothing"
  BY StaleStays
<1>2. CASE UNCHANGED vars
  BY <1>2 DEF vars, JInv, CallsJudged, CallJudged, OwnerIsActive, NobodyDrafted
<1>3. CASE Next
  <2>1. PICK h \in Handlers :
          \/ ChangeOwner(h) \/ ChangeMember(h) \/ RemoveMember(h) \/ AddMember(h)
          \/ Delete(h) \/ Invitations(h) \/ RequestFails(h)
    BY <1>3 DEF Next
  <2> USE Constants
  <2>0. "member" \in Roles
    BY DEF Roles
  <2>2. CASE ChangeOwner(h)
    BY <1>1, <2>2, OtherRequestsKeep, CommitIsJudged DEF ChangeOwner
  <2>3. CASE ChangeMember(h)
    BY <1>1, <2>0, <2>3, JudgesStart, JudgesKeep, StoreIsJudged DEF ChangeMember
  <2>4. CASE RemoveMember(h)
    BY <1>1, <2>4, OtherRequestsKeep, RemovalsAreJudged DEF RemoveMember
  <2>5. CASE AddMember(h)
    BY <1>1, <2>0, <2>5, JudgesStart, JudgesKeep, CreationIsJudged DEF AddMember
  <2>6. CASE Delete(h)
    BY <1>1, <2>6, OtherRequestsKeep, RemovalsAreJudged DEF Delete
  <2>7. CASE Invitations(h) \/ RequestFails(h)
    BY <1>1, <2>7, OtherRequestsKeep DEF Invitations
  <2> QED BY <2>1, <2>2, <2>3, <2>4, <2>5, <2>6, <2>7
<1> QED BY <1>2, <1>3

(* What a request was judged by holds when it writes, or the history says that it was not. *)
THEOREM JudgedInvariant == Spec => [](IInv /\ JInv)
<1>1. Init => IInv /\ JInv
  BY InitIInv, InitJInv
<1>2. IInv /\ JInv /\ [Next]_vars => (IInv /\ JInv)'
  BY NextKeeps, NextJudges
<1> QED BY <1>1, <1>2, PTL DEF Spec

(* As long as no request was judged by a row that changed before it was written, the owner
   is an active member, although no repository looks at the role when a status changes. *)
THEOREM OwnerStaysActive == Spec => []OwnerIsActive
<1>1. JInv => OwnerIsActive
  BY DEF JInv
<1> QED BY <1>1, JudgedInvariant, PTL

(* As long as that holds, nobody becomes an active member but as the heir of the team or
   from the status "invited": neither after declining nor after leaving. *)
THEOREM NobodyJoinsUninvited == Spec => NobodyIsDraftedIn
<1>1. IInv /\ JInv /\ [Next]_vars => [NobodyDrafted]_vars
  BY NextJudges
<1>2. NobodyDrafted <=> \A u \in Users :
       ~IsActive(member[u]) /\ IsActive(member'[u]) /\ stale' = "nothing" =>
         member'[u].role = "owner" \/ member[u].status = "invited"
  BY DEF NobodyDrafted
<1> QED BY <1>1, <1>2, JudgedInvariant, PTL DEF Spec, NobodyIsDraftedIn

=============================================================================
