---------------------------- MODULE UserAccounts ----------------------------
(***************************************************************************)
(* The rows of Users: e-mail address, roles, e-mail verification and the   *)
(* one refresh token (src/application/use-cases/auth, admin/assign-role,   *)
(* admin/remove-role, user/admin-update-user, user/admin-delete-user and   *)
(* the repository postgres.user).                                          *)
(*                                                                         *)
(* A use case reads a row, works on that copy and writes the columns it    *)
(* has changed, without a transaction: an array of roles is one column.    *)
(* An action is the code from one access to the database, the mail         *)
(* service or the password hash to the next.  A user name is checked and   *)
(* constrained as the address is, and is left out.                         *)
(***************************************************************************)
EXTENDS Integers, FiniteSets

CONSTANTS
  Users, Emails,
  Roles, Player,   \* UserRoles, and UserRoles.PLAYER
  Requests,        \* requests that may arrive, each at any time
  NoUser, NoEmail, NoRole,  \* null
  MaxTokens,       \* bound on the verification tokens made
  MaxTime          \* bound on the seconds that pass

ASSUME PlayerIsRole == Player \in Roles
ASSUME NullsAreNotValues ==
  NoUser \notin Users /\ NoEmail \notin Emails /\ NoRole \notin Roles
ASSUME BoundsAreNatural == MaxTokens \in Nat /\ MaxTime \in Nat

VARIABLES
  user,      \* the row of each user, or Deleted
  time,      \* the second that JSON Web Tokens are stamped with
  made,      \* how many verification tokens have been generated
  mailed,    \* verification tokens that reached their reader
  sessions,  \* refresh tokens that clients hold: <<user, second>>
  access,    \* access tokens that clients hold: <<user, roles>>
  requests,  \* local state of each request
  due,       \* history: each user's roles, had every change been applied to the last one's result
  was,       \* history: <<user, roles, verified>>, everything rows have said
  stale      \* history: <<user, columns>> that were written from a copy that was out of date

vars == <<user, time, made, mailed, sessions, access, requests, due, was, stale>>

-----------------------------------------------------------------------------
None == 0      \* no token
Never == -1    \* no login

Row(email, roles, verified, token, refresh) ==
  [email |-> email, roles |-> roles, verified |-> verified, token |-> token,
   refresh |-> refresh]

\* an entity has at least one role
RoleSets == SUBSET Roles \ {{}}

Deleted == Row(NoEmail, {}, FALSE, None, Never)

Exists(u) == user[u] # Deleted

(* copy: the row as the request read it; role, email, verify, token: what it is to change
   or to write; second: the stamp of the refresh token it is to store. *)
Call(pc, u, copy, role, email, verify, token, second) ==
  [pc |-> pc, user |-> u, copy |-> copy, role |-> role, email |-> email,
   verify |-> verify, token |-> token, second |-> second]

Idle == Call("idle", NoUser, Deleted, NoRole, NoEmail, FALSE, None, Never)

Done == Call("done", NoUser, Deleted, NoRole, NoEmail, FALSE, None, Never)

Begin(h, call) == requests[h] = Idle /\ requests' = [requests EXCEPT ![h] = call]

Continue(h, call) == requests' = [requests EXCEPT ![h] = call]

Goto(h, pc) ==
  LET r == requests[h] IN
  Continue(h, Call(pc, r.user, r.copy, r.role, r.email, r.verify, r.token, r.second))

Finish(h) == requests' = [requests EXCEPT ![h] = Done]

Reading(pc, u) == Call(pc, u, user[u], NoRole, NoEmail, FALSE, None, Never)

Unwritten == UNCHANGED <<user, due, was, stale>>
Tokens == <<time, made, mailed, sessions, access>>

\* PostgresUserRepository.update: of a row that is gone it writes nothing
Write(u, row) ==
  IF Exists(u)
    THEN /\ user' = [user EXCEPT ![u] = row]
         /\ was' = was \union {<<u, row.roles, row.verified>>}
    ELSE UNCHANGED <<user, was>>

NoteStale(u, columns, outOfDate) ==
  stale' = IF outOfDate /\ Exists(u) THEN stale \union {<<u, columns>>} ELSE stale

\* users whose rows exist: register-user throws before its first write (the entity refuses
\* the roles "User"), so that none is ever added
Init ==
  /\ \E email \in [Users -> Emails], roles \in [Users -> RoleSets],
       verified \in [Users -> BOOLEAN] :
       /\ \A u, v \in Users : email[u] = email[v] => u = v
       /\ user = [u \in Users |-> Row(email[u], roles[u], verified[u], None, Never)]
  /\ time = 0
  /\ made = 0
  /\ mailed = {}
  /\ sessions = {}
  /\ access = {}
  /\ requests = [h \in Requests |-> Idle]
  /\ due = [u \in Users |-> user[u].roles]
  /\ was = {<<u, user[u].roles, user[u].verified>> : u \in Users}
  /\ stale = {}

-----------------------------------------------------------------------------
(* LoginUseCase and RefreshTokenUseCase *)

StartLogin(h, u) ==
  /\ Exists(u)
  /\ Begin(h, Reading("compare", u))
  /\ UNCHANGED Tokens /\ Unwritten

\* mutant: whoever knows the password is let in
SignForAnybody(h) ==
  LET r == requests[h] IN
  /\ r.pc = "compare"
  /\ Continue(h, Call("store_session", r.user, r.copy, NoRole, NoEmail, FALSE, None, time))
  /\ UNCHANGED Tokens /\ Unwritten

\* the password is right; the user is judged as read before it was compared
SignTokens(h) ==
  LET r == requests[h] IN
  /\ r.pc = "compare"
  /\ IF r.copy.verified
       THEN Continue(h, Call("store_session", r.user, r.copy, NoRole, NoEmail, FALSE,
                             None, time))
       ELSE Finish(h)
  /\ UNCHANGED Tokens /\ Unwritten

StoreSession(h) ==
  LET r == requests[h]
      now == user[r.user] IN
  /\ r.pc = "store_session"
  /\ Write(r.user, Row(now.email, now.roles, now.verified, now.token, r.second))
  /\ sessions' = sessions \union {<<r.user, r.second>>}
  /\ access' = access \union {<<r.user, r.copy.roles>>}
  /\ Finish(h)
  /\ UNCHANGED <<time, made, mailed, due, stale>>

\* neither the row's verification nor anything but the stored token is looked at
RefreshAccess(u, second) ==
  /\ <<u, second>> \in sessions
  /\ Exists(u) /\ user[u].refresh = second
  /\ access' = access \union {<<u, user[u].roles>>}
  /\ UNCHANGED <<time, made, mailed, sessions, requests>> /\ Unwritten

\* LogoutUseCase hands the entity to update as its id: the query fails, the token stays
StartLogout(h, u) ==
  /\ Exists(u)
  /\ Begin(h, Reading("log_out", u))
  /\ UNCHANGED Tokens /\ Unwritten

-----------------------------------------------------------------------------
(* SendVerificationEmailUseCase and VerifyEmailUseCase *)

StartMail(h, u) ==
  /\ Exists(u) /\ ~user[u].verified
  /\ made < MaxTokens
  /\ made' = made + 1
  /\ Begin(h, Call("store_token", u, user[u], NoRole, NoEmail, FALSE, made', Never))
  /\ UNCHANGED <<time, mailed, sessions, access>> /\ Unwritten

\* of what User.generateNewVerificationToken changes the token is written, not isVerified
WithToken(row, token) == Row(row.email, row.roles, row.verified, token, row.refresh)

StoreToken(h) ==
  LET r == requests[h]
      now == user[r.user] IN
  /\ r.pc = "store_token"
  /\ Write(r.user, WithToken(now, r.token))
  /\ NoteStale(r.user, "verification", now.verified # r.copy.verified)
  /\ Goto(h, "mail")
  /\ UNCHANGED <<due>> /\ UNCHANGED Tokens

SendMail(h) ==
  LET r == requests[h] IN
  /\ r.pc = "mail"
  /\ mailed' = mailed \union {r.token}
  /\ Finish(h)
  /\ UNCHANGED <<time, made, sessions, access>> /\ Unwritten

StartVerification(h, u, token) ==
  /\ token \in mailed
  /\ Exists(u) /\ user[u].token = token /\ ~user[u].verified
  /\ Begin(h, Reading("confirm", u))
  /\ UNCHANGED Tokens /\ Unwritten

\* what User.verifyEmail changes is written over the row as it is now
Verified(row) == Row(row.email, row.roles, TRUE, None, row.refresh)

Confirm(h) ==
  LET r == requests[h]
      now == user[r.user] IN
  /\ r.pc = "confirm"
  /\ Write(r.user, Verified(now))
  /\ NoteStale(r.user, "verification", now.token # r.copy.token)
  /\ Finish(h)
  /\ UNCHANGED <<due>> /\ UNCHANGED Tokens

-----------------------------------------------------------------------------
(* AdminUpdateUserUseCase and AdminDeleteUserUseCase *)

\* a new address, a new verification or both; asked for what the row says already, it
\* returns.  A request to change the role fails: the entity has no updateRole.
StartUpdate(h, u, email, verify) ==
  /\ Exists(u)
  /\ email # user[u].email \/ verify # user[u].verified
  /\ Begin(h, Call(IF email # user[u].email THEN "check_email" ELSE "store_update",
                   u, user[u], NoRole, email, verify, None, Never))
  /\ UNCHANGED Tokens /\ Unwritten

IsTaken(email, u) == \E v \in Users \ {u} : user[v].email = email

\* the unique constraint on the column
Violated(email, u) == IsTaken(email, u)

CheckEmail(h) ==
  LET r == requests[h] IN
  /\ r.pc = "check_email"
  /\ IF IsTaken(r.email, r.user) THEN Finish(h) ELSE Goto(h, "store_update")
  /\ UNCHANGED Tokens /\ Unwritten

\* mutant: the whole entity is written, as it was read
UpdatedEntity(now, copy, email, verify) ==
  Row(email, copy.roles, verify,
      IF verify /\ ~copy.verified THEN None ELSE copy.token, now.refresh)

\* mutant: the pending token is forgotten
UpdatedOnly(now, copy, email, verify) ==
  Row(IF email = copy.email THEN now.email ELSE email,
      now.roles,
      IF verify = copy.verified THEN now.verified ELSE verify,
      now.token, now.refresh)

\* what the copy said is not written; verifying clears the token that the copy had
Updated(now, copy, email, verify) ==
  Row(IF email = copy.email THEN now.email ELSE email,
      now.roles,
      IF verify = copy.verified THEN now.verified ELSE verify,
      IF verify /\ ~copy.verified /\ copy.token # None THEN None ELSE now.token,
      now.refresh)

StoreUpdate(h) ==
  LET r == requests[h]
      now == user[r.user]
      row == Updated(now, r.copy, r.email, r.verify) IN
  /\ r.pc = "store_update"
  /\ IF Violated(row.email, r.user)
       THEN UNCHANGED <<user, was, stale>>
       ELSE /\ Write(r.user, row)
            /\ NoteStale(r.user, "verification", now.token # r.copy.token
                                                   \/ now.verified # r.copy.verified)
  /\ Finish(h)
  /\ UNCHANGED <<due>> /\ UNCHANGED Tokens

\* an administrator deletes somebody else
StartDeletion(h, u) ==
  /\ Exists(u)
  /\ \E by \in Users \ {u} : Exists(by)
  /\ Begin(h, Reading("destroy", u))
  /\ UNCHANGED Tokens /\ Unwritten

Destroy(h) ==
  LET r == requests[h] IN
  /\ r.pc = "destroy"
  /\ user' = [user EXCEPT ![r.user] = Deleted]
  /\ Finish(h)
  /\ UNCHANGED <<due, was, stale>> /\ UNCHANGED Tokens

-----------------------------------------------------------------------------
(* AssignRoleUseCase and RemoveRoleUseCase *)

StartAssignment(h, u, role) ==
  /\ Exists(u) /\ role \notin user[u].roles
  /\ Begin(h, Call("assign", u, user[u], role, NoEmail, FALSE, None, Never))
  /\ UNCHANGED Tokens /\ Unwritten

StartRevocation(h, u, role) ==
  /\ Exists(u) /\ role \in user[u].roles
  /\ user[u].roles # {Player}
  /\ Begin(h, Call("remove", u, user[u], role, NoEmail, FALSE, None, Never))
  /\ UNCHANGED Tokens /\ Unwritten

\* User.removeRole: whoever would be left without any role is a player
Without(roles, role) == IF roles = {role} THEN {Player} ELSE roles \ {role}

\* the whole array is written, as the copy's became
StoreRoles(h, ofCopy, ofDue) ==
  LET r == requests[h]
      now == user[r.user] IN
  /\ Write(r.user, Row(now.email, ofCopy, now.verified, now.token, now.refresh))
  /\ due' = IF Exists(r.user) THEN [due EXCEPT ![r.user] = ofDue] ELSE due
  /\ NoteStale(r.user, "roles", now.roles # r.copy.roles)
  /\ Finish(h)
  /\ UNCHANGED Tokens

Assign(h) ==
  LET r == requests[h] IN
  /\ r.pc = "assign"
  /\ StoreRoles(h, r.copy.roles \union {r.role}, due[r.user] \union {r.role})

Revoke(h) ==
  LET r == requests[h] IN
  /\ r.pc = "remove"
  /\ StoreRoles(h, Without(r.copy.roles, r.role), Without(due[r.user], r.role))

-----------------------------------------------------------------------------
Tick ==
  /\ time < MaxTime
  /\ time' = time + 1
  /\ UNCHANGED <<made, mailed, sessions, access, requests>> /\ Unwritten

\* the database, the mail service or the process: what was written stays
RequestFails(h) ==
  /\ requests[h] \notin {Idle, Done}
  /\ Finish(h)
  /\ UNCHANGED Tokens /\ Unwritten

Next ==
  \/ \E h \in Requests, u \in Users :
       \/ StartLogin(h, u) \/ StartLogout(h, u) \/ StartMail(h, u) \/ StartDeletion(h, u)
       \/ \E t \in mailed : StartVerification(h, u, t)
       \/ \E e \in Emails, v \in BOOLEAN : StartUpdate(h, u, e, v)
       \/ \E r \in Roles : StartAssignment(h, u, r) \/ StartRevocation(h, u, r)
  \/ \E h \in Requests :
       \/ SignTokens(h) \/ StoreSession(h)
       \/ StoreToken(h) \/ SendMail(h) \/ Confirm(h)
       \/ CheckEmail(h) \/ StoreUpdate(h) \/ Destroy(h)
       \/ Assign(h) \/ Revoke(h)
       \/ RequestFails(h)
  \/ \E s \in sessions : RefreshAccess(s[1], s[2])
  \/ Tick

Spec == Init /\ [][Next]_vars

-----------------------------------------------------------------------------
(* Properties *)

(* A user has the roles that the assignments and removals one after the other leave, unless
   two of them overlapped: no login, verification or update writes an old array back. *)
RolesAsGranted ==
  \A u \in Users : Exists(u) /\ <<u, "roles">> \notin stale => user[u].roles = due[u]

(* No verification token is pending for a verified user, unless a mail, a verification and
   an admin's update overlapped. *)
NothingPendingOnceVerified ==
  \A u \in Users : user[u].verified /\ <<u, "verification">> \notin stale => user[u].token = None

(* Whoever holds an access token was verified at some time, and had at some time the roles
   that it claims: by login or by refresh, however late the answer. *)
AccessWasEarned ==
  \A a \in access :
    /\ \E w \in was : w[1] = a[1] /\ w[3]
    /\ \E w \in was : w[1] = a[1] /\ w[2] = a[2]
=============================================================================
