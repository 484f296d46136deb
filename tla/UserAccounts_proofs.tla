------------------------- MODULE UserAccounts_proofs -------------------------
(***************************************************************************)
(* Theorems about user accounts, for every set of users, addresses, roles  *)
(* and requests and any number of tokens and seconds.                      *)
(***************************************************************************)
EXTENDS UserAccounts, TLAPS

Rows == [email : Emails \union {NoEmail}, roles : SUBSET Roles, verified : BOOLEAN,
         token : Nat, refresh : Int]

Pcs == {"idle", "done", "compare", "store_session", "log_out", "store_token", "mail",
        "confirm", "check_email", "store_update", "destroy", "assign", "remove"}

Calls == [pc : Pcs, user : Users \union {NoUser}, copy : Rows, role : Roles \union {NoRole},
          email : Emails \union {NoEmail}, verify : BOOLEAN, token : Nat, second : Int]

TypeOK ==
  /\ user \in [Users -> Rows]
  /\ requests \in [Requests -> Calls]
  /\ time \in Nat /\ made \in Nat /\ mailed \subseteq Nat
  /\ sessions \subseteq Users \X Int
  /\ due \in [Users -> SUBSET Roles]

\* A history of rows that has seen u verified, and u with these roles.
HasVerified(history, u) == \E w \in history : w[1] = u /\ w[3]
HasHeld(history, u, roles) == \E w \in history : w[1] = u /\ w[2] = roles

(* A row says what the history says last, and a copy what it said once.  Of the copy that
   a session is made of, the use case has read that its user is verified; of the copy that
   gets a new token, that its user is not. *)
RowsWere == \A u \in Users : Exists(u) => <<u, user[u].roles, user[u].verified>> \in was

CallWas(call, history) ==
  call # Idle /\ call # Done =>
    /\ call.user \in Users
    /\ <<call.user, call.copy.roles, call.copy.verified>> \in history
    /\ call.pc = "store_session" => call.copy.verified = TRUE
    /\ call.pc = "store_token" => call.copy.verified = FALSE
    /\ call.pc = "assign" => call.role \in Roles

CopiesWere == \A h \in Requests : CallWas(requests[h], was)

\* Only who was verified has a session.
SessionsWereEarned == \A s \in sessions : HasVerified(was, s[1])

IInv ==
  /\ TypeOK /\ RowsWere /\ CopiesWere /\ SessionsWereEarned
  /\ AccessWasEarned /\ RolesAsGranted /\ NothingPendingOnceVerified

USE PlayerIsRole

-----------------------------------------------------------------------------
LEMMA RowTyped ==
  ASSUME NEW email \in Emails \union {NoEmail}, NEW roles \in SUBSET Roles,
         NEW verified \in BOOLEAN, NEW token \in Nat, NEW refresh \in Int
  PROVE  /\ Row(email, roles, verified, token, refresh) \in Rows
         /\ Row(email, roles, verified, token, refresh).email = email
         /\ Row(email, roles, verified, token, refresh).roles = roles
         /\ Row(email, roles, verified, token, refresh).verified = verified
         /\ Row(email, roles, verified, token, refresh).token = token
BY DEF Row, Rows

LEMMA DeletedTyped == Deleted \in Rows /\ Deleted.roles = {} /\ Deleted.token = None
BY DEF Deleted, Row, Rows, None, Never

LEMMA EndsTyped ==
  /\ Idle \in Calls /\ Done \in Calls
  /\ Idle.pc = "idle" /\ Done.pc = "done"
<1>1. "idle" \in Pcs /\ "done" \in Pcs /\ None \in Nat /\ Never \in Int
  BY DEF Pcs, None, Never
<1>2. QED
  BY <1>1, DeletedTyped DEF Idle, Done, Call, Calls

LEMMA Initially == Init => IInv
<1>. SUFFICES ASSUME Init PROVE IInv
  OBVIOUS
<1>1. PICK email \in [Users -> Emails], roles \in [Users -> RoleSets],
           verified \in [Users -> BOOLEAN] :
        user = [u \in Users |-> Row(email[u], roles[u], verified[u], None, Never)]
  BY DEF Init
<1>2. \A u \in Users : /\ user[u] \in Rows /\ user[u].token = None
  BY <1>1, RowTyped DEF RoleSets, None, Never
<1>3. user \in [Users -> Rows]
  BY <1>1, <1>2
<1>4. due = [u \in Users |-> user[u].roles]
  BY DEF Init
<1>5. TypeOK
  BY <1>3, <1>4, EndsTyped DEF Init, TypeOK, Rows
<1>6. RowsWere /\ CopiesWere /\ SessionsWereEarned
  BY DEF Init, RowsWere, CopiesWere, CallWas, SessionsWereEarned
<1>7. AccessWasEarned /\ RolesAsGranted /\ NothingPendingOnceVerified
  BY <1>2, <1>4 DEF Init, AccessWasEarned, RolesAsGranted, NothingPendingOnceVerified
<1>8. QED
  BY <1>5, <1>6, <1>7 DEF IInv

-----------------------------------------------------------------------------
(* A request goes on with a call that the history has seen. *)

LEMMA RequestKeeps ==
  ASSUME IInv, NEW h \in Requests, NEW call \in Calls, was \subseteq was',
         requests' = [requests EXCEPT ![h] = call], CallWas(call, was')
  PROVE  requests' \in [Requests -> Calls] /\ CopiesWere'
<1>1. requests' \in [Requests -> Calls]
  BY DEF IInv, TypeOK
<1>2. ASSUME NEW g \in Requests PROVE CallWas(requests'[g], was')
  <2>1. CASE g = h
    BY <2>1 DEF IInv, TypeOK
  <2>2. CASE g # h
    <3>1. requests'[g] = requests[g]
      BY <2>2 DEF IInv, TypeOK
    <3>2. QED
      BY <3>1 DEF IInv, CopiesWere, CallWas
  <2>3. QED
    BY <2>1, <2>2
<1>3. QED
  BY <1>1, <1>2 DEF CopiesWere

LEMMA FinishKeeps ==
  ASSUME IInv, NEW h \in Requests, was \subseteq was', Finish(h)
  PROVE  requests' \in [Requests -> Calls] /\ CopiesWere'
BY RequestKeeps, EndsTyped DEF Finish, CallWas

LEMMA RequestTyped ==
  ASSUME IInv, NEW h \in Requests, requests[h].pc \notin {"idle", "done"}
  PROVE  /\ requests[h] \in Calls /\ requests[h].user \in Users
         /\ requests[h].copy \in Rows /\ CallWas(requests[h], was)
         /\ <<requests[h].user, requests[h].copy.roles, requests[h].copy.verified>> \in was
         /\ requests[h] # Idle /\ requests[h] # Done
         /\ user[requests[h].user] \in Rows
<1>1. requests[h] \in Calls /\ CallWas(requests[h], was)
  BY DEF IInv, TypeOK, CopiesWere
<1>2. requests[h] # Idle /\ requests[h] # Done
  BY EndsTyped
<1>3. QED
  BY <1>1, <1>2 DEF Calls, CallWas, IInv, TypeOK

(* A request that begins holds a copy of the row as it is. *)
LEMMA BeginKeeps ==
  ASSUME IInv, NEW h \in Requests, NEW u \in Users, Exists(u), UNCHANGED was,
         NEW call \in Calls, call.user = u, call.copy = user[u],
         call.pc # "store_session", call.pc = "store_token" => ~user[u].verified,
         call.pc = "assign" => call.role \in Roles, Begin(h, call)
  PROVE  requests' \in [Requests -> Calls] /\ CopiesWere'
<1>1. user[u] \in Rows /\ <<u, user[u].roles, user[u].verified>> \in was
  BY DEF IInv, TypeOK, RowsWere
<1>2. ~user[u].verified => user[u].verified = FALSE
  BY <1>1 DEF Rows
<1>3. CallWas(call, was')
  BY <1>1, <1>2 DEF CallWas
<1>4. QED
  BY <1>3, RequestKeeps DEF Begin

LEMMA ReadingKeeps ==
  ASSUME IInv, NEW h \in Requests, NEW u \in Users, Exists(u), UNCHANGED was,
         NEW pc \in Pcs \ {"idle", "done", "store_session", "store_token", "assign"},
         Begin(h, Reading(pc, u))
  PROVE  requests' \in [Requests -> Calls] /\ CopiesWere'
<1>. DEFINE call == Reading(pc, u)
<1>1. call \in Calls /\ call.user = u /\ call.copy = user[u] /\ call.pc = pc
  BY DEF Reading, Call, Calls, None, Never, IInv, TypeOK
<1>. HIDE DEF call
<1>2. Begin(h, call)
  BY DEF call
<1>3. QED
  BY <1>1, <1>2, BeginKeeps

(* A request goes on with the copy it has. *)
LEMMA GotoKeeps ==
  ASSUME IInv, NEW h \in Requests, requests[h].pc \notin {"idle", "done"},
         was \subseteq was', NEW pc \in Pcs \ {"idle", "done", "store_session", "store_token", "assign"},
         Goto(h, pc)
  PROVE  requests' \in [Requests -> Calls] /\ CopiesWere'
<1>. DEFINE r == requests[h]
            call == Call(pc, r.user, r.copy, r.role, r.email, r.verify, r.token, r.second)
<1>1. r \in Calls /\ r.user \in Users /\ <<r.user, r.copy.roles, r.copy.verified>> \in was
  BY RequestTyped
<1>2. requests' = [requests EXCEPT ![h] = call]
  BY DEF Goto, Continue
<1>. HIDE DEF r
<1>3. call \in Calls /\ call.pc = pc /\ call.user = r.user /\ call.copy = r.copy
  BY <1>1 DEF Call, Calls
<1>. HIDE DEF call
<1>4. CallWas(call, was')
  BY <1>1, <1>3 DEF CallWas
<1>5. QED
  BY <1>2, <1>3, <1>4, RequestKeeps

-----------------------------------------------------------------------------
(* Steps that write no row. *)

LEMMA UnwrittenKeeps ==
  ASSUME IInv, Unwritten, requests' \in [Requests -> Calls], CopiesWere',
         time' \in Nat, made' \in Nat, mailed' \subseteq Nat, UNCHANGED sessions,
         \A a \in access' \ access : HasVerified(was, a[1]) /\ HasHeld(was, a[1], a[2])
  PROVE  IInv'
<1>1. UNCHANGED <<user, due, was, stale>>
  BY DEF Unwritten
<1>2. TypeOK' /\ RowsWere' /\ SessionsWereEarned'
  BY <1>1 DEF IInv, TypeOK, RowsWere, Exists, SessionsWereEarned
<1>3. AccessWasEarned'
  BY <1>1 DEF IInv, AccessWasEarned, HasVerified, HasHeld
<1>4. RolesAsGranted' /\ NothingPendingOnceVerified'
  BY <1>1 DEF IInv, RolesAsGranted, NothingPendingOnceVerified, Exists
<1>5. QED
  BY <1>2, <1>3, <1>4 DEF IInv

LEMMA TokensTyped ==
  ASSUME IInv, UNCHANGED Tokens
  PROVE  /\ time' \in Nat /\ made' \in Nat /\ mailed' \subseteq Nat
         /\ UNCHANGED <<sessions, access>>
BY DEF IInv, TypeOK, Tokens

LEMMA UnwrittenWas == ASSUME Unwritten PROVE UNCHANGED was
BY DEF Unwritten

LEMMA BeginningsKeep ==
  ASSUME IInv, NEW h \in Requests, NEW u \in Users,
         \/ StartLogin(h, u) \/ StartLogout(h, u) \/ StartMail(h, u) \/ StartDeletion(h, u)
         \/ \E t \in mailed : StartVerification(h, u, t)
         \/ \E e \in Emails, v \in BOOLEAN : StartUpdate(h, u, e, v)
         \/ \E r \in Roles : StartAssignment(h, u, r) \/ StartRevocation(h, u, r)
  PROVE  IInv'
<1>1. CASE StartLogin(h, u)
  BY <1>1, UnwrittenWas, ReadingKeeps, TokensTyped, UnwrittenKeeps DEF StartLogin, Pcs
<1>2. CASE StartLogout(h, u)
  BY <1>2, UnwrittenWas, ReadingKeeps, TokensTyped, UnwrittenKeeps DEF StartLogout, Pcs
<1>3. CASE StartMail(h, u)
  <2>1. made' \in Nat /\ UNCHANGED <<time, mailed, sessions, access>>
    BY <1>3 DEF StartMail, IInv, TypeOK
  <2>. DEFINE call == Call("store_token", u, user[u], NoRole, NoEmail, FALSE, made', Never)
  <2>2. /\ call \in Calls /\ call.user = u /\ call.copy = user[u]
        /\ call.pc = "store_token" /\ Begin(h, call)
    BY <1>3, <2>1 DEF StartMail, Call, Calls, Pcs, Never, IInv, TypeOK
  <2>. HIDE DEF call
  <2>3. requests' \in [Requests -> Calls] /\ CopiesWere'
    BY <1>3, <2>2, UnwrittenWas, BeginKeeps DEF StartMail
  <2>4. QED
    BY <1>3, <2>1, <2>3, UnwrittenKeeps DEF StartMail, IInv, TypeOK
<1>4. CASE StartDeletion(h, u)
  BY <1>4, UnwrittenWas, ReadingKeeps, TokensTyped, UnwrittenKeeps DEF StartDeletion, Pcs
<1>5. CASE \E t \in mailed : StartVerification(h, u, t)
  BY <1>5, UnwrittenWas, ReadingKeeps, TokensTyped, UnwrittenKeeps DEF StartVerification, Pcs
<1>6. ASSUME NEW e \in Emails, NEW v \in BOOLEAN, StartUpdate(h, u, e, v) PROVE IInv'
  <2>. DEFINE pc == IF e # user[u].email THEN "check_email" ELSE "store_update"
  <2>1. pc \in Pcs \ {"store_session", "store_token", "assign"}
    BY DEF Pcs
  <2>. DEFINE call == Call(pc, u, user[u], NoRole, e, v, None, Never)
  <2>2. Begin(h, call) /\ Exists(u)
    BY <1>6 DEF StartUpdate
  <2>. HIDE DEF pc
  <2>3. call \in Calls /\ call.user = u /\ call.copy = user[u] /\ call.pc = pc
    BY <2>1 DEF Call, Calls, None, Never, IInv, TypeOK
  <2>. HIDE DEF call
  <2>4. requests' \in [Requests -> Calls] /\ CopiesWere'
    BY <1>6, <2>1, <2>2, <2>3, UnwrittenWas, BeginKeeps DEF StartUpdate
  <2>5. QED
    BY <1>6, <2>4, TokensTyped, UnwrittenKeeps DEF StartUpdate
<1>7. ASSUME NEW r \in Roles, StartAssignment(h, u, r) PROVE IInv'
  <2>. DEFINE call == Call("assign", u, user[u], r, NoEmail, FALSE, None, Never)
  <2>1. /\ call \in Calls /\ call.user = u /\ call.copy = user[u] /\ call.pc = "assign"
        /\ call.role = r /\ Begin(h, call)
    BY <1>7 DEF StartAssignment, Call, Calls, Pcs, None, Never, IInv, TypeOK
  <2>. HIDE DEF call
  <2>2. requests' \in [Requests -> Calls] /\ CopiesWere'
    BY <1>7, <2>1, UnwrittenWas, BeginKeeps DEF StartAssignment
  <2>3. QED
    BY <1>7, <2>2, TokensTyped, UnwrittenKeeps DEF StartAssignment
<1>8. ASSUME NEW r \in Roles, StartRevocation(h, u, r) PROVE IInv'
  <2>. DEFINE call == Call("remove", u, user[u], r, NoEmail, FALSE, None, Never)
  <2>1. /\ call \in Calls /\ call.user = u /\ call.copy = user[u] /\ call.pc = "remove"
        /\ Begin(h, call)
    BY <1>8 DEF StartRevocation, Call, Calls, Pcs, None, Never, IInv, TypeOK
  <2>. HIDE DEF call
  <2>2. requests' \in [Requests -> Calls] /\ CopiesWere'
    BY <1>8, <2>1, UnwrittenWas, BeginKeeps DEF StartRevocation
  <2>3. QED
    BY <1>8, <2>2, TokensTyped, UnwrittenKeeps DEF StartRevocation
<1>9. QED
  BY <1>1, <1>2, <1>3, <1>4, <1>5, <1>6, <1>7, <1>8

LEMMA SignTokensKeeps == ASSUME IInv, NEW h \in Requests, SignTokens(h) PROVE IInv'
<1>. DEFINE r == requests[h]
            call == Call("store_session", r.user, r.copy, NoRole, NoEmail, FALSE, None, time)
<1>1. UNCHANGED Tokens /\ Unwritten /\ UNCHANGED was /\ r.pc = "compare"
  BY UnwrittenWas DEF SignTokens
<1>2. r.user \in Users /\ r.copy \in Rows /\ <<r.user, r.copy.roles, r.copy.verified>> \in was
  BY <1>1, RequestTyped
<1>3. requests' \in [Requests -> Calls] /\ CopiesWere'
  <2>1. CASE r.copy.verified
    <3>1. requests' = [requests EXCEPT ![h] = call]
      BY <2>1 DEF SignTokens, Continue
    <3>2. r.copy.verified = TRUE
      BY <1>2, <2>1 DEF Rows
    <3>. HIDE DEF r
    <3>3. /\ call \in Calls /\ call.pc = "store_session"
          /\ call.user = r.user /\ call.copy = r.copy
      BY <1>2 DEF Call, Calls, IInv, TypeOK, Pcs, None
    <3>. HIDE DEF call
    <3>4. CallWas(call, was')
      BY <1>1, <1>2, <3>2, <3>3 DEF CallWas
    <3>5. QED
      BY <1>1, <3>1, <3>3, <3>4, RequestKeeps
  <2>2. CASE ~r.copy.verified
    BY <1>1, <2>2, FinishKeeps DEF SignTokens
  <2>3. QED
    BY <2>1, <2>2
<1>4. QED
  BY <1>1, <1>3, TokensTyped, UnwrittenKeeps

LEMMA RefreshAccessKeeps ==
  ASSUME IInv, NEW s \in sessions, RefreshAccess(s[1], s[2])
  PROVE  IInv'
<1>1. /\ Exists(s[1]) /\ s[1] \in Users /\ Unwritten
      /\ access' = access \union {<<s[1], user[s[1]].roles>>}
      /\ UNCHANGED <<time, made, mailed, sessions, requests>>
  BY DEF RefreshAccess, IInv, TypeOK
<1>2. HasVerified(was, s[1])
  BY DEF IInv, SessionsWereEarned
<1>3. HasHeld(was, s[1], user[s[1]].roles)
  BY <1>1 DEF IInv, RowsWere, HasHeld
<1>4. requests' \in [Requests -> Calls] /\ CopiesWere'
  BY <1>1, UnwrittenWas DEF IInv, TypeOK, CopiesWere
<1>5. QED
  BY <1>1, <1>2, <1>3, <1>4, UnwrittenKeeps DEF IInv, TypeOK

LEMMA OthersUnwrittenKeep ==
  ASSUME IInv, NEW h \in Requests, SendMail(h) \/ CheckEmail(h) \/ RequestFails(h)
  PROVE  IInv'
<1>1. CASE SendMail(h)
  <2>1. requests[h].token \in Nat
    BY <1>1, RequestTyped DEF SendMail, Calls
  <2>2. requests' \in [Requests -> Calls] /\ CopiesWere'
    BY <1>1, UnwrittenWas, FinishKeeps DEF SendMail
  <2>3. QED
    BY <1>1, <2>1, <2>2, UnwrittenKeeps DEF SendMail, IInv, TypeOK
<1>2. CASE CheckEmail(h)
  <2>1. requests' \in [Requests -> Calls] /\ CopiesWere'
    BY <1>2, UnwrittenWas, FinishKeeps, GotoKeeps DEF CheckEmail, Pcs
  <2>2. QED
    BY <1>2, <2>1, TokensTyped, UnwrittenKeeps DEF CheckEmail
<1>3. CASE RequestFails(h)
  BY <1>3, UnwrittenWas, FinishKeeps, TokensTyped, UnwrittenKeeps DEF RequestFails
<1>4. QED
  BY <1>1, <1>2, <1>3

LEMMA TickKeeps == ASSUME IInv, Tick PROVE IInv'
<1>1. requests' \in [Requests -> Calls] /\ CopiesWere'
  BY UnwrittenWas DEF Tick, IInv, TypeOK, CopiesWere
<1>2. QED
  BY <1>1, UnwrittenKeeps DEF Tick, IInv, TypeOK

-----------------------------------------------------------------------------
(* Steps that write the row of one user. *)

LEMMA WriteWrites ==
  ASSUME IInv, NEW u \in Users, NEW row \in Rows, Write(u, row)
  PROVE  /\ user' \in [Users -> Rows] /\ RowsWere' /\ was \subseteq was'
         /\ \A v \in Users \ {u} : user'[v] = user[v]
         /\ user'[u] = (IF Exists(u) THEN row ELSE user[u])
<1>1. CASE Exists(u)
  <2>1. /\ user' = [user EXCEPT ![u] = row]
        /\ was' = was \union {<<u, row.roles, row.verified>>}
    BY <1>1 DEF Write
  <2>2. QED
    BY <1>1, <2>1 DEF IInv, TypeOK, RowsWere, Exists
<1>2. CASE ~Exists(u)
  BY <1>2 DEF Write, IInv, TypeOK, RowsWere, Exists
<1>3. QED
  BY <1>1, <1>2

LEMMA WrittenKeeps ==
  ASSUME IInv, NEW u \in Users, NEW row \in Rows, Write(u, row),
         requests' \in [Requests -> Calls], CopiesWere', UNCHANGED <<time, made, mailed>>,
         stale \subseteq stale',
         due' \in [Users -> SUBSET Roles], \A v \in Users \ {u} : due'[v] = due[v],
         Exists(u) /\ <<u, "roles">> \notin stale' => row.roles = due'[u],
         Exists(u) /\ row.verified /\ <<u, "verification">> \notin stale' => row.token = None,
         sessions' \subseteq Users \X Int,
         \A s \in sessions' \ sessions : HasVerified(was', s[1]),
         \A a \in access' \ access : HasVerified(was', a[1]) /\ HasHeld(was', a[1], a[2])
  PROVE  IInv'
<1>1. /\ user' \in [Users -> Rows] /\ RowsWere' /\ was \subseteq was'
      /\ \A v \in Users \ {u} : user'[v] = user[v]
      /\ user'[u] = (IF Exists(u) THEN row ELSE user[u])
  BY WriteWrites
<1>2. TypeOK'
  BY <1>1 DEF IInv, TypeOK
<1>3. SessionsWereEarned' /\ AccessWasEarned'
  BY <1>1 DEF IInv, SessionsWereEarned, AccessWasEarned, HasVerified, HasHeld
<1>4. RolesAsGranted'
  <2>1. SUFFICES ASSUME NEW v \in Users, Exists(v)', <<v, "roles">> \notin stale'
                 PROVE  user'[v].roles = due'[v]
    BY DEF RolesAsGranted
  <2>2. QED
    BY <1>1, <2>1 DEF IInv, RolesAsGranted, Exists
<1>5. NothingPendingOnceVerified'
  <2>1. SUFFICES ASSUME NEW v \in Users, user'[v].verified, <<v, "verification">> \notin stale'
                 PROVE  user'[v].token = None
    BY DEF NothingPendingOnceVerified
  <2>2. CASE v = u /\ Exists(u)
    BY <1>1, <2>1, <2>2
  <2>3. CASE v # u \/ ~Exists(u)
    <3>1. user'[v] = user[v] /\ <<v, "verification">> \notin stale
      BY <1>1, <2>1, <2>3
    <3>2. QED
      BY <2>1, <3>1 DEF IInv, NothingPendingOnceVerified
  <2>4. QED
    BY <2>2, <2>3
<1>6. QED
  BY <1>1, <1>2, <1>3, <1>4, <1>5 DEF IInv

(* A step that notes what it wrote from an old copy, and gives out no token. *)
LEMMA NotedKeeps ==
  ASSUME IInv, NEW u \in Users, NEW row \in Rows, Write(u, row),
         requests' \in [Requests -> Calls], CopiesWere', UNCHANGED Tokens, UNCHANGED due,
         stale \subseteq stale', row.roles = user[u].roles,
         Exists(u) /\ row.verified /\ <<u, "verification">> \notin stale' => row.token = None
  PROVE  IInv'
<1>1. Exists(u) /\ <<u, "roles">> \notin stale' => row.roles = due'[u]
  BY DEF IInv, RolesAsGranted
<1>2. due' \in [Users -> SUBSET Roles] /\ sessions' \subseteq Users \X Int
  BY DEF IInv, TypeOK, Tokens
<1>3. UNCHANGED <<time, made, mailed, sessions, access, due>>
  BY DEF Tokens
<1>4. QED
  BY <1>1, <1>2, <1>3, WrittenKeeps

LEMMA NoteGrows ==
  ASSUME NEW u, NEW columns, NEW outOfDate \in BOOLEAN, NoteStale(u, columns, outOfDate)
  PROVE  /\ stale \subseteq stale'
         /\ Exists(u) /\ <<u, columns>> \notin stale' => ~outOfDate
BY DEF NoteStale

LEMMA StoreSessionKeeps == ASSUME IInv, NEW h \in Requests, StoreSession(h) PROVE IInv'
<1>. DEFINE r == requests[h]
            u == r.user
            now == user[u]
            row == Row(now.email, now.roles, now.verified, now.token, r.second)
<1>1. /\ r \in Calls /\ u \in Users /\ r.copy \in Rows /\ now \in Rows
      /\ <<u, r.copy.roles, r.copy.verified>> \in was /\ r.copy.verified = TRUE
  BY RequestTyped DEF StoreSession, CallWas
<1>2. /\ Write(u, row) /\ Finish(h)
      /\ sessions' = sessions \union {<<u, r.second>>}
      /\ access' = access \union {<<u, r.copy.roles>>}
      /\ UNCHANGED <<time, made, mailed, due, stale>>
  BY DEF StoreSession
<1>3. r.second \in Int
  BY <1>1 DEF Calls
<1>. HIDE DEF r, u
<1>4. row \in Rows /\ row.roles = now.roles /\ row.verified = now.verified
      /\ row.token = now.token
  BY <1>1, <1>3 DEF Row, Rows
<1>. HIDE DEF row
<1>5. was \subseteq was'
  BY <1>1, <1>2, <1>4, WriteWrites
<1>6. HasVerified(was', u) /\ HasHeld(was', u, r.copy.roles)
  BY <1>1, <1>5 DEF HasVerified, HasHeld
<1>7. requests' \in [Requests -> Calls] /\ CopiesWere'
  BY <1>2, <1>5, FinishKeeps
<1>8. sessions' \subseteq Users \X Int
  BY <1>1, <1>2, <1>3 DEF IInv, TypeOK
<1>9. due' \in [Users -> SUBSET Roles]
  BY <1>2 DEF IInv, TypeOK
<1>10. Exists(u) /\ <<u, "roles">> \notin stale' => row.roles = due'[u]
  BY <1>1, <1>2, <1>4 DEF IInv, RolesAsGranted
<1>11. Exists(u) /\ row.verified /\ <<u, "verification">> \notin stale' => row.token = None
  BY <1>1, <1>2, <1>4 DEF IInv, NothingPendingOnceVerified
<1>. HIDE DEF now
<1>12. QED
  BY <1>1, <1>2, <1>4, <1>6, <1>7, <1>8, <1>9, <1>10, <1>11, WrittenKeeps

LEMMA StoreTokenKeeps == ASSUME IInv, NEW h \in Requests, StoreToken(h) PROVE IInv'
<1>. DEFINE r == requests[h]
            u == r.user
            now == user[u]
            row == WithToken(now, r.token)
<1>1. /\ r \in Calls /\ u \in Users /\ r.copy \in Rows /\ now \in Rows
      /\ r.copy.verified = FALSE
  BY RequestTyped DEF StoreToken, CallWas
<1>2. /\ Write(u, row) /\ Goto(h, "mail") /\ UNCHANGED due /\ UNCHANGED Tokens
      /\ NoteStale(u, "verification", now.verified # r.copy.verified)
      /\ r.pc = "store_token"
  BY DEF StoreToken
<1>3. r.token \in Nat
  BY <1>1 DEF Calls
<1>4. row \in Rows /\ row.roles = now.roles /\ row.verified = now.verified
  BY <1>1, <1>3 DEF WithToken, Row, Rows
<1>. HIDE DEF row
<1>5. was \subseteq was'
  BY <1>1, <1>2, <1>4, WriteWrites
<1>6. requests' \in [Requests -> Calls] /\ CopiesWere'
  BY <1>2, <1>5, GotoKeeps DEF Pcs
<1>7. /\ stale \subseteq stale'
      /\ Exists(u) /\ <<u, "verification">> \notin stale' => row.verified = FALSE
  BY <1>1, <1>2, <1>4, NoteGrows
<1>8. QED
  BY <1>1, <1>2, <1>4, <1>6, <1>7, NotedKeeps

LEMMA ConfirmKeeps == ASSUME IInv, NEW h \in Requests, Confirm(h) PROVE IInv'
<1>. DEFINE r == requests[h]
            u == r.user
            now == user[u]
            row == Verified(now)
<1>1. r \in Calls /\ u \in Users /\ r.copy \in Rows /\ now \in Rows
  BY RequestTyped DEF Confirm
<1>2. /\ Write(u, row) /\ Finish(h) /\ UNCHANGED due /\ UNCHANGED Tokens
      /\ NoteStale(u, "verification", now.token # r.copy.token)
  BY DEF Confirm
<1>3. row \in Rows /\ row.roles = now.roles /\ row.token = None
  BY <1>1 DEF Verified, Row, Rows, None
<1>. HIDE DEF row
<1>4. was \subseteq was'
  BY <1>1, <1>2, <1>3, WriteWrites
<1>5. requests' \in [Requests -> Calls] /\ CopiesWere'
  BY <1>2, <1>4, FinishKeeps
<1>6. stale \subseteq stale'
  BY <1>2 DEF NoteStale
<1>7. QED
  BY <1>1, <1>2, <1>3, <1>5, <1>6, NotedKeeps

(* An update that is not noted was made of the row as it is: it leaves no token behind
   a verification, nor brings one back. *)
LEMMA UpdatedClears ==
  ASSUME NEW now \in Rows, NEW copy \in Rows, NEW email \in Emails \union {NoEmail},
         NEW verify \in BOOLEAN
  PROVE  /\ Updated(now, copy, email, verify) \in Rows
         /\ Updated(now, copy, email, verify).roles = now.roles
         /\ /\ now.token = copy.token /\ now.verified = copy.verified
            /\ Updated(now, copy, email, verify).verified
            /\ now.verified => now.token = None
            => Updated(now, copy, email, verify).token = None
<1>. DEFINE row == Updated(now, copy, email, verify)
<1>1. now.verified \in BOOLEAN /\ copy.verified \in BOOLEAN
  BY DEF Rows
<1>2. /\ row.roles = now.roles
      /\ row.verified = IF verify = copy.verified THEN now.verified ELSE verify
      /\ row.token = IF verify /\ ~copy.verified /\ copy.token # None
                        THEN None ELSE now.token
  BY DEF Updated, Row
<1>3. row \in Rows
  BY <1>1 DEF Updated, Row, Rows, None
<1>. HIDE DEF row
<1>4. /\ now.token = copy.token /\ now.verified = copy.verified /\ row.verified
      /\ now.verified => now.token = None
      => row.token = None
  BY <1>1, <1>2
<1>5. QED
  BY <1>2, <1>3, <1>4 DEF row

LEMMA StoreUpdateKeeps == ASSUME IInv, NEW h \in Requests, StoreUpdate(h) PROVE IInv'
<1>. DEFINE r == requests[h]
            u == r.user
            now == user[u]
            row == Updated(now, r.copy, r.email, r.verify)
<1>1. r \in Calls /\ u \in Users /\ r.copy \in Rows /\ now \in Rows
  BY RequestTyped DEF StoreUpdate
<1>2. Finish(h) /\ UNCHANGED due /\ UNCHANGED Tokens
  BY DEF StoreUpdate
<1>3. CASE UNCHANGED <<user, was, stale>>
  BY <1>2, <1>3, FinishKeeps, TokensTyped, UnwrittenKeeps DEF Unwritten
<1>4. CASE /\ Write(u, row)
           /\ NoteStale(u, "verification", now.token # r.copy.token
                                              \/ now.verified # r.copy.verified)
  <2>1. r.email \in Emails \union {NoEmail} /\ r.verify \in BOOLEAN
    BY <1>1 DEF Calls
  <2>2. /\ row \in Rows /\ row.roles = now.roles
        /\ /\ now.token = r.copy.token /\ now.verified = r.copy.verified /\ row.verified
           /\ now.verified => now.token = None
           => row.token = None
    BY <1>1, <2>1, UpdatedClears
  <2>. HIDE DEF row
  <2>3. was \subseteq was'
    BY <1>1, <1>4, <2>2, WriteWrites
  <2>4. requests' \in [Requests -> Calls] /\ CopiesWere'
    BY <1>2, <2>3, FinishKeeps
  <2>5. /\ stale \subseteq stale'
        /\ Exists(u) /\ <<u, "verification">> \notin stale'
             => now.token = r.copy.token /\ now.verified = r.copy.verified
    BY <1>4, NoteGrows
  <2>6. now.verified /\ <<u, "verification">> \notin stale => now.token = None
    BY <1>1 DEF IInv, NothingPendingOnceVerified
  <2>7. Exists(u) /\ row.verified /\ <<u, "verification">> \notin stale' => row.token = None
    BY <2>2, <2>5, <2>6
  <2>8. QED
    BY <1>1, <1>2, <1>4, <2>2, <2>4, <2>5, <2>7, NotedKeeps
<1>5. QED
  BY <1>3, <1>4 DEF StoreUpdate

LEMMA DestroyKeeps == ASSUME IInv, NEW h \in Requests, Destroy(h) PROVE IInv'
<1>. DEFINE u == requests[h].user
<1>1. u \in Users
  BY RequestTyped DEF Destroy
<1>2. /\ user' = [user EXCEPT ![u] = Deleted] /\ Finish(h)
      /\ UNCHANGED <<due, was, stale>> /\ UNCHANGED Tokens
  BY DEF Destroy
<1>3. requests' \in [Requests -> Calls] /\ CopiesWere'
  BY <1>2, FinishKeeps
<1>. HIDE DEF u
<1>4. /\ user' \in [Users -> Rows] /\ user'[u] = Deleted
      /\ \A v \in Users \ {u} : user'[v] = user[v]
  BY <1>1, <1>2, DeletedTyped DEF IInv, TypeOK
<1>5. TypeOK' /\ SessionsWereEarned' /\ AccessWasEarned'
  BY <1>2, <1>3, <1>4, TokensTyped DEF IInv, TypeOK, SessionsWereEarned, AccessWasEarned
<1>6. RowsWere' /\ RolesAsGranted'
  BY <1>2, <1>4 DEF IInv, RowsWere, RolesAsGranted, Exists
<1>7. NothingPendingOnceVerified'
  BY <1>2, <1>4, DeletedTyped DEF IInv, NothingPendingOnceVerified
<1>8. QED
  BY <1>3, <1>5, <1>6, <1>7 DEF IInv

(* The array that is written is what the copy's became: if the copy was up to date, what
   the roles that were due became. *)
LEMMA StoreRolesKeeps ==
  ASSUME IInv, NEW h \in Requests, requests[h].pc \notin {"idle", "done"},
         NEW ofCopy \in SUBSET Roles, NEW ofDue \in SUBSET Roles,
         requests[h].copy.roles = due[requests[h].user] => ofCopy = ofDue,
         StoreRoles(h, ofCopy, ofDue)
  PROVE  IInv'
<1>. DEFINE r == requests[h]
            u == r.user
            now == user[u]
            row == Row(now.email, ofCopy, now.verified, now.token, now.refresh)
<1>1. r \in Calls /\ u \in Users /\ r.copy \in Rows /\ now \in Rows
  BY RequestTyped
<1>2. /\ Write(u, row) /\ Finish(h) /\ UNCHANGED Tokens
      /\ due' = IF Exists(u) THEN [due EXCEPT ![u] = ofDue] ELSE due
      /\ NoteStale(u, "roles", now.roles # r.copy.roles)
  BY DEF StoreRoles
<1>3. /\ row \in Rows /\ row.roles = ofCopy /\ row.verified = now.verified
      /\ row.token = now.token
  BY <1>1 DEF Row, Rows
<1>. HIDE DEF row
<1>4. was \subseteq was'
  BY <1>1, <1>2, <1>3, WriteWrites
<1>5. requests' \in [Requests -> Calls] /\ CopiesWere'
  BY <1>2, <1>4, FinishKeeps
<1>6. /\ stale \subseteq stale'
      /\ Exists(u) /\ <<u, "roles">> \notin stale' => now.roles = r.copy.roles
  BY <1>2, NoteGrows
<1>7. /\ due' \in [Users -> SUBSET Roles] /\ \A v \in Users \ {u} : due'[v] = due[v]
      /\ Exists(u) => due'[u] = ofDue
  BY <1>1, <1>2 DEF IInv, TypeOK
<1>8. Exists(u) /\ <<u, "roles">> \notin stale' => row.roles = due'[u]
  <2>1. Exists(u) /\ <<u, "roles">> \notin stale => now.roles = due[u]
    BY <1>1 DEF IInv, RolesAsGranted
  <2>2. QED
    BY <1>3, <1>6, <1>7, <2>1
<1>9. Exists(u) /\ row.verified /\ <<u, "verification">> \notin stale' => row.token = None
  BY <1>1, <1>3, <1>6 DEF IInv, NothingPendingOnceVerified
<1>10. UNCHANGED <<time, made, mailed, sessions, access>> /\ sessions' \subseteq Users \X Int
  BY <1>2 DEF Tokens, IInv, TypeOK
<1>11. QED
  BY <1>1, <1>2, <1>3, <1>5, <1>6, <1>7, <1>8, <1>9, <1>10, WrittenKeeps

LEMMA RolesKeep == ASSUME IInv, NEW h \in Requests, Assign(h) \/ Revoke(h) PROVE IInv'
<1>. DEFINE r == requests[h]
<1>1. /\ r.pc \notin {"idle", "done"}
      /\ r.pc = "assign" \/ r.pc = "remove"
  BY DEF Assign, Revoke
<1>2. r.copy.roles \in SUBSET Roles /\ due[r.user] \in SUBSET Roles
  BY <1>1, RequestTyped DEF Rows, IInv, TypeOK
<1>3. CASE Assign(h)
  <2>1. r.role \in Roles
    BY <1>1, <1>3, RequestTyped DEF Assign, CallWas
  <2>2. StoreRoles(h, r.copy.roles \union {r.role}, due[r.user] \union {r.role})
    BY <1>3 DEF Assign
  <2>. HIDE DEF r
  <2>3. /\ r.copy.roles \union {r.role} \in SUBSET Roles
        /\ due[r.user] \union {r.role} \in SUBSET Roles
    BY <1>2, <2>1
  <2>4. QED
    BY <1>1, <2>2, <2>3, StoreRolesKeeps DEF r
<1>4. CASE Revoke(h)
  <2>1. \A roles \in SUBSET Roles : Without(roles, r.role) \in SUBSET Roles
    BY DEF Without
  <2>2. StoreRoles(h, Without(r.copy.roles, r.role), Without(due[r.user], r.role))
    BY <1>4 DEF Revoke
  <2>3. QED
    BY <1>1, <1>2, <2>1, <2>2, StoreRolesKeeps
<1>5. QED
  BY <1>3, <1>4

-----------------------------------------------------------------------------
LEMMA StutterKeeps == ASSUME IInv, UNCHANGED vars PROVE IInv'
<1>1. UNCHANGED requests /\ Unwritten /\ UNCHANGED <<time, made, mailed, sessions, access>>
  BY DEF vars, Unwritten
<1>2. requests' \in [Requests -> Calls] /\ CopiesWere'
  BY <1>1, UnwrittenWas DEF IInv, TypeOK, CopiesWere
<1>3. QED
  BY <1>1, <1>2, UnwrittenKeeps DEF IInv, TypeOK

LEMMA StepKeeps == IInv /\ [Next]_vars => IInv'
<1>. SUFFICES ASSUME IInv, [Next]_vars PROVE IInv'
  OBVIOUS
<1>1. CASE \E h \in Requests, u \in Users :
             \/ StartLogin(h, u) \/ StartLogout(h, u) \/ StartMail(h, u)
             \/ StartDeletion(h, u)
             \/ \E t \in mailed : StartVerification(h, u, t)
             \/ \E e \in Emails, v \in BOOLEAN : StartUpdate(h, u, e, v)
             \/ \E r \in Roles : StartAssignment(h, u, r) \/ StartRevocation(h, u, r)
  BY <1>1, BeginningsKeep
<1>2. ASSUME NEW h \in Requests,
             \/ SignTokens(h) \/ StoreSession(h)
             \/ StoreToken(h) \/ SendMail(h) \/ Confirm(h)
             \/ CheckEmail(h) \/ StoreUpdate(h) \/ Destroy(h)
             \/ Assign(h) \/ Revoke(h) \/ RequestFails(h)
      PROVE  IInv'
  BY <1>2, SignTokensKeeps, StoreSessionKeeps, StoreTokenKeeps, ConfirmKeeps,
     StoreUpdateKeeps, DestroyKeeps, RolesKeep, OthersUnwrittenKeep
<1>3. CASE \E s \in sessions : RefreshAccess(s[1], s[2])
  BY <1>3, RefreshAccessKeeps
<1>4. CASE Tick
  BY <1>4, TickKeeps
<1>5. CASE UNCHANGED vars
  BY <1>5, StutterKeeps
<1>6. QED
  BY <1>1, <1>2, <1>3, <1>4, <1>5 DEF Next

LEMMA Always == Spec => []IInv
BY Initially, StepKeeps, PTL DEF Spec

(* Whoever holds an access token was verified at some time, and had the roles it claims at
   some time: by login or by refresh, whatever happened to the row since it was read. *)
THEOREM NoTokenUnearned == Spec => []AccessWasEarned
<1>1. IInv => AccessWasEarned
  BY DEF IInv
<1>2. QED
  BY <1>1, Always, PTL

(* A user has the roles that the assignments and removals one after the other leave, unless
   two of them overlapped: no other use case writes an array of roles it has read. *)
THEOREM OnlyOverlapsLoseRoles == Spec => []RolesAsGranted
<1>1. IInv => RolesAsGranted
  BY DEF IInv
<1>2. QED
  BY <1>1, Always, PTL

(* No verification token is pending for a verified user, unless a mail, a verification and
   an administrator's update overlapped. *)
THEOREM OnlyOverlapsLeaveTokens == Spec => []NothingPendingOnceVerified
<1>1. IInv => NothingPendingOnceVerified
  BY DEF IInv
<1>2. QED
  BY <1>1, Always, PTL

=============================================================================
