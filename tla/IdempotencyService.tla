------------------------- MODULE IdempotencyService -------------------------
(***************************************************************************)
(* Idempotency keys: a request takes its key, runs its operation and marks *)
(* the key with the response; whoever comes with the same key gets that    *)
(* response (src/application/services/idempotency.service and the          *)
(* repository postgres.idempotency).                                       *)
(*                                                                         *)
(* The service takes a key in a transaction of its own or in its caller's. *)
(* No use case calls it: the caller here does what the comments of the     *)
(* service ask of one.  PostgreSQL runs at READ COMMITTED: an insert of a  *)
(* key that another transaction has inserted waits for that transaction,   *)
(* and so does a read of a row FOR UPDATE.                                 *)
(***************************************************************************)
EXTENDS Integers, FiniteSets

CONSTANTS
  Keys,
  Requests,   \* requests that may arrive, each at any time
  NoKey, NoRequest  \* null

ASSUME NullsAreNotValues == NoKey \notin Keys /\ NoRequest \notin Requests

VARIABLES
  record,    \* committed rows of IdempotencyRequests
  holder,    \* the request whose transaction has inserted or locked the row of a key
  requests,  \* local state of each request
  executed,  \* responses of the operations that took effect, for each key
  replayed,  \* <<key, response>>, handed out from a record
  lost       \* history: keys whose request will not mark them any more

vars == <<record, holder, requests, executed, replayed, lost>>

-----------------------------------------------------------------------------
Response(r, outcome) == [by |-> r, outcome |-> outcome]

NoResponse == Response(NoRequest, "none")

Outcomes == {"ok", "error"}

Responses == [by : Requests, outcome : Outcomes]

Record(status, response) == [status |-> status, response |-> response]

Missing == Record("MISSING", NoResponse)
Pending == Record("PENDING", NoResponse)   \* PROCESSING is never written
Marked(response) ==
  Record(IF response.outcome = "ok" THEN "COMPLETED" ELSE "FAILED", response)

Records == {Missing, Pending} \union {Marked(s) : s \in Responses}

(* own: the service commits what it does; otherwise the caller commits at its end, and its
   operation with it.  seen: the record as findOrCreate returned it. *)
Call(pc, key, own, seen, response) ==
  [pc |-> pc, key |-> key, own |-> own, seen |-> seen, response |-> response]

Calls == [
  pc : {"idle", "done", "find", "insert", "judge", "commit", "execute", "mark"},
  key : Keys \union {NoKey}, own : BOOLEAN, seen : Records,
  response : Responses \union {NoResponse}]

Idle == Call("idle", NoKey, TRUE, Missing, NoResponse)
Done == Call("done", NoKey, TRUE, Missing, NoResponse)

Goto(r, pc) ==
  LET c == requests[r] IN
  requests' = [requests EXCEPT ![r] = Call(pc, c.key, c.own, c.seen, c.response)]

Saw(r, pc, seen) ==
  LET c == requests[r] IN
  requests' = [requests EXCEPT ![r] = Call(pc, c.key, c.own, seen, c.response)]

Finish(r) == requests' = [requests EXCEPT ![r] = Done]

Free(key, r) == holder[key] \in {NoRequest, r}

Hold(key, r) == holder' = [holder EXCEPT ![key] = r]
Release(key) == holder' = [holder EXCEPT ![key] = NoRequest]

Init ==
  /\ record = [k \in Keys |-> Missing]
  /\ holder = [k \in Keys |-> NoRequest]
  /\ requests = [r \in Requests |-> Idle]
  /\ executed = [k \in Keys |-> {}]
  /\ replayed = {}
  /\ lost = {}

-----------------------------------------------------------------------------
(* checkAndLockKey *)

Arrive(r, key, own) ==
  /\ requests[r] = Idle
  /\ requests' = [requests EXCEPT ![r] = Call("find", key, own, Missing, NoResponse)]
  /\ UNCHANGED <<record, holder, executed, replayed, lost>>

\* findOrCreate looks for the row and locks it; a row not yet committed is not there
Find(r) ==
  LET c == requests[r]
      row == record[c.key] IN
  /\ c.pc = "find"
  /\ IF row = Missing
       THEN Goto(r, "insert") /\ UNCHANGED holder
       ELSE /\ Free(c.key, r)
            /\ Hold(c.key, r)
            /\ Saw(r, "judge", row)
  /\ UNCHANGED <<record, executed, replayed, lost>>

\* the primary key decides between two inserts: the second finds the first one's row
Insert(r) ==
  LET c == requests[r] IN
  /\ c.pc = "insert"
  /\ Free(c.key, r)
  /\ IF record[c.key] = Missing
       THEN /\ Hold(c.key, r)
            /\ Saw(r, IF c.own THEN "commit" ELSE "execute", Missing)
       ELSE Goto(r, "find") /\ UNCHANGED holder
  /\ UNCHANGED <<record, executed, replayed, lost>>

CommitKey(r) ==
  LET c == requests[r] IN
  /\ c.pc = "commit"
  /\ record' = [record EXCEPT ![c.key] = Pending]
  /\ Release(c.key)
  /\ Goto(r, "execute")
  /\ UNCHANGED <<executed, replayed, lost>>

\* the answer to a commit is lost: the transaction may have been committed
CommitFails(r) ==
  LET c == requests[r] IN
  /\ c.pc = "commit"
  /\ \/ /\ record' = [record EXCEPT ![c.key] = Pending]
        /\ lost' = lost \union {c.key}
     \/ UNCHANGED <<record, lost>>
  /\ Release(c.key)
  /\ Finish(r)
  /\ UNCHANGED <<executed, replayed>>

IsAnswered(seen) == seen.status \in {"COMPLETED", "FAILED"}

\* mutant: a key that is pending is taken over
TakeOver(r) ==
  LET c == requests[r] IN
  /\ c.pc = "judge"
  /\ Release(c.key)
  /\ IF IsAnswered(c.seen)
       THEN Finish(r) /\ replayed' = replayed \union {<<c.key, c.seen.response>>}
       ELSE Goto(r, "execute") /\ UNCHANGED replayed
  /\ UNCHANGED <<record, executed, lost>>

\* what was answered is answered again, and that ends the caller's transaction, too; what is pending is a conflict (the rollback is
\* done, and t.isCompleted, which is no method, turns the ApiError into a TypeError)
Judge(r) ==
  LET c == requests[r] IN
  /\ c.pc = "judge"
  /\ Release(c.key)
  /\ IF IsAnswered(c.seen)
       THEN replayed' = replayed \union {<<c.key, c.seen.response>>}
       ELSE UNCHANGED replayed
  /\ Finish(r)
  /\ UNCHANGED <<record, executed, lost>>

-----------------------------------------------------------------------------
(* The caller, markAsCompleted and markAsFailed *)

\* on its own the operation takes effect at once, in a transaction at its commit
Execute(r, outcome) ==
  LET c == requests[r]
      response == Response(r, outcome) IN
  /\ c.pc = "execute"
  /\ requests' = [requests EXCEPT ![r] = Call("mark", c.key, c.own, c.seen, response)]
  /\ executed' = IF c.own
       THEN [executed EXCEPT ![c.key] = executed[c.key] \union {response}] ELSE executed
  /\ UNCHANGED <<record, holder, replayed, lost>>

\* mutant: a failure is not marked
MarkCompletedOnly(r) ==
  LET c == requests[r] IN
  /\ c.pc = "mark"
  /\ c.own
  /\ Free(c.key, r)
  /\ record' = IF c.response.outcome = "ok"
       THEN [record EXCEPT ![c.key] = Marked(c.response)] ELSE record
  /\ Finish(r)
  /\ UNCHANGED <<holder, executed, replayed, lost>>

\* the update waits for whoever has locked the row
Mark(r) ==
  LET c == requests[r] IN
  /\ c.pc = "mark"
  /\ c.own
  /\ Free(c.key, r)
  /\ record' = [record EXCEPT ![c.key] = Marked(c.response)]
  /\ Finish(r)
  /\ UNCHANGED <<holder, executed, replayed, lost>>

\* the failure is logged, and the client has its answer
MarkFails(r) ==
  LET c == requests[r] IN
  /\ c.pc = "mark"
  /\ c.own
  /\ lost' = lost \union {c.key}
  /\ Finish(r)
  /\ UNCHANGED <<record, holder, executed, replayed>>

\* marked in the caller's transaction, and committed with its operation
MarkAndCommit(r) ==
  LET c == requests[r] IN
  /\ c.pc = "mark"
  /\ ~c.own
  /\ record' = [record EXCEPT ![c.key] = Marked(c.response)]
  /\ executed' = [executed EXCEPT ![c.key] = executed[c.key] \union {c.response}]
  /\ Release(c.key)
  /\ Finish(r)
  /\ UNCHANGED <<replayed, lost>>

\* the caller rolls back, or any call before the operation fails
Abort(r) ==
  LET c == requests[r] IN
  /\ \/ c.pc \in {"find", "insert", "judge"}
     \/ c.pc \in {"execute", "mark"} /\ ~c.own
  /\ holder' = [k \in Keys |-> IF holder[k] = r THEN NoRequest ELSE holder[k]]
  /\ Finish(r)
  /\ UNCHANGED <<record, executed, replayed, lost>>

\* the process ends: what was not committed is rolled back
Crash ==
  /\ \E r \in Requests : requests[r] \notin {Idle, Done}
  /\ lost' = lost \union {requests[r].key : r \in {s \in Requests :
                            requests[s].own /\ requests[s].pc \in {"execute", "mark"}}}
  /\ holder' = [k \in Keys |-> NoRequest]
  /\ requests' = [r \in Requests |-> IF requests[r] = Idle THEN Idle ELSE Done]
  /\ UNCHANGED <<record, executed, replayed>>

Step(r) ==
  \/ Find(r) \/ Insert(r) \/ CommitKey(r) \/ Judge(r)
  \/ \E outcome \in Outcomes : Execute(r, outcome)
  \/ Mark(r) \/ MarkAndCommit(r)

Next ==
  \/ \E r \in Requests :
       \/ \E k \in Keys, own \in BOOLEAN : Arrive(r, k, own)
       \/ Step(r)
       \/ CommitFails(r) \/ MarkFails(r) \/ Abort(r)
  \/ Crash

\* a request in progress goes on: the event loop and the database serve every one
Spec == Init /\ [][Next]_vars /\ \A r \in Requests : WF_vars(Step(r))

-----------------------------------------------------------------------------
(* Properties *)

HoldsRow(r, k) ==
  /\ requests[r].key = k
  /\ \/ requests[r].pc \in {"judge", "commit"}
     \/ requests[r].pc \in {"execute", "mark"} /\ ~requests[r].own

HoldersKnown == \A k \in Keys, r \in Requests : holder[k] = r <=> HoldsRow(r, k)

(* Types, and who holds a row: exactly the request between the read or insert of its key
   and its commit; nothing that fails leaves one locked. *)
TypeOK ==
  /\ record \in [Keys -> Records]
  /\ holder \in [Keys -> Requests \union {NoRequest}]
  /\ executed \in [Keys -> SUBSET Responses]
  /\ replayed \subseteq Keys \X Responses
  /\ lost \subseteq Keys
  /\ requests \in [Requests -> Calls]
  /\ HoldersKnown

Once == INSTANCE OncePerKey WITH chosen <- executed, told <- replayed

(* Whatever arrives, fails or crashes, and whichever way a key is taken, its operation takes
   effect at most once, and what is handed out from a record is that operation's response:
   the service implements OncePerKey. *)
TakesEffectOnce == Once!Spec

(* A pending key is marked in the end, unless the mark or a commit failed or the process
   crashed: no two requests keep one another from going on. *)
PendingIsResolved == \A k \in Keys : record[k] = Pending ~> record[k] # Pending \/ k \in lost
=============================================================================
