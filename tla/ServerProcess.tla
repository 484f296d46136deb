----------------------------- MODULE ServerProcess -----------------------------
(***************************************************************************)
(* The life of one server process: the start, the requests and sockets it  *)
(* serves, and its end.  Handlers interleave at their awaits; every signal *)
(* starts a shutdown of its own, which runs beside the others.             *)
(*                                                                         *)
(* A request is its database transactions, each on one connection of the   *)
(* pool.  A socket is announced by a key in Redis and the key is deleted   *)
(* when it leaves.  Modules are taken to load, which they do not at this   *)
(* commit.  Redis forgets a key after 24 hours: left out.                  *)
(***************************************************************************)
EXTENDS Integers, Sequences

CONSTANTS
  Requests,
  Sockets,         \* connections whose access token verifies
  Signals,         \* SIGINT, SIGTERM, SIGQUIT, each sent at most once
  MaxTransactions, \* bound: transactions of one request
  MaxDrops         \* bound: lost connections to Redis

VARIABLES
  started,    \* steps of the start that are done, -1 before it
  ended,      \* "no", or how the process ended
  accepting,  \* the HTTP server takes connections
  pool,       \* Sequelize's pool is "open", or "closed" to new acquires
  todo,       \* transactions a request has still to begin, -1 before it arrives
  using,      \* requests that hold a connection of the pool
  redis,      \* the adapter's client: "none", "open", or "closing" after quit()
  drops,      \* connections to Redis lost
  connected,  \* sockets
  handler,    \* how far a socket's connection handler is
  command,    \* a socket's command to Redis: "none", "sent" or "executed"
  keys,       \* external: sockets with a key socket:<id> in Redis
  missed,     \* history: sockets that left before their disconnect handler was there
  shutdown    \* how far the shutdown started by each signal is

process == <<started, ended, accepting, shutdown>>
database == <<pool, todo, using>>
presence == <<connected, handler, command, keys, missed>>
server == <<process, database, redis, drops, presence>>

\* What startServer does, in order; each step may fail.
Startup == <<"app", "database", "cache", "dependencies", "queue", "routesAndSockets">>

Init ==
  /\ started = -1 /\ ended = "no" /\ accepting = FALSE
  /\ pool = "open" /\ todo = [q \in Requests |-> -1] /\ using = {}
  /\ redis = "none" /\ drops = 0
  /\ connected = {} /\ keys = {} /\ missed = {}
  /\ handler = [s \in Sockets |-> "none"]
  /\ command = [s \in Sockets |-> "none"]
  /\ shutdown = [g \in Signals |-> "no"]

Running == started >= 0 /\ ended = "no"
Up == Running /\ started = Len(Startup)

Exit(how) == ended' = how

-----------------------------------------------------------------------------
(* Start *)

Start ==
  /\ started = -1
  /\ started' = 0
  /\ UNCHANGED <<ended, accepting, shutdown, database, redis, drops, presence>>

\* The last step ends with listen() and the handlers of the signals.
StepSucceeds ==
  /\ Running /\ ~Up
  /\ started' = started + 1
  /\ redis' = IF Startup[started + 1] = "cache" THEN "open" ELSE redis
  /\ accepting' = (started + 1 = Len(Startup))
  /\ UNCHANGED <<ended, shutdown, database, drops, presence>>

StepFails ==
  /\ Running /\ ~Up
  /\ Exit("failedStart")
  /\ UNCHANGED <<started, accepting, shutdown, database, redis, drops, presence>>

\* A rejected promise is only logged; an exception that nobody catches ends the process.
UncaughtException ==
  /\ Running
  /\ Exit("exception")
  /\ UNCHANGED <<started, accepting, shutdown, database, redis, drops, presence>>

-----------------------------------------------------------------------------
(* Requests *)

Arrive(q, n) ==
  /\ Up /\ accepting /\ todo[q] = -1
  /\ todo' = [todo EXCEPT ![q] = n]
  /\ UNCHANGED <<process, pool, using, redis, drops, presence>>

\* A closed pool refuses: the request fails and begins nothing more.
Acquire(q) ==
  /\ Up /\ todo[q] > 0 /\ q \notin using
  /\ IF pool = "open"
       THEN todo' = [todo EXCEPT ![q] = @ - 1] /\ using' = using \cup {q}
       ELSE todo' = [todo EXCEPT ![q] = 0] /\ UNCHANGED using
  /\ UNCHANGED <<process, pool, redis, drops, presence>>

Release(q) ==
  /\ Up /\ q \in using
  /\ using' = using \ {q}
  /\ UNCHANGED <<process, pool, todo, redis, drops, presence>>

-----------------------------------------------------------------------------
(* Sockets and their keys *)

\* getClient() throws when the client is not open: the handler's promise is rejected.
Send(s, doing) ==
  /\ handler' = [handler EXCEPT ![s] = IF redis = "open" THEN doing ELSE "failed"]
  /\ command' = [command EXCEPT ![s] = IF redis = "open" THEN "sent" ELSE "none"]

\* Once the server no longer accepts, only over a connection it already had.
Connect(s) ==
  /\ Up /\ handler[s] = "none"
  /\ connected' = connected \cup {s}
  /\ Send(s, "announcing")
  /\ UNCHANGED <<process, database, redis, drops, keys, missed>>

ExecuteCommand(s) ==
  /\ command[s] = "sent"
  /\ command' = [command EXCEPT ![s] = "executed"]
  /\ keys' = IF handler[s] = "announcing" THEN keys \cup {s} ELSE keys \ {s}
  /\ UNCHANGED <<process, database, redis, drops, connected, handler, missed>>

\* The key is set: the handlers of the socket's events are registered.
Answer(s) ==
  /\ Up /\ command[s] = "executed"
  /\ command' = [command EXCEPT ![s] = "none"]
  /\ handler' = [handler EXCEPT ![s] = IF @ = "announcing" THEN "registered" ELSE "cleared"]
  /\ UNCHANGED <<process, database, redis, drops, connected, keys, missed>>

\* mutant: the disconnect handler only logs
LeaveLogged(s) ==
  /\ Up /\ s \in connected
  /\ connected' = connected \ {s}
  /\ missed' = IF handler[s] = "registered" THEN missed ELSE missed \cup {s}
  /\ UNCHANGED <<process, database, redis, drops, keys, handler, command>>

Leave(s) ==
  /\ Up /\ s \in connected
  /\ connected' = connected \ {s}
  /\ IF handler[s] = "registered"
       THEN Send(s, "clearing") /\ UNCHANGED missed
       ELSE UNCHANGED <<handler, command>> /\ missed' = missed \cup {s}
  /\ UNCHANGED <<process, database, redis, drops, keys>>

\* Commands without an answer are rejected, executed or not; so is a quit().
DropRedis ==
  /\ Up /\ drops < MaxDrops
  /\ drops' = drops + 1
  /\ handler' = [s \in Sockets |-> IF command[s] = "none" THEN handler[s] ELSE "failed"]
  /\ command' = [s \in Sockets |-> "none"]
  /\ IF redis = "closing" /\ Running THEN Exit("broken") ELSE UNCHANGED ended
  /\ UNCHANGED <<started, accepting, shutdown, database, redis, connected, keys, missed>>

-----------------------------------------------------------------------------
(* Shutdown *)

At(g, stage) == shutdown' = [shutdown EXCEPT ![g] = stage]

\* Before the handlers are registered a signal ends the process.
Kill(g) ==
  /\ Running /\ ~Up
  /\ Exit("killed")
  /\ UNCHANGED <<started, accepting, shutdown, database, redis, drops, presence>>

\* server.close() is not awaited.
Signal(g) ==
  /\ Up /\ shutdown[g] = "no"
  /\ accepting' = FALSE
  /\ At(g, "closingRabbitMQ")
  /\ UNCHANGED <<started, ended, database, redis, drops, presence>>

\* mutant: the HTTP server's close is awaited, which waits for the sockets
RabbitClosedAndHttp(g) ==
  /\ Up /\ shutdown[g] = "closingRabbitMQ" /\ connected = {}
  /\ At(g, "draining")
  /\ pool' = "closed"
  /\ UNCHANGED <<started, ended, accepting, todo, using, redis, drops, presence>>

\* rabbitMQAdapter.close() returns, whatever became of the connection; then sequelize.close().
RabbitClosed(g) ==
  /\ Up /\ shutdown[g] = "closingRabbitMQ"
  /\ At(g, "draining")
  /\ pool' = "closed"
  /\ UNCHANGED <<started, ended, accepting, todo, using, redis, drops, presence>>

\* mutant: the pool's close is not awaited
PoolUndrained == TRUE

PoolDrained == using = {}

\* A second shutdown finds the client closing: getRedisClient() throws.
Drained(g) ==
  /\ Up /\ shutdown[g] = "draining" /\ PoolDrained
  /\ IF redis = "open"
       THEN At(g, "quitting") /\ redis' = "closing" /\ UNCHANGED ended
       ELSE Exit("broken") /\ UNCHANGED <<shutdown, redis>>
  /\ UNCHANGED <<started, accepting, database, drops, presence>>

\* QUIT is answered after every command sent before it.
Quitted(g) ==
  /\ Up /\ shutdown[g] = "quitting"
  /\ \A s \in Sockets : command[s] = "none"
  /\ Exit("clean")
  /\ UNCHANGED <<started, accepting, shutdown, database, redis, drops, presence>>

-----------------------------------------------------------------------------

\* What happens by itself: the process runs, and the services answer.
Progress ==
  \/ StepSucceeds
  \/ \E q \in Requests : Acquire(q) \/ Release(q)
  \/ \E s \in Sockets : ExecuteCommand(s) \/ Answer(s)
  \/ \E g \in Signals : RabbitClosed(g) \/ Drained(g) \/ Quitted(g)

Next ==
  \/ Start \/ StepFails \/ UncaughtException \/ DropRedis \/ Progress
  \/ \E q \in Requests, n \in 1 .. MaxTransactions : Arrive(q, n)
  \/ \E s \in Sockets : Connect(s) \/ Leave(s)
  \/ \E g \in Signals : Kill(g) \/ Signal(g)

Spec == Init /\ [][Next]_server /\ WF_server(Progress)

-----------------------------------------------------------------------------
(* A shutdown, also one that another signal's shutdown runs into, ends the process only
   when no transaction is under way; a clean one, when no key is being set or deleted.
   (A request between two of its transactions is cut off.) *)
ShutdownIsGraceful ==
  /\ ended \in {"clean", "broken"} => using = {}
  /\ ended = "clean" => \A s \in Sockets : command[s] = "none"

(* A signal ends the process, however many sockets stay connected and however many
   signals follow, if the services answer. *)
SignalEndsProcess == (\E g \in Signals : shutdown[g] # "no") ~> (ended # "no")

(* As long as the client is open and lost no connection, a socket that is gone and has no
   command under way has no key.  Except one that left while its key was being set. *)
GoneIsCleared ==
  \A s \in keys :
    s \in connected \/ command[s] # "none" \/ s \in missed \/ drops > 0 \/ redis # "open"

=============================================================================
