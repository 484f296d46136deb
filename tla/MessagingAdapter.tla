-------------------------- MODULE MessagingAdapter --------------------------
(***************************************************************************)
(* The connection management of the RabbitMQ adapter                       *)
(* (src/src/infrastructure/messaging/rabbitmq.adapter.js).                 *)
(*                                                                         *)
(* The adapter keeps four module variables.  They are written by           *)
(*   - runs of connectWithRetry, started by connect() and by the events of *)
(*     a lost connection;                                                  *)
(*   - runs of closeConnectionAndReconnect, started by an error event;     *)
(*   - close(), which the shutdown of the server calls.                    *)
(* All of them interleave at their awaits.  A step is the code from one    *)
(* await to the next; what a step answers is decided by the state of the   *)
(* connections, which amqplib and the broker keep.                         *)
(*                                                                         *)
(* A connection has at most one channel, so a channel is named by its      *)
(* connection.  A closed connection nobody refers to is a new one.         *)
(***************************************************************************)
EXTENDS Naturals, FiniteSets

CONSTANTS
  Runs,        \* activations of connectWithRetry
  NoRun,       \* connectionPromise is null
  Helpers,     \* activations of closeConnectionAndReconnect
  Shutdown,    \* the activation of close()
  Conns,       \* connections
  NoConn,      \* null
  MaxRetries,  \* MAX_RETRIES of the adapter
  Queues,      \* how many queues assertQueues asserts
  MaxConnects, \* bound: calls of connect()
  MaxLosses    \* bound: connections the broker or the network takes away

ASSUME NullsAreNoMembers == NoRun \notin Runs /\ NoConn \notin Conns /\ Shutdown \notin Helpers
ASSUME CountsArePositive == MaxRetries \in Nat \ {0} /\ Queues \in Nat \ {0}

VARIABLES
  connection, channel, connectionPromise, isClosing,  \* the module's variables
  runs,     \* connectWithRetry: where it waits, its attempt, the connection it waits
            \* for and the queues still to be asserted
  closers,  \* close and closeConnectionAndReconnect: where they wait, and for what
  link,     \* external: connections as amqplib sees them
  chan,     \* external: the channel of each connection
  gaveUp,   \* history: a run used up its attempts since the last loss
  calls, losses

module == <<connection, channel, connectionPromise, isClosing>>
broker == <<link, chan>>
counters == <<gaveUp, calls, losses>>
vars == <<module, runs, closers, broker, counters>>

Closers == Helpers \cup {Shutdown}

LinkStates == {"closed", "open", "closing"}
RunPcs == {"idle", "connecting", "creating_channel", "asserting", "waiting"}
CloserPcs == {"idle", "promise", "channel", "channel_gone", "connection",
              "connection_gone", "stuck", "done"}

Await(pc, n, c, left) == [pc |-> pc, attempt |-> n, conn |-> c, left |-> left]
Ended == Await("idle", 0, NoConn, 0)
Attempt(n) == Await("connecting", n, NoConn, 0)
Begun == Attempt(1)

At(pc, c) == [pc |-> pc, conn |-> c, run |-> NoRun]

ChanOpen(c) == c # NoConn /\ link[c] = "open" /\ chan[c] = "open"

\* A promise stands for its run until nobody refers to it.
FreeRuns ==
  {r \in Runs : /\ runs[r] = Ended
                /\ r # connectionPromise
                /\ \A k \in Closers : closers[k].run # r}

FreeConns ==
  {c \in Conns : /\ link[c] = "closed" /\ c # connection /\ c # channel
                 /\ \A r \in Runs : runs[r].conn # c
                 /\ \A k \in Closers : closers[k].conn # c}

\* Nobody waits for a helper, so one that is stuck can be forgotten.
FreeHelpers == {h \in Helpers : closers[h].pc \in {"idle", "stuck"}}

\* n calls of connectWithRetry() whose promises are dropped.
Reconnect(n) ==
  \E new \in SUBSET FreeRuns :
    /\ Cardinality(new) = n
    /\ runs' = [r \in Runs |-> IF r \in new THEN Begun ELSE runs[r]]

-----------------------------------------------------------------------------
Init ==
  /\ connection = NoConn /\ channel = NoConn
  /\ connectionPromise = NoRun /\ isClosing = FALSE
  /\ runs = [r \in Runs |-> Ended]
  /\ closers = [k \in Closers |-> At("idle", NoConn)]
  /\ link = [c \in Conns |-> "closed"]
  /\ chan = [c \in Conns |-> "closed"]
  /\ gaveUp = FALSE /\ calls = 0 /\ losses = 0

-----------------------------------------------------------------------------
(* connect *)

\* The guard reads connection.isConnected, which an amqplib connection does not have.
AlreadyConnected == FALSE

(* A call while an attempt is in progress returns that attempt's promise and
   changes nothing; so would one that finds the adapter connected. *)
Connect(r) ==
  /\ calls < MaxConnects
  /\ closers[Shutdown].pc = "idle"
  /\ ~AlreadyConnected
  /\ connectionPromise = NoRun
  /\ r \in FreeRuns
  /\ isClosing' = FALSE
  /\ connectionPromise' = r
  /\ runs' = [runs EXCEPT ![r] = Begun]
  /\ calls' = calls + 1
  /\ UNCHANGED <<connection, channel, closers, broker, gaveUp, losses>>

-----------------------------------------------------------------------------
(* connectWithRetry *)

GiveUpKeepingPromise(r) ==
  /\ runs' = [runs EXCEPT ![r] = Ended]
  /\ gaveUp' = TRUE
  /\ UNCHANGED connectionPromise

\* The last failure: the promise is cleared, and rejected.
GiveUp(r) ==
  /\ runs' = [runs EXCEPT ![r] = Ended]
  /\ gaveUp' = TRUE
  /\ connectionPromise' = NoRun

\* The catch block: a failed attempt waits for the next one, gives up, or ends
\* silently because the adapter is being closed.
FailAttempt(r) ==
  IF isClosing
    THEN /\ runs' = [runs EXCEPT ![r] = Ended]
         /\ UNCHANGED <<connectionPromise, gaveUp>>
    ELSE IF runs[r].attempt < MaxRetries
      THEN /\ runs' = [runs EXCEPT ![r] = Await("waiting", @.attempt, NoConn, 0)]
           /\ UNCHANGED <<connectionPromise, gaveUp>>
      ELSE GiveUp(r)

ConnectFails(r) ==
  /\ runs[r].pc = "connecting"
  /\ FailAttempt(r)
  /\ UNCHANGED <<connection, channel, isClosing, closers, broker, calls, losses>>

(* The new connection replaces whatever the module referred to, also while the
   adapter is being closed, and its channel is asked for. *)
ConnectSucceeds(r) ==
  /\ runs[r].pc = "connecting"
  /\ \E c \in FreeConns :
       /\ link' = [link EXCEPT ![c] = "open"]
       /\ connection' = c
       /\ runs' = [runs EXCEPT ![r] = Await("creating_channel", @.attempt, c, 0)]
  /\ UNCHANGED <<channel, connectionPromise, isClosing, closers, chan, counters>>

\* The channel replaces the module's, and the first queue is asserted on it.
CreateChannelSucceeds(r) ==
  LET c == runs[r].conn IN
  /\ runs[r].pc = "creating_channel"
  /\ link[c] = "open"
  /\ chan' = [chan EXCEPT ![c] = "open"]
  /\ channel' = c
  /\ runs' = [runs EXCEPT ![r] = Await("asserting", @.attempt, c, Queues)]
  /\ UNCHANGED <<connection, connectionPromise, isClosing, closers, link, counters>>

(* A queue is asserted.  The next one is asserted on the channel the module has by
   then, which may be none, a dead one, or another run's. *)
AssertSucceeds(r) ==
  /\ runs[r].pc = "asserting"
  /\ ChanOpen(runs[r].conn)
  /\ IF runs[r].left = 1
       THEN /\ runs' = [runs EXCEPT ![r] = Ended]
            /\ connectionPromise' = NoRun
            /\ UNCHANGED gaveUp
       ELSE IF ChanOpen(channel)
         THEN /\ runs' = [runs EXCEPT ![r] = Await("asserting", @.attempt, channel, @.left - 1)]
              /\ UNCHANGED <<connectionPromise, gaveUp>>
         ELSE FailAttempt(r)
  /\ UNCHANGED <<connection, channel, isClosing, closers, broker, calls, losses>>

\* amqplib rejects what was asked of a channel or connection that has closed since.
SetupRejected(r) ==
  LET c == runs[r].conn IN
  /\ \/ runs[r].pc = "creating_channel" /\ link[c] = "closed"
     \/ runs[r].pc = "asserting" /\ chan[c] = "closed"
  /\ FailAttempt(r)
  /\ UNCHANGED <<connection, channel, isClosing, closers, broker, calls, losses>>

\* RETRY_DELAY is over and connectWithRetry calls itself.
RetryDelayEnds(r) ==
  /\ runs[r].pc = "waiting"
  /\ runs' = [runs EXCEPT ![r] =
       IF isClosing THEN Ended ELSE Attempt(runs[r].attempt + 1)]
  /\ UNCHANGED <<module, closers, broker, counters>>

-----------------------------------------------------------------------------
(* close, and closeConnectionAndReconnect: the same two awaits, then an end of
   their own.  amqplib refuses at once to close what is no longer open. *)

\* The last statements; promise is the value connectionPromise has by then.
Finish(k, promise) ==
  IF k = Shutdown
    THEN /\ closers' = [closers EXCEPT ![k] = At("done", NoConn)]
         /\ connectionPromise' = promise
         /\ UNCHANGED runs
    ELSE /\ closers' = [closers EXCEPT ![k] = At("idle", NoConn)]
         /\ connectionPromise' = NoRun
         /\ Reconnect(IF isClosing THEN 0 ELSE 1)

\* if (connection) await connection.close()
CloseConnection(k, promise) ==
  IF connection = NoConn
    THEN Finish(k, promise) /\ UNCHANGED link
    ELSE /\ IF link[connection] = "open"
              THEN /\ link' = [link EXCEPT ![connection] = "closing"]
                   /\ closers' = [closers EXCEPT ![k] = At("connection", connection)]
              ELSE /\ closers' = [closers EXCEPT ![k] = At("connection_gone", NoConn)]
                   /\ UNCHANGED link
         /\ connectionPromise' = promise
         /\ UNCHANGED runs

\* if (channel) await channel.close()
CloseChannel(k, promise) ==
  IF channel = NoConn
    THEN CloseConnection(k, promise) /\ UNCHANGED chan
    ELSE /\ IF ChanOpen(channel)
              THEN /\ chan' = [chan EXCEPT ![channel] = "closing"]
                   /\ closers' = [closers EXCEPT ![k] = At("channel", channel)]
              ELSE /\ closers' = [closers EXCEPT ![k] = At("channel_gone", NoConn)]
                   /\ UNCHANGED chan
         /\ connectionPromise' = promise
         /\ UNCHANGED <<runs, link>>

StartClose ==
  /\ closers[Shutdown].pc = "idle"
  /\ calls > 0
  /\ isClosing' = TRUE
  /\ IF connectionPromise = NoRun
       THEN CloseChannel(Shutdown, NoRun)
       ELSE /\ closers' = [closers EXCEPT ![Shutdown] =
                 [At("promise", NoConn) EXCEPT !.run = connectionPromise]]
            /\ UNCHANGED <<connectionPromise, runs, broker>>
  /\ UNCHANGED <<connection, channel, counters>>

PromiseSettles ==
  /\ closers[Shutdown].pc = "promise"
  /\ runs[closers[Shutdown].run] = Ended
  /\ CloseChannel(Shutdown, NoRun)
  /\ UNCHANGED <<connection, channel, isClosing, counters>>

(* The broker confirms, or amqplib has refused; the module's channel is dropped,
   whichever it is by now. *)
ChannelClosed(k) ==
  LET c == closers[k].conn IN
  /\ \/ /\ closers[k].pc = "channel" /\ link[c] = "open"
        /\ chan' = [chan EXCEPT ![c] = "closed"]
     \/ closers[k].pc = "channel_gone" /\ UNCHANGED chan
  /\ channel' = NoConn
  /\ CloseConnection(k, connectionPromise)
  /\ UNCHANGED <<connection, isClosing, counters>>

\* A pending channel.close() of a connection that closes is never answered.
Strand(c, pcs) ==
  [k \in Closers |->
     IF closers[k].conn = c /\ closers[k].pc \in pcs THEN At("stuck", NoConn) ELSE closers[k]]

ConnectionRefused(k) ==
  /\ closers[k].pc = "connection_gone"
  /\ connection' = NoConn
  /\ Finish(k, connectionPromise)
  /\ UNCHANGED <<channel, isClosing, broker, counters>>

(* The broker confirms the close of the connection.  Unless the adapter is being
   closed its close event makes the adapter reconnect, and so does the helper. *)
ConnectionClosed(k) ==
  LET c == closers[k].conn IN
  /\ closers[k].pc = "connection"
  /\ link' = [link EXCEPT ![c] = "closed"]
  /\ chan' = [chan EXCEPT ![c] = "closed"]
  /\ connection' = NoConn
  /\ channel' = IF isClosing THEN channel ELSE NoConn
  /\ connectionPromise' = IF isClosing /\ k = Shutdown THEN connectionPromise ELSE NoRun
  /\ Reconnect(IF isClosing THEN 0 ELSE 2)
  /\ closers' = [Strand(c, {"channel"}) EXCEPT ![k] =
                   At(IF k = Shutdown THEN "done" ELSE "idle", NoConn)]
  /\ UNCHANGED <<isClosing, counters>>

-----------------------------------------------------------------------------
(* A connection is lost *)

\* The error handler up to its first await: what the helper asks to be closed.
HelperStarts ==
  IF channel # NoConn
    THEN IF ChanOpen(channel) THEN At("channel", channel) ELSE At("channel_gone", NoConn)
    ELSE IF connection # NoConn
      THEN IF link[connection] = "open" THEN At("connection", connection)
                                        ELSE At("connection_gone", NoConn)
      ELSE At("idle", NoConn)

AfterLoss(c, closing) ==
  /\ link' = [d \in Conns |-> IF d = c THEN "closed"
                              ELSE IF closing = At("connection", d) THEN "closing" ELSE link[d]]
  /\ chan' = [d \in Conns |-> IF d = c THEN "closed"
                              ELSE IF closing = At("channel", d) THEN "closing" ELSE chan[d]]

\* What was being closed on a lost connection is never answered, nor is what the
\* error handler asks of it a moment before.
LosePending(c, h, closing) ==
  closers' = [Strand(c, {"channel", "connection"}) EXCEPT ![h] =
                IF closing.conn = c THEN At("stuck", NoConn) ELSE closing]

ForgetKeepingChannel ==
  /\ connection' = NoConn /\ connectionPromise' = NoRun
  /\ UNCHANGED channel

\* The close handler forgets connection, channel and promise, whosever they are.
Forget ==
  /\ connection' = NoConn /\ channel' = NoConn /\ connectionPromise' = NoRun

\* The socket breaks or the broker reports a fatal error: amqplib raises error, then close.
ConnectionFails(c) ==
  /\ link[c] # "closed" /\ losses < MaxLosses
  /\ losses' = losses + 1
  /\ IF isClosing
       THEN /\ closers' = Strand(c, {"channel", "connection"})
            /\ link' = [link EXCEPT ![c] = "closed"]
            /\ chan' = [chan EXCEPT ![c] = "closed"]
            /\ UNCHANGED <<module, runs, gaveUp>>
       ELSE /\ \E h \in FreeHelpers : LosePending(c, h, HelperStarts)
            /\ AfterLoss(c, HelperStarts)
            /\ Forget
            /\ Reconnect(IF HelperStarts.pc = "idle" THEN 2 ELSE 1)
            /\ gaveUp' = FALSE
            /\ UNCHANGED isClosing
  /\ UNCHANGED calls

IgnoreClosure ==
  /\ Forget
  /\ UNCHANGED runs

HandleClosure == Forget /\ Reconnect(1)

\* The broker closes the connection in good order: amqplib raises close only.
ConnectionClosedByBroker(c) ==
  /\ link[c] # "closed" /\ losses < MaxLosses
  /\ losses' = losses + 1
  /\ closers' = Strand(c, {"channel", "connection"})
  /\ link' = [link EXCEPT ![c] = "closed"]
  /\ chan' = [chan EXCEPT ![c] = "closed"]
  /\ IF isClosing
       THEN UNCHANGED <<connection, channel, connectionPromise, runs, gaveUp>>
       ELSE HandleClosure /\ gaveUp' = FALSE
  /\ UNCHANGED <<isClosing, calls>>

-----------------------------------------------------------------------------
RunStep(r) ==
  \/ ConnectFails(r) \/ ConnectSucceeds(r)
  \/ CreateChannelSucceeds(r) \/ AssertSucceeds(r) \/ SetupRejected(r)
  \/ RetryDelayEnds(r)

CloserStep(k) == ChannelClosed(k) \/ ConnectionRefused(k) \/ ConnectionClosed(k)

AtRest ==
  /\ \A r \in Runs : runs[r] = Ended
  /\ \A k \in Closers : closers[k].pc \in {"idle", "stuck", "done"}

\* Everything may stay as it is while nobody waits for an answer.
Rest == AtRest /\ UNCHANGED vars

Next ==
  \/ \E r \in Runs : Connect(r) \/ RunStep(r)
  \/ StartClose \/ PromiseSettles
  \/ \E k \in Closers : CloserStep(k)
  \/ \E c \in Conns : ConnectionFails(c) \/ ConnectionClosedByBroker(c)
  \/ Rest

Spec == Init /\ [][Next]_vars

-----------------------------------------------------------------------------
(* Every variable stays in its type; in particular no run of connectWithRetry makes
   more than MAX_RETRIES attempts, and no more than all queues are left to assert. *)
TypeOK ==
  /\ connection \in Conns \cup {NoConn} /\ channel \in Conns \cup {NoConn}
  /\ connectionPromise \in Runs \cup {NoRun}
  /\ isClosing \in BOOLEAN /\ gaveUp \in BOOLEAN
  /\ runs \in [Runs -> [pc : RunPcs, attempt : 0..MaxRetries,
                        conn : Conns \cup {NoConn}, left : 0..Queues]]
  /\ closers \in [Closers -> [pc : CloserPcs, conn : Conns \cup {NoConn},
                              run : Runs \cup {NoRun}]]
  /\ link \in [Conns -> LinkStates] /\ chan \in [Conns -> LinkStates]
  /\ calls \in Nat /\ losses \in Nat

(* connect() never answers with the promise of an attempt that is over: until the
   adapter is closed, connectionPromise belongs to a run that goes on. *)
PromiseIsPending ==
  connectionPromise # NoRun => runs[connectionPromise] # Ended \/ isClosing

(* Until it is closed the adapter refers to no dead connection or channel, whatever
   several overlapping runs assigned: publishing finds a live channel or none. *)
NoDeadReference ==
  isClosing \/ /\ connection # NoConn => link[connection] # "closed"
               /\ channel # NoConn => chan[channel] # "closed"

(* When nothing is under way the adapter has an open channel, unless a run has used
   up its attempts since the last loss: no loss goes unnoticed. *)
NeverSilentlyDown ==
  AtRest /\ calls > 0 /\ ~isClosing /\ ~gaveUp => ChanOpen(channel)

(* However often connect() is called, the adapter opens one connection. *)
OneConnection == Cardinality({c \in Conns : link[c] = "open"}) <= 1

=============================================================================
