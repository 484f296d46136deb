------------------------------ MODULE MCProcesses ------------------------------
(***************************************************************************)
(* Small instances of the two processes for TLC: the file scan worker and  *)
(* the server.  They share no state of these modules, so a behaviour is    *)
(* one of the one or of the other.                                         *)
(***************************************************************************)
EXTENDS FileScanWorker

CONSTANTS Requests, Sockets, Signals, MaxTransactions, MaxDrops
VARIABLES
  part,    \* the process that runs
  started, ended, accepting, pool, todo, using, redis, drops,
  connected, handler, command, keys, missed, shutdown

Server == INSTANCE ServerProcess
server == <<started, ended, accepting, pool, todo, using, redis, drops,
            connected, handler, command, keys, missed, shutdown>>

MCInit == Init /\ Server!Init /\ part \in {"worker", "server"}
MCNext ==
  /\ UNCHANGED part
  /\ \/ part = "worker" /\ Next /\ UNCHANGED server
     \/ part = "server" /\ Server!Next /\ UNCHANGED vars

MCFairSpec ==
  /\ MCInit /\ [][MCNext]_<<part, vars, server>>
  /\ part = "worker" => Fairness
  /\ WF_server(Server!Progress)

\* ServerProcess's ShutdownIsGraceful: no shutdown ends the process within a transaction.
ShutdownIsGraceful == Server!ShutdownIsGraceful

\* ServerProcess's GoneIsCleared: a socket that is gone has no key left in Redis.
GoneIsCleared == Server!GoneIsCleared

\* ServerProcess's SignalEndsProcess: a signal ends the process.
SignalEndsProcess == Server!SignalEndsProcess

=============================================================================
