--------------------------- MODULE FileScanWorker ---------------------------
(***************************************************************************)
(* The worker that scans uploaded files (src/src/workers/file.scan.worker) *)
(* on the consuming half of the RabbitMQ adapter (consumeMessages,         *)
(* ackMessage, nackMessage).  The worker is a process of its own, which a  *)
(* process manager starts again when it exits.                             *)
(*                                                                         *)
(* MessagingAdapter models how the adapter keeps its connection; here a    *)
(* connection is a number, the next one is the adapter's reconnection, and *)
(* the module's channel is the one of the connection that is open, or 0    *)
(* for none.  The queue is durable and its messages persistent: the broker *)
(* gives back what was delivered and not settled when a connection goes.   *)
(*                                                                         *)
(* A delivery is a job of the worker.  A step of a job is the code from    *)
(* one await to the next: on the file store, on the scanner and on the     *)
(* database, for which mocks stand at this commit.                         *)
(***************************************************************************)
EXTENDS Naturals, FiniteSets

CONSTANTS
  Files,       \* messages of the file scan queue
  Malformed,   \* messages that are no JSON or lack fileKey or s3Bucket
  MaxLosses,   \* bound: connections the broker or the network takes away
  MaxExits     \* bound: exits and crashes of the worker's process

ASSUME MalformedAreFiles == Malformed \subseteq Files
ASSUME BoundsTyped == MaxLosses \in Nat /\ MaxExits \in Nat

VARIABLES
  message,    \* external: where the broker has each message
  delivery,   \* external: connection and delivery tag of an unacknowledged message
  channel,    \* the adapter's channel: its connection, 0 for none
  opened,     \* connections opened so far
  tags,       \* external: deliveries made on the open connection
  answers,    \* acks and nacks on their way: channel and delivery tag
  worker,     \* where start() is
  consumer,   \* the connection the worker's consumer is registered on
  jobs,       \* deliveries the worker is processing
  recorded,   \* times the status of a file was stored
  rejected,   \* history: messages the worker judged malformed or failed to process
  lost, exits \* connections lost, also to a refused answer; processes ended

broker == <<message, delivery, tags>>
history == <<recorded, rejected>>
vars == <<broker, channel, opened, answers, worker, consumer, jobs, history, lost, exits>>

NoDelivery == [conn |-> 0, tag |-> 0]
Job(f, c, t) == [file |-> f, conn |-> c, tag |-> t, pc |-> "download"]

Init ==
  /\ message = [f \in Files |-> "unsent"]
  /\ delivery = [f \in Files |-> NoDelivery]
  /\ channel = 0 /\ opened = 0 /\ tags = 0
  /\ answers = {}
  /\ worker = "stopped" /\ consumer = 0 /\ jobs = {}
  /\ recorded = [f \in Files |-> 0] /\ rejected = {}
  /\ lost = 0 /\ exits = 0

-----------------------------------------------------------------------------
(* The broker *)

\* A persistent message reaches the durable queue.
Send(f) ==
  /\ message[f] = "unsent"
  /\ message' = [message EXCEPT ![f] = "ready"]
  /\ UNCHANGED <<delivery, channel, opened, tags, answers, worker, consumer, jobs, history, lost, exits>>

Requeued ==
  /\ message' = [f \in Files |-> IF message[f] = "unacked" THEN "ready" ELSE message[f]]
  /\ delivery' = [f \in Files |-> NoDelivery]
  /\ answers' = {}

(* The handlers of error and close forget the channel and reconnect on their own.
   They do not register the consumer again; a start() that waits for an answer of
   the channel is rejected and exits. *)
ConnectionLost ==
  /\ Requeued
  /\ channel' = 0
  /\ lost' = lost + 1
  /\ IF worker \in {"asserting", "subscribing"}
       THEN worker' = "stopped" /\ consumer' = 0 /\ jobs' = {} /\ exits' = exits + 1
       ELSE UNCHANGED <<worker, consumer, jobs, exits>>
  /\ UNCHANGED <<opened, tags, history>>

LoseConnection == channel # 0 /\ lost < MaxLosses /\ ConnectionLost

Settles(a, f) == message[f] = "unacked" /\ delivery[f] = a

(* An answer reaches the broker.  A delivery tag the channel does not know closes the
   channel with PRECONDITION_FAILED, and amqplib, which finds no error listener on
   the channel, gives the connection up. *)
AnswerArrives(a) ==
  /\ a \in answers /\ a.conn = channel
  /\ IF \E f \in Files : Settles(a, f)
       THEN /\ message' = [f \in Files |-> IF Settles(a, f) THEN "gone" ELSE message[f]]
            /\ delivery' = [f \in Files |-> IF Settles(a, f) THEN NoDelivery ELSE delivery[f]]
            /\ answers' = answers \ {a}
            /\ UNCHANGED <<channel, opened, tags, worker, consumer, jobs, history, lost, exits>>
       ELSE ConnectionLost

-----------------------------------------------------------------------------
(* start() *)

Start ==
  /\ worker = "stopped"
  /\ worker' = "connecting"
  /\ UNCHANGED <<broker, channel, opened, answers, consumer, jobs, history, lost, exits>>

NewConnection ==
  /\ opened' = opened + 1
  /\ channel' = opened'
  /\ tags' = 0

Connected ==
  /\ worker = "connecting"
  /\ NewConnection
  /\ worker' = "asserting"
  /\ UNCHANGED <<message, delivery, answers, consumer, jobs, history, lost, exits>>

\* consumeMessages asserts the queue, then registers the consumer on the channel.
QueueAsserted ==
  /\ worker = "asserting"
  /\ worker' = "subscribing"
  /\ UNCHANGED <<broker, channel, opened, answers, consumer, jobs, history, lost, exits>>

Subscribed ==
  /\ worker = "subscribing"
  /\ consumer' = channel
  /\ worker' = "running"
  /\ UNCHANGED <<broker, channel, opened, answers, jobs, history, lost, exits>>

\* mutant: the consumer is registered again, on the new connection
ReconnectSubscribing ==
  /\ worker = "running" /\ channel = 0
  /\ NewConnection
  /\ consumer' = opened'
  /\ UNCHANGED <<message, delivery, answers, worker, jobs, history, lost, exits>>

\* connectWithRetry, started by the handlers of the lost connection.
Reconnect ==
  /\ worker = "running" /\ channel = 0
  /\ NewConnection
  /\ UNCHANGED <<message, delivery, answers, worker, consumer, jobs, history, lost, exits>>

(* start() fails and exits, a reconnection gives up and nobody handles its
   rejection, or the process dies. *)
Exit ==
  /\ worker # "stopped" /\ exits < MaxExits
  /\ exits' = exits + 1
  /\ worker' = "stopped" /\ channel' = 0 /\ consumer' = 0 /\ jobs' = {}
  /\ Requeued
  /\ UNCHANGED <<opened, tags, history, lost>>

-----------------------------------------------------------------------------
(* processMessage *)

\* ackMessage and nackMessage use the channel the module has by now, if any.
Answer(j) ==
  answers' = IF channel = 0 THEN answers ELSE answers \cup {[conn |-> channel, tag |-> j.tag]}

(* The callback of consumeMessages parses the message and calls processMessage, which
   runs to its first await: what is malformed is rejected, not requeued.  There is no
   prefetch: the option of that name is none of consume's. *)
Deliver(f) ==
  LET j == Job(f, channel, tags + 1) IN
  /\ consumer # 0 /\ consumer = channel
  /\ message[f] = "ready"
  /\ message' = [message EXCEPT ![f] = "unacked"]
  /\ delivery' = [delivery EXCEPT ![f] = [conn |-> j.conn, tag |-> j.tag]]
  /\ tags' = j.tag
  /\ IF f \in Malformed
       THEN rejected' = rejected \cup {f} /\ Answer(j) /\ UNCHANGED jobs
       ELSE jobs' = jobs \cup {j} /\ UNCHANGED <<rejected, answers>>
  /\ UNCHANGED <<channel, opened, worker, consumer, recorded, lost, exits>>

Goto(j, pc) == jobs' = (jobs \ {j}) \cup {[j EXCEPT !.pc = pc]}

Downloaded(j) ==
  /\ j.pc = "download"
  /\ Goto(j, "scan")
  /\ UNCHANGED <<broker, channel, opened, answers, worker, consumer, history, lost, exits>>

\* The scan is over and mockUpdateFileStatus stores its result.
Scanned(j) ==
  /\ j.pc = "scan"
  /\ recorded' = [recorded EXCEPT ![j.file] = @ + 1]
  /\ Goto(j, "update")
  /\ UNCHANGED <<broker, channel, opened, answers, worker, consumer, rejected, lost, exits>>

Acknowledge(j) ==
  /\ j.pc = "update"
  /\ jobs' = jobs \ {j}
  /\ Answer(j)
  /\ UNCHANGED <<broker, channel, opened, worker, consumer, history, lost, exits>>

\* mutant: the error is logged and the message is left unanswered
FailSilently(j) ==
  /\ j.pc \in {"download", "scan"}
  /\ jobs' = jobs \ {j}
  /\ rejected' = rejected \cup {j.file}
  /\ UNCHANGED <<broker, channel, opened, answers, worker, consumer, recorded, lost, exits>>

\* A call of the job fails: nack without requeue.
Fail(j) ==
  /\ jobs' = jobs \ {j}
  /\ rejected' = rejected \cup {j.file}
  /\ Answer(j)
  /\ UNCHANGED <<broker, channel, opened, worker, consumer, recorded, lost, exits>>

Continue(j) == Downloaded(j) \/ Scanned(j) \/ Acknowledge(j) \/ Fail(j)

Next ==
  \/ \E f \in Files : Send(f) \/ Deliver(f)
  \/ LoseConnection
  \/ \E a \in answers : AnswerArrives(a)
  \/ Start \/ Connected \/ QueueAsserted \/ Subscribed \/ Reconnect \/ Exit
  \/ \E j \in jobs : Continue(j)

Spec == Init /\ [][Next]_vars

(* The broker delivers and reads answers, the event loop runs every callback that is
   ready, and the process manager starts a worker that exited. *)
Fairness ==
  /\ \A f \in Files : WF_vars(Deliver(f))
  /\ WF_vars(\E a \in answers : AnswerArrives(a))
  /\ WF_vars(\E j \in jobs : Continue(j))
  /\ WF_vars(Start) /\ WF_vars(Connected) /\ WF_vars(QueueAsserted)
  /\ WF_vars(Subscribed) /\ WF_vars(Reconnect)

FairSpec == Spec /\ Fairness

-----------------------------------------------------------------------------
(* No file is dropped unseen: a message leaves the queue only when the result of its
   scan was stored or the worker has rejected it, although answers are sent on
   whatever channel the adapter has and a delivery tag names another message there. *)
NoFileDropped ==
  \A f \in Files : message[f] = "gone" => recorded[f] > 0 \/ f \in rejected

(* Every file in the queue is scanned or rejected at last, provided that from some
   time on the consumer stays on an open channel.  (The proviso is needed: a worker
   that lost its connection is connected again and receives nothing until its
   process ends.) *)
Consuming == worker = "running" /\ consumer = channel
EveryFileSettled ==
  <>[]Consuming => \A f \in Files : message[f] = "ready" ~> message[f] = "gone"

=============================================================================
