-------------------------- MODULE ProcessesAndReadings_proofs --------------------------
(***************************************************************************)
(* Of the worker: no file is dropped unseen, for every set of files and    *)
(* any number of lost connections, refused answers, exits and restarts.    *)
(* Of the server: a shutdown cuts no transaction, and a socket that left   *)
(* leaves no key, for any number of requests, sockets and signals.         *)
(* Of the readings the server serves: a walk through a listing skips       *)
(* nothing that was there all along and repeats nothing while nothing is   *)
(* added, for any rows, keys and changes; and a rank agrees with the       *)
(* players around it, and later scores stand, for any users, boards, calls *)
(* and lost connections.                                                   *)
(* Of the schema below them: migrating and undoing keep every tournament's *)
(* game, for any tournaments, games and runs that die half-way.            *)
(***************************************************************************)
EXTENDS MCProcesses, MCReadings, MCSchemaMigrations, Integers, Sequences, FiniteSetTheorems, TLAPS

Pair == [conn : Nat, tag : Nat]
Pcs == {"download", "scan", "update"}

TypeOK ==
  /\ message \in [Files -> {"unsent", "ready", "unacked", "gone"}]
  /\ delivery \in [Files -> Pair]
  /\ channel \in Nat /\ opened \in Nat /\ tags \in Nat /\ consumer \in Nat
  /\ answers \subseteq Pair
  /\ worker \in {"stopped", "connecting", "asserting", "subscribing", "running"}
  /\ jobs \subseteq [file : Files, conn : Nat, tag : Nat, pc : Pcs]
  /\ recorded \in [Files -> Nat]

(* The channel is the newest connection's.  A worker without a consumer has nothing
   in hand, and one that has just started has no channel. *)
OneChannel ==
  /\ channel \in {0, opened} /\ consumer <= opened
  /\ worker \in {"stopped", "connecting"} => channel = 0
  /\ worker # "running" => consumer = 0
  /\ consumer = 0 => jobs = {} /\ answers = {}

Seen(f) == recorded[f] > 0 \/ f \in rejected

(* What is unacknowledged was delivered on the open channel, and the consumer is
   registered there: after a reconnection nothing is. *)
DeliveredHere ==
  \A f \in Files :
    message[f] = "unacked" => /\ delivery[f].conn = channel /\ channel = consumer
                              /\ channel # 0 /\ delivery[f].tag <= tags

(* A job is of the consumer's connection, and while that one is open its tag
   names no delivery but the job's own. *)
JobsNameTheirFile ==
  \A j \in jobs :
    /\ j.conn = consumer
    /\ channel = consumer => j.tag <= tags
    /\ j.pc = "update" => recorded[j.file] > 0
    /\ \A f \in Files : message[f] = "unacked" /\ delivery[f].tag = j.tag => f = j.file

(* An answer may be sent on a channel other than its job's, but whatever it names
   there has been seen. *)
AnswersNameSeenFiles ==
  \A a \in answers :
    /\ a.conn = channel /\ channel # 0
    /\ channel = consumer => a.tag <= tags
    /\ \A f \in Files : message[f] = "unacked" /\ delivery[f].tag = a.tag => Seen(f)

IInv ==
  /\ TypeOK /\ OneChannel /\ DeliveredHere
  /\ JobsNameTheirFile /\ AnswersNameSeenFiles /\ NoFileDropped

USE MalformedAreFiles

-----------------------------------------------------------------------------
LEMMA Initially == Init => IInv
BY DEF Init, IInv, TypeOK, Pair, NoDelivery, OneChannel, DeliveredHere,
       JobsNameTheirFile, AnswersNameSeenFiles, NoFileDropped

(* A connection that goes takes its answers and gives its deliveries back; the jobs
   that stay are those of the consumer, which stays. *)
LEMMA RequeuedKeeps ==
  ASSUME IInv, Requeued, channel' = 0, UNCHANGED <<opened, tags, history>>,
         \/ UNCHANGED <<worker, consumer, jobs>>
         \/ worker' = "stopped" /\ consumer' = 0 /\ jobs' = {}
  PROVE  IInv'
<1>1. /\ \A f \in Files : message'[f] # "unacked"
      /\ \A f \in Files : message'[f] = "gone" => message[f] = "gone"
      /\ message' \in [Files -> {"unsent", "ready", "unacked", "gone"}]
      /\ delivery' \in [Files -> Pair] /\ answers' = {}
  BY DEF IInv, TypeOK, Requeued, NoDelivery, Pair
<1>2. TypeOK'
  BY <1>1 DEF IInv, TypeOK, history
<1>3. OneChannel'
  BY <1>1 DEF IInv, TypeOK, OneChannel
<1>4. DeliveredHere' /\ AnswersNameSeenFiles'
  BY <1>1 DEF DeliveredHere, AnswersNameSeenFiles
<1>5. JobsNameTheirFile'
  <2>1. CASE jobs' = {}
    BY <2>1 DEF JobsNameTheirFile
  <2>2. CASE UNCHANGED <<worker, consumer, jobs>>
    <3>1. \A j \in jobs : j.conn = consumer /\ consumer # 0
      BY DEF IInv, JobsNameTheirFile, OneChannel
    <3>2. QED
      BY <1>1, <2>2, <3>1 DEF IInv, JobsNameTheirFile, history
  <2>3. QED
    BY <2>1, <2>2
<1>6. NoFileDropped'
  BY <1>1 DEF IInv, NoFileDropped, history
<1>7. QED
  BY <1>2, <1>3, <1>4, <1>5, <1>6 DEF IInv

LEMMA ConnectionLostKeeps == ASSUME IInv, ConnectionLost PROVE IInv'
<1>1. \/ UNCHANGED <<worker, consumer, jobs>>
      \/ worker' = "stopped" /\ consumer' = 0 /\ jobs' = {}
  BY DEF ConnectionLost
<1>2. Requeued /\ channel' = 0 /\ UNCHANGED <<opened, tags, history>>
  BY DEF ConnectionLost
<1>3. QED
  BY <1>1, <1>2, RequeuedKeeps

(* A new connection is newer than the consumer's, and nothing is delivered on it. *)
LEMMA NewConnectionKeeps ==
  ASSUME IInv, NewConnection, channel = 0,
         UNCHANGED <<message, delivery, answers, consumer, jobs, history>>,
         worker' \in {"asserting", "running"}, worker' = "running" \/ consumer = 0
  PROVE  IInv'
<1>1. channel' = opened + 1 /\ opened' = opened + 1 /\ tags' = 0
  BY DEF NewConnection
<1>2. channel' \in Nat /\ channel' # consumer /\ channel' # 0 /\ consumer <= opened'
  BY <1>1 DEF IInv, TypeOK, OneChannel
<1>3. answers = {} /\ \A f \in Files : message[f] # "unacked"
  BY DEF IInv, AnswersNameSeenFiles, DeliveredHere
<1>4. TypeOK'
  BY <1>1, <1>2 DEF IInv, TypeOK, history
<1>5. OneChannel'
  BY <1>1, <1>2 DEF IInv, OneChannel
<1>6. DeliveredHere' /\ AnswersNameSeenFiles'
  BY <1>3 DEF DeliveredHere, AnswersNameSeenFiles
<1>7. JobsNameTheirFile' /\ NoFileDropped'
  BY <1>2, <1>3 DEF IInv, JobsNameTheirFile, NoFileDropped, history
<1>8. QED
  BY <1>4, <1>5, <1>6, <1>7 DEF IInv

-----------------------------------------------------------------------------
(* What a job or a delivery answers names, on the channel that is open by then, a file
   that has been seen or nothing at all. *)
LEMMA AnswerKeeps ==
  ASSUME IInv, NEW j \in [file : Files, conn : Nat, tag : Nat, pc : Pcs],
         Answer(j), UNCHANGED <<channel, consumer, message, delivery, tags, recorded>>,
         rejected \subseteq rejected', consumer # 0,
         channel = consumer => j.tag <= tags,
         \A f \in Files : message[f] = "unacked" /\ delivery[f].tag = j.tag => Seen(f)'
  PROVE  answers' \subseteq Pair /\ AnswersNameSeenFiles'
<1>1. \A f \in Files : Seen(f) => Seen(f)'
  BY DEF Seen
<1>2. CASE channel = 0
  BY <1>1, <1>2 DEF IInv, TypeOK, Answer, AnswersNameSeenFiles
<1>3. CASE channel # 0
  <2>. DEFINE new == [conn |-> channel, tag |-> j.tag]
  <2>1. answers' = answers \cup {new} /\ new \in Pair
    BY <1>3 DEF IInv, TypeOK, Answer, Pair
  <2>2. \A f \in Files : message'[f] = "unacked" /\ delivery'[f].tag = new.tag => Seen(f)'
    OBVIOUS
  <2>3. new.conn = channel' /\ channel' # 0 /\ (channel' = consumer' => new.tag <= tags')
    BY <1>3
  <2>. HIDE DEF new
  <2>4. AnswersNameSeenFiles'
    BY <1>1, <2>1, <2>2, <2>3 DEF IInv, AnswersNameSeenFiles
  <2>5. QED
    BY <2>1, <2>4 DEF IInv, TypeOK
<1>4. QED
  BY <1>2, <1>3

LEMMA JobTyped ==
  ASSUME IInv, NEW j \in jobs
  PROVE  /\ j \in [file : Files, conn : Nat, tag : Nat, pc : Pcs] /\ consumer # 0
         /\ channel = consumer => j.tag <= tags
         /\ \A f \in Files : message[f] = "unacked" /\ delivery[f].tag = j.tag => f = j.file
BY DEF IInv, TypeOK, OneChannel, JobsNameTheirFile

LEMMA DeliverKeeps == ASSUME IInv, NEW f \in Files, Deliver(f) PROVE IInv'
<1>. DEFINE j == Job(f, channel, tags + 1)
            d == [conn |-> j.conn, tag |-> j.tag]
<1>1. /\ consumer # 0 /\ consumer = channel /\ message[f] = "ready"
      /\ message' = [message EXCEPT ![f] = "unacked"]
      /\ delivery' = [delivery EXCEPT ![f] = d]
      /\ tags' = j.tag
      /\ \/ rejected' = rejected \cup {f} /\ Answer(j) /\ UNCHANGED jobs
         \/ jobs' = jobs \cup {j} /\ UNCHANGED <<rejected, answers>>
      /\ UNCHANGED <<channel, opened, worker, consumer, recorded, lost, exits>>
  BY DEF Deliver
<1>2. /\ j \in [file : Files, conn : Nat, tag : Nat, pc : Pcs]
      /\ j.file = f /\ j.conn = channel /\ j.tag = tags + 1 /\ j.pc = "download"
  BY DEF Job, IInv, TypeOK, Pcs
<1>3. d \in Pair /\ d.conn = channel /\ d.tag = tags + 1
  BY <1>2 DEF Pair
<1>. HIDE DEF j, d
<1>4. /\ message'[f] = "unacked" /\ delivery'[f] = d
      /\ \A g \in Files \ {f} : message'[g] = message[g] /\ delivery'[g] = delivery[g]
      /\ message' \in [Files -> {"unsent", "ready", "unacked", "gone"}]
      /\ delivery' \in [Files -> Pair] /\ tags' \in Nat /\ tags' = tags + 1
  BY <1>1, <1>2, <1>3 DEF IInv, TypeOK
<1>5. \A g \in Files : Seen(g) => Seen(g)'
  BY <1>1 DEF Seen
<1>6. \A g \in Files : message'[g] = "unacked" /\ delivery'[g].tag = j.tag => g = f
  BY <1>2, <1>4 DEF IInv, TypeOK, DeliveredHere, Pair
<1>7. \A a \in answers : /\ a.tag \in Nat /\ a.tag <= tags
                         /\ \A g \in Files : message'[g] = "unacked"
                              /\ delivery'[g].tag = a.tag => Seen(g)
  BY <1>1, <1>3, <1>4 DEF IInv, TypeOK, AnswersNameSeenFiles, Pair
<1>8. answers' \subseteq Pair /\ AnswersNameSeenFiles'
  <2>1. CASE UNCHANGED <<rejected, answers>>
    BY <1>1, <1>4, <1>5, <1>7, <2>1 DEF IInv, TypeOK, AnswersNameSeenFiles
  <2>2. CASE rejected' = rejected \cup {f} /\ Answer(j)
    <3>. DEFINE new == [conn |-> channel, tag |-> j.tag]
    <3>1. answers' = answers \cup {new} /\ new \in Pair
      BY <1>1, <1>2, <2>2 DEF IInv, TypeOK, Answer, Pair
    <3>2. new.conn = channel /\ new.tag = j.tag
      OBVIOUS
    <3>. HIDE DEF new
    <3>3. Seen(f)'
      BY <2>2 DEF Seen
    <3>4. \A g \in Files : message'[g] = "unacked" /\ delivery'[g].tag = new.tag => Seen(g)'
      BY <1>6, <3>2, <3>3
    <3>5. \A a \in answers : a.conn = channel
      BY DEF IInv, AnswersNameSeenFiles
    <3>6. AnswersNameSeenFiles'
      BY <1>1, <1>2, <1>4, <1>5, <1>7, <3>1, <3>2, <3>4, <3>5
         DEF IInv, TypeOK, AnswersNameSeenFiles
    <3>7. QED
      BY <3>1, <3>6 DEF IInv, TypeOK
  <2>3. QED
    BY <1>1, <2>1, <2>2
<1>9. JobsNameTheirFile'
  <2>1. ASSUME NEW i \in jobs
        PROVE  /\ i.conn = consumer' /\ i.tag \in Nat /\ i.tag <= tags
               /\ i.pc = "update" => recorded'[i.file] > 0
               /\ \A g \in Files : message'[g] = "unacked" /\ delivery'[g].tag = i.tag
                    => g = i.file
    BY <1>1, <1>3, <1>4 DEF IInv, TypeOK, JobsNameTheirFile
  <2>2. ASSUME NEW i \in jobs', i \notin jobs
        PROVE  i = j
    BY <1>1, <2>2
  <2>3. j.conn = consumer' /\ j.tag <= tags' /\ j.pc # "update"
    BY <1>1, <1>2, <1>4
  <2>4. QED
    BY <1>2, <1>4, <1>6, <2>1, <2>2, <2>3 DEF IInv, TypeOK, JobsNameTheirFile
<1>10. TypeOK'
  BY <1>1, <1>2, <1>4, <1>8 DEF IInv, TypeOK
<1>11. OneChannel'
  BY <1>1 DEF IInv, OneChannel
<1>12. DeliveredHere'
  BY <1>1, <1>3, <1>4 DEF IInv, TypeOK, DeliveredHere, Pair
<1>13. NoFileDropped'
  BY <1>1, <1>4 DEF IInv, NoFileDropped
<1>14. QED
  BY <1>8, <1>9, <1>10, <1>11, <1>12, <1>13 DEF IInv

-----------------------------------------------------------------------------
LEMMA SendKeeps == ASSUME IInv, NEW f \in Files, Send(f) PROVE IInv'
<1>1. /\ message' \in [Files -> {"unsent", "ready", "unacked", "gone"}]
      /\ \A g \in Files : message'[g] = message[g] \/ message'[g] = "ready"
  BY DEF IInv, TypeOK, Send
<1>2. UNCHANGED <<delivery, channel, opened, tags, answers, worker, consumer, jobs,
                  recorded, rejected>>
  BY DEF Send, history
<1>3. TypeOK' /\ OneChannel'
  BY <1>1, <1>2 DEF IInv, TypeOK, OneChannel
<1>4. DeliveredHere' /\ NoFileDropped'
  BY <1>1, <1>2 DEF IInv, DeliveredHere, NoFileDropped
<1>5. JobsNameTheirFile' /\ AnswersNameSeenFiles'
  BY <1>1, <1>2 DEF IInv, JobsNameTheirFile, AnswersNameSeenFiles, Seen
<1>6. QED
  BY <1>3, <1>4, <1>5 DEF IInv

LEMMA AnswerArrivesKeeps == ASSUME IInv, NEW a \in answers, AnswerArrives(a) PROVE IInv'
<1>1. CASE \E f \in Files : Settles(a, f)
  <2>1. /\ message' = [f \in Files |-> IF Settles(a, f) THEN "gone" ELSE message[f]]
        /\ delivery' = [f \in Files |-> IF Settles(a, f) THEN NoDelivery ELSE delivery[f]]
        /\ answers' = answers \ {a}
        /\ UNCHANGED <<channel, opened, tags, worker, consumer, jobs, recorded, rejected>>
    BY <1>1 DEF AnswerArrives, history
  <2>2. /\ message' \in [Files -> {"unsent", "ready", "unacked", "gone"}]
        /\ delivery' \in [Files -> Pair]
    BY <2>1 DEF IInv, TypeOK, NoDelivery, Pair
  <2>3. \A f \in Files : message'[f] = "unacked"
                           => message[f] = "unacked" /\ delivery'[f] = delivery[f]
    BY <2>1
  <2>4. \A f \in Files : Settles(a, f) => Seen(f)
    BY DEF IInv, AnswersNameSeenFiles, Settles
  <2>5. TypeOK' /\ OneChannel'
    BY <2>1, <2>2 DEF IInv, TypeOK, OneChannel
  <2>6. DeliveredHere'
    BY <2>1, <2>3 DEF IInv, DeliveredHere
  <2>7. JobsNameTheirFile' /\ AnswersNameSeenFiles'
    BY <2>1, <2>3 DEF IInv, JobsNameTheirFile, AnswersNameSeenFiles, Seen
  <2>8. NoFileDropped'
    BY <2>1, <2>4 DEF IInv, NoFileDropped, Seen
  <2>9. QED
    BY <2>5, <2>6, <2>7, <2>8 DEF IInv
<1>2. CASE ~\E f \in Files : Settles(a, f)
  BY <1>2, ConnectionLostKeeps DEF AnswerArrives
<1>3. QED
  BY <1>1, <1>2

LEMMA StartingKeeps ==
  ASSUME IInv, Start \/ QueueAsserted \/ Subscribed
  PROVE  IInv'
<1>1. /\ UNCHANGED <<message, delivery, tags, channel, opened, answers, jobs,
                     recorded, rejected>>
      /\ worker # "running" /\ consumer' \in {0, channel}
      /\ worker' \in {"connecting", "subscribing", "running"}
      /\ worker' = "connecting" => worker = "stopped"
      /\ worker' # "running" => UNCHANGED consumer
  BY DEF IInv, OneChannel, Start, QueueAsserted, Subscribed, broker, history
<1>2. consumer = 0 /\ jobs = {} /\ answers = {} /\ \A f \in Files : message[f] # "unacked"
  BY <1>1 DEF IInv, OneChannel, DeliveredHere
<1>3. TypeOK' /\ OneChannel'
  BY <1>1, <1>2 DEF IInv, TypeOK, OneChannel
<1>4. DeliveredHere' /\ JobsNameTheirFile' /\ AnswersNameSeenFiles' /\ NoFileDropped'
  BY <1>1, <1>2 DEF IInv, DeliveredHere, JobsNameTheirFile, AnswersNameSeenFiles,
                    NoFileDropped
<1>5. QED
  BY <1>3, <1>4 DEF IInv

-----------------------------------------------------------------------------
(* The steps of a job. *)

LEMMA ContinueKeeps == ASSUME IInv, NEW j \in jobs, Continue(j) PROVE IInv'
<1>1. UNCHANGED <<message, delivery, tags, channel, opened, worker, consumer>>
  BY DEF Continue, Downloaded, Scanned, Acknowledge, Fail, broker
<1>2. /\ recorded' \in [Files -> Nat] /\ rejected \subseteq rejected'
      /\ \A f \in Files : recorded'[f] >= recorded[f]
  BY DEF IInv, TypeOK, Continue, Downloaded, Scanned, Acknowledge, Fail, history
<1>3. \A f \in Files : Seen(f) => Seen(f)'
  BY <1>2 DEF Seen, IInv, TypeOK
<1>4. /\ jobs' \subseteq [file : Files, conn : Nat, tag : Nat, pc : Pcs]
      /\ \A i \in jobs' :
           \/ i \in jobs
           \/ /\ i.file = j.file /\ i.conn = j.conn /\ i.tag = j.tag
              /\ i.pc = "update" => recorded'[j.file] > 0
  <2>1. CASE Downloaded(j)
    BY <2>1 DEF Downloaded, Goto, IInv, TypeOK, Pcs
  <2>2. CASE Scanned(j)
    BY <2>2 DEF Scanned, Goto, IInv, TypeOK, Pcs
  <2>3. CASE Acknowledge(j) \/ Fail(j)
    BY <2>3 DEF Acknowledge, Fail, IInv, TypeOK
  <2>4. QED
    BY <2>1, <2>2, <2>3 DEF Continue
<1>5. JobsNameTheirFile'
  BY <1>1, <1>2, <1>4 DEF IInv, TypeOK, JobsNameTheirFile
<1>6. answers' \subseteq Pair /\ AnswersNameSeenFiles'
  <2>1. CASE Downloaded(j) \/ Scanned(j)
    BY <1>1, <1>3, <2>1 DEF IInv, TypeOK, Downloaded, Scanned, AnswersNameSeenFiles
  <2>2. CASE Acknowledge(j)
    <3>1. recorded[j.file] > 0 /\ UNCHANGED <<recorded, rejected>> /\ Answer(j)
      BY <2>2 DEF Acknowledge, IInv, JobsNameTheirFile, history
    <3>2. Seen(j.file)'
      BY <3>1 DEF Seen
    <3>3. QED
      BY <1>1, <3>1, <3>2, JobTyped, AnswerKeeps
  <2>3. CASE Fail(j)
    <3>1. Seen(j.file)' /\ UNCHANGED recorded /\ Answer(j)
      BY <2>3 DEF Fail, Seen
    <3>2. QED
      BY <1>1, <1>2, <3>1, JobTyped, AnswerKeeps
  <2>4. QED
    BY <2>1, <2>2, <2>3 DEF Continue
<1>7. TypeOK'
  BY <1>1, <1>2, <1>4, <1>6 DEF IInv, TypeOK
<1>8. OneChannel'
  BY <1>1, JobTyped DEF IInv, OneChannel
<1>9. DeliveredHere' /\ NoFileDropped'
  BY <1>1, <1>3 DEF IInv, DeliveredHere, NoFileDropped, Seen
<1>10. QED
  BY <1>5, <1>6, <1>7, <1>8, <1>9 DEF IInv

-----------------------------------------------------------------------------
LEMMA StutterKeeps == ASSUME IInv, UNCHANGED vars PROVE IInv'
BY DEF IInv, vars, broker, history, TypeOK, OneChannel, DeliveredHere,
       JobsNameTheirFile, AnswersNameSeenFiles, NoFileDropped, Seen

LEMMA StepKeeps == IInv /\ [Next]_vars => IInv'
<1>. SUFFICES ASSUME IInv, [Next]_vars PROVE IInv'
  OBVIOUS
<1>1. CASE \E f \in Files : Send(f) \/ Deliver(f)
  BY <1>1, SendKeeps, DeliverKeeps
<1>2. CASE LoseConnection
  BY <1>2, ConnectionLostKeeps DEF LoseConnection
<1>3. CASE \E a \in answers : AnswerArrives(a)
  BY <1>3, AnswerArrivesKeeps
<1>4. CASE Start \/ QueueAsserted \/ Subscribed
  BY <1>4, StartingKeeps
<1>5. CASE Connected
  <2>1. channel = 0 /\ consumer = 0
    BY <1>5 DEF Connected, IInv, OneChannel
  <2>2. QED
    BY <1>5, <2>1, NewConnectionKeeps DEF Connected
<1>6. CASE Reconnect
  BY <1>6, NewConnectionKeeps DEF Reconnect
<1>7. CASE Exit
  <2>1. Requeued /\ channel' = 0 /\ UNCHANGED <<opened, tags, history>>
    BY <1>7 DEF Exit
  <2>2. worker' = "stopped" /\ consumer' = 0 /\ jobs' = {}
    BY <1>7 DEF Exit
  <2>3. QED
    BY <2>1, <2>2, RequeuedKeeps
<1>8. CASE \E j \in jobs : Continue(j)
  BY <1>8, ContinueKeeps
<1>9. CASE UNCHANGED vars
  BY <1>9, StutterKeeps
<1>10. QED
  BY <1>1, <1>2, <1>3, <1>4, <1>5, <1>6, <1>7, <1>8, <1>9 DEF Next

(* A message leaves the queue only when the result of its scan was stored or the worker
   rejected it, although acknowledgements go out on whatever channel ackMessage finds. *)
THEOREM NothingIsDroppedUnseen == Spec => []NoFileDropped
<1>1. IInv => NoFileDropped
  BY DEF IInv
<1>2. QED
  BY <1>1, Initially, StepKeeps, PTL DEF Spec
-----------------------------------------------------------------------------
(* The server *)

HandlerStates == {"none", "announcing", "registered", "clearing", "cleared", "failed"}
Broken == {"clean", "broken"}

ServerTyped ==
  /\ started \in Int /\ started <= 6 /\ drops \in Nat
  /\ pool \in {"open", "closed"} /\ redis \in {"none", "open", "closing"}
  /\ handler \in [Sockets -> HandlerStates]
  /\ command \in [Sockets -> {"none", "sent", "executed"}]
  /\ shutdown \in [Signals -> {"no", "closingRabbitMQ", "draining", "quitting"}]
  /\ keys \subseteq Sockets /\ connected \subseteq Sockets

(* The client is there from the third step of the start on, and closes after it. *)
ClientFollowsStart ==
  /\ redis = "none" <=> started < 3
  /\ redis = "closing" => started = 6

(* Once the pool was drained it stays empty: it is closed, and refuses whoever asks. *)
DrainedStaysEmpty ==
  /\ \A g \in Signals :
       /\ shutdown[g] \in {"draining", "quitting"} => pool = "closed"
       /\ shutdown[g] = "quitting" => redis = "closing"
  /\ redis = "closing" \/ ended \in Broken => pool = "closed" /\ using = {}
  /\ ended = "clean" => \A s \in Sockets : command[s] = "none"

(* What a socket's handler did, as long as the client is open and lost nothing. *)
HandlerOf(s) ==
  /\ handler[s] = "none" => s \notin connected /\ s \notin keys /\ command[s] = "none"
  /\ handler[s] = "announcing" => command[s] # "none" /\ s \in connected \cup missed
  /\ handler[s] = "registered" => command[s] = "none" /\ s \in connected \cup missed
  /\ handler[s] = "clearing" => command[s] # "none" /\ (command[s] = "executed" => s \notin keys)
  /\ handler[s] = "cleared" => command[s] = "none" /\ s \notin keys
  /\ handler[s] # "failed"

HandlersKnown ==
  /\ started < 6 => \A s \in Sockets : handler[s] = "none" /\ HandlerOf(s)
  /\ redis = "open" /\ drops = 0 => \A s \in Sockets : HandlerOf(s)

SInv == ServerTyped /\ ClientFollowsStart /\ DrainedStaysEmpty /\ HandlersKnown

LEMMA SixSteps == Len(Server!Startup) = 6 /\ \A n \in 0 .. 5 : Server!Startup[n + 1] = "cache" <=> n = 2
BY DEF Server!Startup

LEMMA ServerInitially == Server!Init => SInv
BY DEF Server!Init, SInv, ServerTyped, HandlerStates, ClientFollowsStart, DrainedStaysEmpty,
       Broken, HandlersKnown, HandlerOf

(* The start: until its end no socket has come. *)
LEMMA StartKeeps ==
  ASSUME SInv, Server!Start \/ Server!StepSucceeds PROVE SInv'
<1>1. CASE Server!Start
  BY <1>1 DEF SInv, ServerTyped, ClientFollowsStart, DrainedStaysEmpty, HandlersKnown, HandlerOf,
              Server!Start, Server!database, Server!presence
<1>2. CASE Server!StepSucceeds
  <2>1. /\ started \in 0 .. 5 /\ started' = started + 1
        /\ redis' = IF started = 2 THEN "open" ELSE redis
        /\ UNCHANGED <<ended, shutdown, pool, todo, using, drops,
                       connected, handler, command, keys, missed>>
    BY <1>2, SixSteps DEF Server!StepSucceeds, Server!Running, Server!Up, SInv, ServerTyped,
                          Server!database, Server!presence
  <2>2. ServerTyped' /\ ClientFollowsStart'
    BY <2>1 DEF SInv, ServerTyped, ClientFollowsStart
  <2>3. DrainedStaysEmpty'
    BY <2>1 DEF SInv, ClientFollowsStart, DrainedStaysEmpty
  <2>4. HandlersKnown'
    BY <2>1 DEF SInv, HandlersKnown, HandlerOf
  <2>5. QED
    BY <2>2, <2>3, <2>4 DEF SInv
<1>3. QED
  BY <1>1, <1>2

(* An end that is no shutdown's. *)
LEMMA EndsKeeps ==
  ASSUME SInv, NEW how, how \notin Broken, ended' = how,
         UNCHANGED <<started, accepting, shutdown, pool, todo, using, redis, drops,
                     connected, handler, command, keys, missed>>
  PROVE  SInv'
BY DEF SInv, ServerTyped, ClientFollowsStart, DrainedStaysEmpty, HandlersKnown, HandlerOf, Broken

LEMMA RequestKeeps ==
  ASSUME SInv, NEW q \in Requests,
         \/ \E n \in 1 .. MaxTransactions : Server!Arrive(q, n)
         \/ Server!Acquire(q) \/ Server!Release(q)
  PROVE  SInv'
<1>1. /\ UNCHANGED <<started, ended, shutdown, pool, redis, drops,
                     connected, handler, command, keys, missed>>
      /\ pool = "closed" /\ using = {} => using' = {}
  BY DEF Server!Arrive, Server!Acquire, Server!Release, Server!process, Server!presence
<1>2. QED
  BY <1>1 DEF SInv, ServerTyped, ClientFollowsStart, DrainedStaysEmpty, HandlersKnown, HandlerOf

(* A socket's step is its own: what is known of the other sockets stays. *)
LEMMA SocketKeeps ==
  ASSUME SInv, NEW s \in Sockets,
         UNCHANGED <<started, ended, shutdown, pool, using, redis, drops>>,
         handler' \in [Sockets -> HandlerStates],
         command' \in [Sockets -> {"none", "sent", "executed"}],
         keys' \subseteq Sockets, connected' \subseteq Sockets,
         \A r \in Sockets \ {s} :
           /\ handler'[r] = handler[r] /\ command'[r] = command[r]
           /\ r \in keys' <=> r \in keys
           /\ r \in connected' \cup missed' <=> r \in connected \cup missed
           /\ r \in connected' <=> r \in connected,
         handler[s] # "none" \/ started = 6,
         ended = "clean" => command'[s] = "none",
         redis = "open" /\ drops = 0 => HandlerOf(s)'
  PROVE  SInv'
<1>1. ServerTyped' /\ ClientFollowsStart'
  BY DEF SInv, ServerTyped, ClientFollowsStart
<1>2. DrainedStaysEmpty'
  BY DEF SInv, ServerTyped, DrainedStaysEmpty
<1>3. started = 6
  BY DEF SInv, ServerTyped, HandlersKnown, HandlerOf
<1>4. ASSUME redis = "open", drops = 0, NEW r \in Sockets PROVE HandlerOf(r)'
  BY <1>4 DEF SInv, HandlersKnown, HandlerOf
<1>5. QED
  BY <1>1, <1>2, <1>3, <1>4 DEF SInv, HandlersKnown

LEMMA SocketStepKeeps ==
  ASSUME SInv, NEW s \in Sockets,
         Server!Connect(s) \/ Server!ExecuteCommand(s) \/ Server!Answer(s) \/ Server!Leave(s)
  PROVE  SInv'
<1>. USE SixSteps
<1>1. CASE Server!Connect(s)
  <2>1. started = 6 /\ ended = "no"
    BY <1>1 DEF Server!Connect, Server!Up, Server!Running
  <2>2. redis = "open" /\ drops = 0 => HandlerOf(s)'
    BY <1>1 DEF Server!Connect, Server!Send, SInv, ServerTyped, HandlersKnown, HandlerOf,
                Server!process, Server!database
  <2>3. QED
    BY <1>1, <2>1, <2>2, SocketKeeps DEF Server!Connect, Server!Send, SInv, ServerTyped,
       HandlerStates, Server!process, Server!database
<1>2. CASE Server!ExecuteCommand(s)
  <2>1. redis = "open" /\ drops = 0 => HandlerOf(s)'
    BY <1>2 DEF Server!ExecuteCommand, SInv, ServerTyped, HandlersKnown, HandlerOf,
                Server!process, Server!database
  <2>2. handler[s] # "none" \/ started = 6
    BY <1>2 DEF Server!ExecuteCommand, SInv, ServerTyped, HandlersKnown, HandlerOf
  <2>3. ended # "clean"
    BY <1>2 DEF Server!ExecuteCommand, SInv, DrainedStaysEmpty
  <2>4. QED
    BY <1>2, <2>1, <2>2, <2>3, SocketKeeps DEF Server!ExecuteCommand, SInv, ServerTyped,
       HandlerStates, Server!process, Server!database
<1>3. CASE Server!Answer(s)
  <2>1. redis = "open" /\ drops = 0 => HandlerOf(s)'
    BY <1>3 DEF Server!Answer, SInv, ServerTyped, HandlersKnown, HandlerOf, HandlerStates,
                Server!process, Server!database
  <2>2. started = 6
    BY <1>3 DEF Server!Answer, Server!Up
  <2>3. QED
    BY <1>3, <2>1, <2>2, SocketKeeps DEF Server!Answer, SInv, ServerTyped,
       HandlerStates, Server!process, Server!database
<1>4. CASE Server!Leave(s)
  <2>1. redis = "open" /\ drops = 0 => HandlerOf(s)'
    BY <1>4 DEF Server!Leave, Server!Send, SInv, ServerTyped, HandlersKnown, HandlerOf,
                Server!process, Server!database
  <2>2. started = 6 /\ ended = "no"
    BY <1>4 DEF Server!Leave, Server!Up, Server!Running
  <2>3. QED
    BY <1>4, <2>1, <2>2, SocketKeeps DEF Server!Leave, Server!Send, SInv, ServerTyped,
       HandlerStates, Server!process, Server!database
<1>5. QED
  BY <1>1, <1>2, <1>3, <1>4

LEMMA DropKeeps == ASSUME SInv, Server!DropRedis PROVE SInv'
<1>1. /\ drops' > 0 /\ drops' \in Nat
      /\ UNCHANGED <<started, shutdown, pool, using, redis, connected, keys, missed>>
      /\ ended' = ended \/ (redis = "closing" /\ ended' = "broken")
      /\ command' = [s \in Sockets |-> "none"]
      /\ handler' = [s \in Sockets |-> IF command[s] = "none" THEN handler[s] ELSE "failed"]
  BY DEF Server!DropRedis, Server!Exit, Server!database, SInv, ServerTyped
<1>2. ServerTyped' /\ ClientFollowsStart'
  BY <1>1 DEF SInv, ServerTyped, ClientFollowsStart, HandlerStates
<1>3. DrainedStaysEmpty'
  BY <1>1 DEF SInv, DrainedStaysEmpty, Broken
<1>4. HandlersKnown'
  BY <1>1 DEF SInv, HandlersKnown, HandlerOf
<1>5. QED
  BY <1>2, <1>3, <1>4 DEF SInv

LEMMA ShutdownKeeps ==
  ASSUME SInv, NEW g \in Signals,
         Server!Signal(g) \/ Server!RabbitClosed(g) \/ Server!Drained(g) \/ Server!Quitted(g)
  PROVE  SInv'
<1>1. /\ started = 6 /\ ended = "no"
      /\ UNCHANGED <<started, todo, using, drops, connected, handler, command, keys, missed>>
  BY SixSteps DEF Server!Signal, Server!RabbitClosed, Server!Drained, Server!Quitted, Server!Up,
                  Server!Running, Server!database, Server!presence
<1>2. /\ shutdown' \in [Signals -> {"no", "closingRabbitMQ", "draining", "quitting"}]
      /\ pool' \in {"open", "closed"} /\ (pool = "closed" => pool' = "closed")
      /\ redis' = redis \/ (redis = "open" /\ redis' = "closing" /\ using = {} /\ pool' = "closed")
  BY DEF Server!Signal, Server!RabbitClosed, Server!Drained, Server!Quitted, Server!At,
         Server!PoolDrained, Server!database, SInv, ServerTyped, DrainedStaysEmpty
<1>3. ServerTyped' /\ ClientFollowsStart'
  BY <1>1, <1>2 DEF SInv, ServerTyped, ClientFollowsStart
<1>4. DrainedStaysEmpty'
  <2>1. CASE Server!Signal(g)
    BY <2>1 DEF Server!Signal, Server!At, Server!database, Server!presence,
                SInv, ServerTyped, DrainedStaysEmpty
  <2>2. CASE Server!RabbitClosed(g)
    BY <2>2 DEF Server!RabbitClosed, Server!At, Server!presence,
                SInv, ServerTyped, DrainedStaysEmpty
  <2>3. CASE Server!Drained(g)
    BY <1>1, <2>3 DEF Server!Drained, Server!At, Server!Exit, Server!PoolDrained, Server!database,
                Server!presence, SInv, ServerTyped, DrainedStaysEmpty, Broken
  <2>4. CASE Server!Quitted(g)
    BY <1>1, <2>4 DEF Server!Quitted, Server!Exit, Server!database, Server!presence,
                SInv, ServerTyped, DrainedStaysEmpty, Broken
  <2>5. QED
    BY <2>1, <2>2, <2>3, <2>4
<1>5. HandlersKnown'
  BY <1>1, <1>2 DEF SInv, HandlersKnown, HandlerOf
<1>6. QED
  BY <1>3, <1>4, <1>5 DEF SInv

LEMMA ServerStutterKeeps == ASSUME SInv, UNCHANGED server PROVE SInv'
BY DEF SInv, ServerTyped, ClientFollowsStart, DrainedStaysEmpty, HandlersKnown, HandlerOf, server

LEMMA ServerStepKeeps == ASSUME SInv, Server!Next PROVE SInv'
<1>1. CASE Server!Start \/ Server!StepSucceeds
  BY <1>1, StartKeeps
<1>2. CASE Server!StepFails \/ Server!UncaughtException \/ \E g \in Signals : Server!Kill(g)
  BY <1>2, EndsKeeps DEF Server!StepFails, Server!UncaughtException, Server!Kill, Server!Exit,
     Server!database, Server!presence, Broken
<1>3. CASE Server!DropRedis
  BY <1>3, DropKeeps
<1>4. CASE \E q \in Requests : \/ \E n \in 1 .. MaxTransactions : Server!Arrive(q, n)
                               \/ Server!Acquire(q) \/ Server!Release(q)
  BY <1>4, RequestKeeps
<1>5. CASE \E s \in Sockets : \/ Server!Connect(s) \/ Server!ExecuteCommand(s)
                              \/ Server!Answer(s) \/ Server!Leave(s)
  BY <1>5, SocketStepKeeps
<1>6. CASE \E g \in Signals : \/ Server!Signal(g) \/ Server!RabbitClosed(g)
                              \/ Server!Drained(g) \/ Server!Quitted(g)
  BY <1>6, ShutdownKeeps
<1>7. QED
  BY <1>1, <1>2, <1>3, <1>4, <1>5, <1>6 DEF Server!Next, Server!Progress

LEMMA ServerSafe == SInv => ShutdownIsGraceful /\ GoneIsCleared
<1>. SUFFICES ASSUME SInv PROVE ShutdownIsGraceful /\ GoneIsCleared
  OBVIOUS
<1>1. ShutdownIsGraceful
  BY DEF SInv, DrainedStaysEmpty, Broken, ShutdownIsGraceful, Server!ShutdownIsGraceful
<1>2. GoneIsCleared
  BY DEF SInv, ServerTyped, HandlerStates, HandlersKnown, HandlerOf, GoneIsCleared,
         Server!GoneIsCleared
<1>3. QED
  BY <1>1, <1>2

LEMMA ServerAlways == MCInit /\ [][MCNext]_<<part, vars, server>> => []SInv
<1>1. MCInit => SInv
  BY ServerInitially DEF MCInit
<1>2. SInv /\ [MCNext]_<<part, vars, server>> => SInv'
  BY ServerStepKeeps, ServerStutterKeeps DEF MCNext
<1>3. QED
  BY <1>1, <1>2, PTL

(* However many shutdowns run into each other, none ends the process within a transaction,
   and a clean one leaves no command to Redis unanswered: the pool that one of them closed
   refuses every later acquire. *)
THEOREM ShutdownsAreGraceful == MCFairSpec => []ShutdownIsGraceful
BY ServerAlways, ServerSafe, PTL DEF MCFairSpec

(* A socket that left leaves no key in Redis, unless it left before its key was answered
   for: for any number of sockets, and for as long as the client keeps its connection. *)
THEOREM GoneSocketsAreCleared == MCFairSpec => []GoneIsCleared
BY ServerAlways, ServerSafe, PTL DEF MCFairSpec

-----------------------------------------------------------------------------
(* Listings *)

LEMMA SameCardinality ==
  ASSUME NEW S
  PROVE  Lists!Cardinality(S) = Cardinality(S) /\ Lists!IsFiniteSet(S) = IsFiniteSet(S)
BY DEF Lists!Cardinality, Cardinality, Lists!IsFiniteSet, IsFiniteSet

ListTyped ==
  /\ kind \in Lists!Kinds
  /\ key \in [Rows -> Keys]
  /\ present \in SUBSET Rows
  /\ seen \in [Rows -> Nat]

Distinct == \A q, r \in Rows : key[q] = key[r] => q = r

\* the place of a row in a list that has no ties
Upto(r) == {q \in present : key[q] <= key[r]}
Place(r) == Cardinality(Upto(r))

(* A list without ties has one order, in which a row stands at its place. *)
LEMMA OneOrder ==
  ASSUME Lists!ConstantsFit, ListTyped, Distinct, NEW s \in Lists!ByKey
  PROVE  /\ s \in Seq(present) /\ Len(s) = Cardinality(present)
         /\ \A i \in 1 .. Len(s) : s[i] \in present /\ Place(s[i]) = i
         /\ \A r \in present : \E i \in 1 .. Len(s) : s[i] = r
<1> DEFINE n == Cardinality(present)
<1>1. IsFiniteSet(present) /\ n \in Nat
  BY SameCardinality, FS_Subset, FS_CardinalityType DEF Lists!ConstantsFit, ListTyped
<1>2. /\ s \in [1 .. n -> present]
      /\ \A i, j \in 1 .. n : i # j => s[i] # s[j]
      /\ s \in Seq(present) /\ Len(s) = n
  BY <1>1, SameCardinality DEF Lists!ByKey, Lists!AnyOrder, Lists!SetToSeqs
<1>3. \A i, j \in 1 .. n : i <= j => key[s[i]] <= key[s[j]]
  BY <1>2 DEF Lists!ByKey
<1> HIDE DEF n
<1>4. \A r \in present : key[r] \in Int
  BY DEF Lists!ConstantsFit, ListTyped
<1>5. s \in Injection(1 .. n, present)
  BY <1>2 DEF Injection, IsInjective
<1>6. IsFiniteSet(1 .. n) /\ Cardinality(1 .. n) = n
  BY <1>1, FS_Interval
<1>7. s \in Surjection(1 .. n, present)
  BY <1>1, <1>5, <1>6, FS_Injection DEF n
<1>8. \A r \in present : \E i \in 1 .. n : s[i] = r
  BY <1>7 DEF Surjection
<1>9. ASSUME NEW i \in 1 .. n PROVE Place(s[i]) = i
  <2>1. ASSUME NEW j \in 1 .. n PROVE key[s[j]] <= key[s[i]] <=> j <= i
    <3>1. s[i] \in Rows /\ s[j] \in Rows /\ key[s[i]] \in Int /\ key[s[j]] \in Int
      BY <1>2, <1>4 DEF ListTyped
    <3>2. CASE j <= i
      BY <1>3, <3>2
    <3>3. CASE ~(j <= i)
      <4>1. key[s[i]] <= key[s[j]] /\ s[i] # s[j]
        BY <1>1, <1>2, <1>3, <3>3
      <4>2. key[s[i]] # key[s[j]]
        BY <3>1, <4>1 DEF Distinct
      <4> QED BY <3>1, <3>3, <4>1, <4>2
    <3> QED BY <3>2, <3>3
  <2> DEFINE first == [j \in 1 .. i |-> s[j]]
  <2>2. first \in [1 .. i -> Upto(s[i])]
    BY <1>1, <1>2, <2>1 DEF Upto
  <2>3. \A j, k \in 1 .. i : first[j] = first[k] => j = k
    BY <1>1, <1>2
  <2>4. \A r \in Upto(s[i]) : \E j \in 1 .. i : first[j] = r
    <3> SUFFICES ASSUME NEW r \in Upto(s[i]) PROVE \E j \in 1 .. i : first[j] = r
      OBVIOUS
    <3>1. PICK j \in 1 .. n : s[j] = r
      BY <1>8 DEF Upto
    <3>2. j <= i
      BY <2>1, <3>1 DEF Upto
    <3>3. j \in 1 .. i
      BY <1>1, <3>2
    <3> QED BY <3>1, <3>3
  <2> HIDE DEF first
  <2>5. first \in Bijection(1 .. i, Upto(s[i]))
    BY <2>2, <2>3, <2>4 DEF Bijection, Injection, IsInjective, Surjection
  <2>6. IsFiniteSet(1 .. i) /\ Cardinality(1 .. i) = i
    BY <1>1, FS_Interval
  <2> QED BY <2>5, <2>6, FS_Bijection DEF ExistsBijection, Place
<1> QED BY <1>2, <1>8, <1>9 DEF n

(* A page of such a list holds the rows whose places are on it. *)
LEMMA SliceHolds ==
  ASSUME Lists!ConstantsFit, ListTyped, Distinct, NEW s \in Lists!ByKey,
         NEW offset \in Nat, NEW limit \in Nat, NEW r
  PROVE  r \in Lists!ToSet(SubSeq(s, offset + 1, Lists!Smaller(offset + limit, Len(s)))) <=>
           r \in present /\ offset < Place(r) /\ Place(r) <= offset + limit
<1>1. /\ s \in Seq(present) /\ Len(s) \in Nat
      /\ \A i \in 1 .. Len(s) : s[i] \in present /\ Place(s[i]) = i
      /\ \A q \in present : \E i \in 1 .. Len(s) : s[i] = q
  BY OneOrder
<1> DEFINE last == Lists!Smaller(offset + limit, Len(s))
           page == SubSeq(s, offset + 1, last)
<1>2. last \in Nat /\ last <= offset + limit /\ last <= Len(s) /\ (last = offset + limit \/ last = Len(s))
  BY <1>1 DEF Lists!Smaller
<1> HIDE DEF last
<1>4. DOMAIN page = 1 .. last - offset /\ \A i \in 1 .. last - offset : page[i] = s[i + offset]
  <2>1. 1 .. 1 + last - (offset + 1) = 1 .. last - offset
    BY <1>2
  <2>2. \A i \in 1 .. last - offset : i + (offset + 1) - 1 = i + offset
    BY <1>2
  <2>3. page = [i \in 1 .. 1 + last - (offset + 1) |-> s[i + (offset + 1) - 1]]
    BY <1>1, <1>2
  <2> QED BY <2>1, <2>2, <2>3
<1> HIDE DEF page
<1>5. r \in Lists!ToSet(page) <=> \E i \in 1 .. last - offset : r = s[i + offset]
  BY <1>4 DEF Lists!ToSet
<1>6. ASSUME NEW i \in 1 .. last - offset, r = s[i + offset]
      PROVE  r \in present /\ offset < Place(r) /\ Place(r) <= offset + limit
  <2>1. i + offset \in 1 .. Len(s) /\ i + offset <= offset + limit /\ offset < i + offset
    BY <1>1, <1>2
  <2> QED BY <1>1, <1>6, <2>1
<1>7. ASSUME r \in present, offset < Place(r), Place(r) <= offset + limit
      PROVE  \E i \in 1 .. last - offset : r = s[i + offset]
  <2>1. PICK k \in 1 .. Len(s) : s[k] = r
    BY <1>1, <1>7
  <2>2. Place(r) = k
    BY <1>1, <2>1
  <2>3. k - offset \in 1 .. last - offset /\ (k - offset) + offset = k
    BY <1>1, <1>2, <1>7, <2>2
  <2> QED BY <2>1, <2>3
<1> QED BY <1>5, <1>6, <1>7 DEF page, last

LEMMA PageTyped ==
  ASSUME Lists!ConstantsFit, ListTyped, NEW offset \in Nat, NEW limit \in Nat, NEW s \in Lists!AnyOrder
  PROVE  SubSeq(s, offset + 1, Lists!Smaller(offset + limit, Len(s))) \in Seq(Rows)
<1>1. IsFiniteSet(present) /\ Cardinality(present) \in Nat
  BY SameCardinality, FS_Subset, FS_CardinalityType DEF Lists!ConstantsFit, ListTyped
<1>2. s \in Seq(Rows) /\ Len(s) \in Nat
  BY <1>1, SameCardinality DEF Lists!AnyOrder, Lists!SetToSeqs, ListTyped
<1> DEFINE last == Lists!Smaller(offset + limit, Len(s))
<1>3. last \in Nat /\ last <= Len(s)
  BY <1>2 DEF Lists!Smaller
<1> HIDE DEF last
<1>4. SubSeq(s, offset + 1, last) \in Seq(Rows)
  BY <1>2, <1>3
<1> QED BY <1>4 DEF last

LEMMA PlaceBounds ==
  ASSUME Lists!ConstantsFit, ListTyped, NEW r \in Rows
  PROVE  /\ Place(r) \in Nat /\ Cardinality(present) \in Nat
         /\ Place(r) <= Cardinality(present)
         /\ r \in present => Place(r) >= 1
<1>1. IsFiniteSet(present) /\ Cardinality(present) \in Nat
  BY SameCardinality, FS_Subset, FS_CardinalityType DEF Lists!ConstantsFit, ListTyped
<1>2. IsFiniteSet(Upto(r)) /\ Place(r) \in Nat /\ Place(r) <= Cardinality(present)
  BY <1>1, FS_Subset, FS_CardinalityType DEF Upto, Place
<1>3. r \in present => r \in Upto(r)
  <2>1. key[r] \in Int
    BY DEF ListTyped, Lists!ConstantsFit
  <2> QED BY <2>1 DEF Upto
<1>4. Upto(r) # {} => Place(r) # 0
  BY <1>2, FS_EmptySet DEF Place
<1> QED BY <1>1, <1>2, <1>3, <1>4

\* the more rows, the higher the places
LEMMA PlacesGrow ==
  ASSUME Lists!ConstantsFit, ListTyped, NEW P \in SUBSET Rows, NEW Q \in SUBSET Rows, P \subseteq Q, NEW r
  PROVE  Cardinality({q \in P : key[q] <= key[r]}) <= Cardinality({q \in Q : key[q] <= key[r]})
<1> DEFINE more == {q \in Q : key[q] <= key[r]}
<1>1. IsFiniteSet(more)
  BY SameCardinality, FS_Subset DEF Lists!ConstantsFit
<1>2. {q \in P : key[q] <= key[r]} \in SUBSET more
  OBVIOUS
<1> QED BY <1>1, <1>2, FS_Subset

-----------------------------------------------------------------------------
(* How far a walk has come: the rows before its place in the list. *)
Behind == (request.page - 1) * request.limit

Sane == request.page \in Nat \ {0} /\ request.limit \in 1 .. MaxLimit

\* nothing has been answered yet, and the use case will repair what is asked for
Fresh ==
  /\ kind \in Lists!Together \ {"history"} /\ request.pc = "idle"
  /\ request.page \in 0 .. 1 /\ request.limit \in 0 .. MaxLimit + 1
  /\ \A r \in Rows : seen[r] = 0

RequestOK ==
  /\ request \in [pc : {"idle", "asked", "done"}, page : Nat, limit : Nat, count : Int,
                  read : BOOLEAN, rows : Seq(Rows), late : BOOLEAN]
  /\ request.count \in Nat \cup {-1}
  /\ request.pc = "idle" => ~request.read /\ request.count = -1 /\ ~request.late
  /\ Sane \/ Fresh

Found(r) == r \in Lists!ToSet(request.rows)

\* What was given lies behind, and the page that was read holds nothing that was given.
GivenOnce ==
  \A r \in Rows :
    /\ seen[r] <= 1
    /\ request.pc # "done" /\ r \in present /\ seen[r] = 1 => Place(r) <= Behind
    /\ request.pc = "asked" /\ request.read /\ Found(r) =>
         seen[r] = 0 /\ (r \in present => Place(r) <= Behind + request.limit)

(* What was not given lies ahead; if it is not on the page that was read either, it lies
   beyond that page, and a count that is not out of date tells of it. *)
NoneLeftBehind ==
  /\ request.pc = "asked" /\ request.count # -1 /\ ~request.read /\ ~request.late =>
       request.count = Cardinality(present)
  /\ \A r \in present \ added :
       seen[r] > 0 \/
         /\ request.pc # "done"
         /\ Sane => Place(r) > Behind
         /\ request.pc = "asked" /\ request.read /\ ~Found(r) =>
              /\ Place(r) > Behind + request.limit
              /\ request.count # -1 /\ ~request.late => request.count > Behind + request.limit

\* Without ties, and with an order, a walk keeps both while its proviso lasts.
WalkInv ==
  /\ ListTyped /\ RequestOK
  /\ kind \notin Lists!Unordered /\ Distinct =>
       /\ added = {} => GivenOnce
       /\ removed = {} /\ ~torn => NoneLeftBehind

LEMMA WalkBegins == Lists!ConstantsFit /\ Lists!Init => WalkInv
<1> SUFFICES ASSUME Lists!ConstantsFit, Lists!Init PROVE WalkInv
  OBVIOUS
<1>1. ListTyped /\ \A r \in Rows : seen[r] = 0
  BY DEF Lists!Init, ListTyped
<1>2. PICK page \in 0 .. 1, limit \in 0 .. MaxLimit + 1 :
        /\ request = Lists!Unasked(page, limit)
        /\ \/ kind \in Lists!Together \ {"history"}
           \/ page = 1 /\ limit \in 1 .. MaxLimit
  BY DEF Lists!Init, Lists!ConstantsFit
<1>3. /\ request.pc = "idle" /\ request.page = page /\ request.limit = limit /\ request.count = -1
      /\ ~request.read /\ request.rows = <<>> /\ ~request.late
      /\ request \in [pc : {"idle", "asked", "done"}, page : Nat, limit : Nat, count : Int,
                      read : BOOLEAN, rows : Seq(Rows), late : BOOLEAN]
  BY <1>2 DEF Lists!Unasked, Lists!ConstantsFit
<1>4. RequestOK
  BY <1>1, <1>2, <1>3 DEF RequestOK, Sane, Fresh
<1>5. GivenOnce
  BY <1>1, <1>3 DEF GivenOnce
<1>6. ASSUME NEW r \in present, Sane PROVE Place(r) > Behind
  <2>1. Behind = 0
    BY <1>2, <1>3, <1>6 DEF Behind, Sane, Lists!ConstantsFit
  <2> QED BY <1>1, <2>1, PlaceBounds DEF ListTyped
<1>7. NoneLeftBehind
  BY <1>3, <1>6 DEF NoneLeftBehind
<1> QED BY <1>1, <1>4, <1>5, <1>7 DEF WalkInv

(* A request that is asked again is asked for the same page, and the first one for the
   first page: what the use cases repair is never needed after an answer. *)
LEMMA AskKeeps ==
  ASSUME Lists!ConstantsFit, WalkInv, NEW page, NEW limit, NEW listing, Lists!Ask(listing, page, limit),
         page \in Nat \ {0}, limit \in 1 .. MaxLimit,
         Fresh => page = 1,
         ~Fresh => page = request.page /\ limit = request.limit
  PROVE  WalkInv'
<1>1. UNCHANGED <<kind, key, present, seen, added, removed, torn>> /\ request.pc = "idle"
  BY DEF Lists!Ask
<1>2. /\ request'.pc = "asked" /\ request'.page = page /\ request'.limit = limit /\ request'.count = -1
      /\ ~request'.read /\ request'.rows = <<>> /\ ~request'.late
      /\ request' \in [pc : {"idle", "asked", "done"}, page : Nat, limit : Nat, count : Int,
                       read : BOOLEAN, rows : Seq(Rows), late : BOOLEAN]
  <2>1. page \in Nat /\ limit \in Nat
    BY DEF Lists!ConstantsFit
  <2>2. request' = [pc |-> "asked", page |-> page, limit |-> limit, count |-> -1, read |-> FALSE,
                    rows |-> <<>>, late |-> FALSE]
    BY DEF Lists!Ask, Lists!Unasked
  <2> QED BY <2>1, <2>2
<1>3. RequestOK' /\ ListTyped'
  BY <1>1, <1>2 DEF WalkInv, RequestOK, Sane, ListTyped
<1>4. Place(1)' = Place(1) /\ \A r : Place(r)' = Place(r)
  BY <1>1 DEF Place, Upto
<1>5. CASE Fresh
  <2>1. Behind' = 0
    BY <1>2, <1>5 DEF Behind, Lists!ConstantsFit
  <2>2. \A r \in Rows : seen'[r] = 0
    BY <1>1, <1>5 DEF Fresh
  <2>3. \A r \in present' : Place(r)' > Behind'
    BY <1>1, <1>4, <2>1, PlaceBounds DEF WalkInv, ListTyped
  <2>4. GivenOnce'
    BY <1>2, <2>2 DEF GivenOnce
  <2>5. NoneLeftBehind'
    BY <1>2, <2>3 DEF NoneLeftBehind
  <2> QED BY <1>3, <2>4, <2>5 DEF WalkInv
<1>6. CASE ~Fresh
  <2>1. Behind' = Behind /\ Sane
    BY <1>2, <1>6 DEF Behind, WalkInv, RequestOK
  <2>2. GivenOnce => GivenOnce'
    BY <1>1, <1>2, <1>4, <2>1 DEF GivenOnce
  <2>3. NoneLeftBehind => NoneLeftBehind'
    BY <1>1, <1>2, <1>4, <2>1 DEF NoneLeftBehind
  <2> QED BY <1>1, <1>3, <2>2, <2>3 DEF WalkInv, Distinct
<1> QED BY <1>5, <1>6

LEMMA AsksKeep ==
  ASSUME Lists!ConstantsFit, WalkInv,
         \/ Lists!ListTournaments \/ Lists!ListWithdrawals \/ Lists!ListDisputes \/ Lists!ListUsers
         \/ Lists!GetTransactionHistory \/ Lists!GetAllTeams \/ Lists!GetTeamMembers
         \/ Lists!GetUserTeams \/ Lists!ListTournamentParticipants
  PROVE  WalkInv'
<1>1. /\ request.page \in Nat /\ request.limit \in Nat
      /\ MaxLimit \in Nat \ {0} /\ DefaultLimit \in 1 .. MaxLimit
      /\ Sane \/ Fresh
  BY DEF WalkInv, RequestOK, Lists!ConstantsFit
<1>2. /\ Lists!SanePage \in Nat \ {0}
      /\ Fresh => Lists!SanePage = 1
      /\ ~Fresh => Lists!SanePage = request.page
  BY <1>1 DEF Lists!SanePage, Lists!Larger, Sane, Fresh
<1>3. /\ Lists!SaneLimit \in 1 .. MaxLimit
      /\ ~Fresh => Lists!SaneLimit = request.limit
  BY <1>1 DEF Lists!SaneLimit, Lists!Smaller, Sane
<1>4. /\ Lists!Smaller(Lists!Larger(1, request.limit), MaxLimit) \in 1 .. MaxLimit
      /\ ~Fresh => Lists!Smaller(Lists!Larger(1, request.limit), MaxLimit) = request.limit
  BY <1>1 DEF Lists!Larger, Lists!Smaller, Sane
<1>5. CASE Lists!ListTournaments
  BY <1>2, <1>4, <1>5, AskKeeps DEF Lists!ListTournaments
<1>6. ASSUME NEW listing, Lists!Ask(listing, Lists!SanePage, Lists!SaneLimit) PROVE WalkInv'
  BY <1>2, <1>3, <1>6, AskKeeps
<1>7. ASSUME NEW listing, listing \notin Lists!Together \ {"history"},
             Lists!Ask(listing, request.page, request.limit)
      PROVE  WalkInv'
  <2>1. ~Fresh
    BY <1>7 DEF Fresh, Lists!Ask
  <2>2. request.page \in Nat \ {0} /\ request.limit \in 1 .. MaxLimit
    BY <1>1, <2>1 DEF Sane
  <2> QED BY <1>7, <2>1, <2>2, AskKeeps
<1>8. CASE Lists!ListWithdrawals \/ Lists!ListDisputes \/ Lists!ListUsers
  BY <1>6, <1>8 DEF Lists!ListWithdrawals, Lists!ListDisputes, Lists!ListUsers
<1>9. CASE \/ Lists!GetTransactionHistory \/ Lists!GetAllTeams \/ Lists!GetTeamMembers
           \/ Lists!GetUserTeams \/ Lists!ListTournamentParticipants
  <2>1. \A listing \in {"history", "teams", "members", "memberships", "participants"} :
          listing \notin Lists!Together \ {"history"}
    BY DEF Lists!Together
  <2> QED BY <1>7, <1>9, <2>1 DEF Lists!GetTransactionHistory, Lists!GetAllTeams, Lists!GetTeamMembers,
                                 Lists!GetUserTeams, Lists!ListTournamentParticipants
<1> QED BY <1>5, <1>8, <1>9

-----------------------------------------------------------------------------
(* What the two queries find. *)

\* A list that is ordered and has no ties has one page of each number.
LEMMA FoundOnPage ==
  ASSUME Lists!ConstantsFit, ListTyped, RequestOK, ~Fresh, NEW rows \in Lists!Found
  PROVE  /\ rows \in Seq(Rows)
         /\ kind \notin Lists!Unordered /\ Distinct =>
              \A r \in Rows : r \in Lists!ToSet(rows) <=>
                /\ r \in present /\ Behind < Place(r) /\ Place(r) <= Behind + request.limit
<1>1. Behind \in Nat /\ request.limit \in Nat
  BY DEF Behind, RequestOK, Sane, Lists!ConstantsFit
<1>2. \/ rows \in {Lists!PageOf(s) : s \in Lists!ByKey}
      \/ kind \in Lists!Unordered /\ rows \in {Lists!PageOf(s) : s \in Lists!AnyOrder}
  BY DEF ListTyped, Lists!Kinds, Lists!Together, Lists!RowsFirst, Lists!Unordered, Lists!Found,
         Lists!FindTournaments, Lists!FindTransactions, Lists!FindWalletTransactions,
         Lists!FindDisputes, Lists!FindUsers, Lists!FindTeams, Lists!FindTeamMembers,
         Lists!FindUserTeams, Lists!FindParticipants
<1>3. PICK s \in Lists!AnyOrder :
        /\ rows = Lists!PageOf(s)
        /\ kind \notin Lists!Unordered => s \in Lists!ByKey
  BY <1>2 DEF Lists!ByKey
<1>4. rows = SubSeq(s, Behind + 1, Lists!Smaller(Behind + request.limit, Len(s)))
  BY <1>3 DEF Lists!PageOf, Behind
<1>5. rows \in Seq(Rows)
  BY <1>1, <1>4, PageTyped
<1>6. ASSUME kind \notin Lists!Unordered, Distinct, NEW r \in Rows
      PROVE  r \in Lists!ToSet(rows) <=>
               r \in present /\ Behind < Place(r) /\ Place(r) <= Behind + request.limit
  BY <1>1, <1>3, <1>4, <1>6, SliceHolds
<1> QED BY <1>5, <1>6

\* While a request is asked its page and limit are those of the walk.
LEMMA AskedIsSane ==
  ASSUME Lists!ConstantsFit, WalkInv, request.pc = "asked"
  PROVE  /\ Sane /\ ~Fresh
         /\ Behind \in Nat /\ request.limit \in Nat \ {0} /\ request.page \in Nat \ {0}
BY DEF WalkInv, RequestOK, Fresh, Sane, Behind, Lists!ConstantsFit

LEMMA CountRowsKeeps ==
  ASSUME Lists!ConstantsFit, WalkInv, Lists!CountRows
  PROVE  WalkInv'
<1>1. /\ UNCHANGED <<kind, key, present, seen, added, removed, torn>>
      /\ request.pc = "asked" /\ request.count = -1
      /\ request' = [request EXCEPT !.count = Cardinality(present)]
  BY SameCardinality DEF Lists!CountRows, Lists!Open
<1>2. Sane /\ ~Fresh /\ Behind \in Nat /\ request.limit \in Nat
  BY <1>1, AskedIsSane
<1>3. Cardinality(present) \in Nat
  BY SameCardinality, FS_Subset, FS_CardinalityType DEF Lists!ConstantsFit, WalkInv, ListTyped
<1>4. /\ request'.pc = "asked" /\ request'.page = request.page /\ request'.limit = request.limit
      /\ request'.count = Cardinality(present)
      /\ request'.read = request.read /\ request'.rows = request.rows /\ request'.late = request.late
      /\ request' \in [pc : {"idle", "asked", "done"}, page : Nat, limit : Nat, count : Int,
                       read : BOOLEAN, rows : Seq(Rows), late : BOOLEAN]
  BY <1>1, <1>3 DEF WalkInv, RequestOK
<1>5. RequestOK' /\ ListTyped'
  BY <1>1, <1>2, <1>3, <1>4 DEF WalkInv, RequestOK, Sane, ListTyped
<1>6. Behind' = Behind /\ (Sane' <=> Sane) /\ \A r : Place(r)' = Place(r) /\ (Found(r)' <=> Found(r))
  BY <1>1, <1>4 DEF Behind, Sane, Place, Upto, Found
<1>7. GivenOnce => GivenOnce'
  BY <1>1, <1>4, <1>6 DEF GivenOnce
<1>8. ASSUME NoneLeftBehind PROVE NoneLeftBehind'
  <2>1. ASSUME NEW r \in present \ added, seen[r] = 0
        PROVE  /\ Place(r) > Behind
               /\ request.read /\ ~Found(r) =>
                    /\ Place(r) > Behind + request.limit
                    /\ Cardinality(present) > Behind + request.limit
    <3>1. r \in Rows /\ ~(seen[r] > 0)
      BY <2>1 DEF WalkInv, ListTyped
    <3>2. Place(r) \in Nat /\ Place(r) <= Cardinality(present)
      BY <3>1, PlaceBounds DEF WalkInv
    <3>3. /\ Place(r) > Behind
          /\ request.read /\ ~Found(r) => Place(r) > Behind + request.limit
      BY <1>1, <1>2, <1>8, <2>1, <3>1 DEF NoneLeftBehind
    <3> QED BY <1>2, <1>3, <3>2, <3>3
  <2>2. \A r \in present : seen[r] > 0 \/ seen[r] = 0
    BY DEF WalkInv, ListTyped
  <2> QED BY <1>1, <1>4, <1>6, <2>1, <2>2 DEF NoneLeftBehind
<1> QED BY <1>1, <1>5, <1>7, <1>8 DEF WalkInv, Distinct

LEMMA ReadKeeps ==
  ASSUME Lists!ConstantsFit, WalkInv, request.pc = "asked", ~request.read, NEW rows \in Lists!Found,
         NEW count, request' = [request EXCEPT !.rows = rows, !.read = TRUE, !.count = count],
         count = request.count \/ count = Cardinality(present),
         UNCHANGED <<kind, key, present, seen, added, removed, torn>>
  PROVE  WalkInv'
<1>1. Sane /\ ~Fresh /\ Behind \in Nat /\ request.limit \in Nat
  BY AskedIsSane
<1>2. Cardinality(present) \in Nat /\ count \in Nat \cup {-1}
  BY SameCardinality, FS_Subset, FS_CardinalityType DEF Lists!ConstantsFit, WalkInv, ListTyped, RequestOK
<1>3. /\ rows \in Seq(Rows)
      /\ kind \notin Lists!Unordered /\ Distinct =>
           \A r \in Rows : r \in Lists!ToSet(rows) <=>
             /\ r \in present /\ Behind < Place(r) /\ Place(r) <= Behind + request.limit
  BY <1>1, FoundOnPage DEF WalkInv
<1>4. /\ request'.pc = "asked" /\ request'.page = request.page /\ request'.limit = request.limit
      /\ request'.count = count
      /\ request'.read /\ request'.rows = rows /\ request'.late = request.late
      /\ request' \in [pc : {"idle", "asked", "done"}, page : Nat, limit : Nat, count : Int,
                       read : BOOLEAN, rows : Seq(Rows), late : BOOLEAN]
  <2>1. request \in [pc : {"idle", "asked", "done"}, page : Nat, limit : Nat, count : Int,
                     read : BOOLEAN, rows : Seq(Rows), late : BOOLEAN]
    BY DEF WalkInv, RequestOK
  <2>2. request' = [pc |-> request.pc, page |-> request.page, limit |-> request.limit, count |-> count,
                    read |-> TRUE, rows |-> rows, late |-> request.late]
    BY <2>1
  <2>3. count \in Int /\ rows \in Seq(Rows)
    BY <1>2, <1>3
  <2>4. request' \in [pc : {"idle", "asked", "done"}, page : Nat, limit : Nat, count : Int,
                      read : BOOLEAN, rows : Seq(Rows), late : BOOLEAN]
    BY <2>1, <2>2, <2>3
  <2> QED BY <2>2, <2>4
<1>5. RequestOK' /\ ListTyped'
  BY <1>1, <1>2, <1>4 DEF WalkInv, RequestOK, Sane, ListTyped
<1>6. Behind' = Behind /\ (Sane' <=> Sane) /\ \A r : Place(r)' = Place(r) /\ (Found(r)' <=> r \in Lists!ToSet(rows))
  BY <1>4 DEF Behind, Sane, Place, Upto, Found
<1>7. ASSUME kind \notin Lists!Unordered, Distinct, GivenOnce PROVE GivenOnce'
  <2>1. ASSUME NEW r \in Rows, r \in Lists!ToSet(rows)
        PROVE  seen[r] = 0 /\ Place(r) <= Behind + request.limit
    <3>1. r \in present /\ Behind < Place(r) /\ Place(r) <= Behind + request.limit
      BY <1>3, <1>7, <2>1
    <3>2. Place(r) \in Nat /\ seen[r] \in Nat
      BY PlaceBounds DEF WalkInv, ListTyped
    <3>3. seen[r] <= 1 /\ seen[r] # 1
      BY <1>1, <1>7, <3>1, <3>2 DEF GivenOnce
    <3> QED BY <3>1, <3>2, <3>3
  <2> QED BY <1>4, <1>6, <1>7, <2>1 DEF GivenOnce
<1>8. ASSUME kind \notin Lists!Unordered, Distinct, NoneLeftBehind PROVE NoneLeftBehind'
  <2>1. ASSUME NEW r \in present \ added, seen[r] = 0
        PROVE  /\ Place(r) > Behind
               /\ r \notin Lists!ToSet(rows) =>
                    /\ Place(r) > Behind + request.limit
                    /\ count # -1 /\ ~request.late => count > Behind + request.limit
    <3>1. r \in Rows /\ ~(seen[r] > 0)
      BY <2>1 DEF WalkInv, ListTyped
    <3>2. Place(r) \in Nat /\ Place(r) <= Cardinality(present)
      BY <3>1, PlaceBounds DEF WalkInv
    <3>3. Place(r) > Behind
      BY <1>1, <1>8, <2>1, <3>1 DEF NoneLeftBehind
    <3>4. r \notin Lists!ToSet(rows) => Place(r) > Behind + request.limit
      BY <1>1, <1>3, <1>8, <2>1, <3>1, <3>2, <3>3
    <3>5. count # -1 /\ ~request.late => count = Cardinality(present)
      BY <1>8 DEF NoneLeftBehind
    <3> QED BY <1>1, <1>2, <3>2, <3>3, <3>4, <3>5
  <2>2. \A r \in present : seen[r] > 0 \/ seen[r] = 0
    BY DEF WalkInv, ListTyped
  <2> QED BY <1>4, <1>6, <2>1, <2>2 DEF NoneLeftBehind
<1> QED BY <1>5, <1>7, <1>8 DEF WalkInv, Distinct

LEMMA ReadsKeep ==
  ASSUME Lists!ConstantsFit, WalkInv, Lists!ReadRows \/ Lists!ReadParticipants
  PROVE  WalkInv'
<1>1. PICK rows \in Lists!Found, count \in {request.count, Cardinality(present)} :
        request' = [request EXCEPT !.rows = rows, !.read = TRUE, !.count = count]
  <2>1. CASE Lists!ReadRows
    <3>1. PICK rows \in Lists!Found : request' = [request EXCEPT !.rows = rows, !.read = TRUE]
      BY <2>1 DEF Lists!ReadRows
    <3>2. request' = [request EXCEPT !.rows = rows, !.read = TRUE, !.count = request.count]
      BY <3>1 DEF WalkInv, RequestOK
    <3> QED BY <3>2
  <2>2. CASE Lists!ReadParticipants
    BY <2>2, SameCardinality DEF Lists!ReadParticipants
  <2> QED BY <2>1, <2>2
<1>2. /\ request.pc = "asked" /\ ~request.read
      /\ UNCHANGED <<kind, key, present, seen, added, removed, torn>>
  BY DEF Lists!ReadRows, Lists!ReadParticipants, Lists!Open
<1> QED BY <1>1, <1>2, ReadKeeps

LEMMA QueryFailsKeeps ==
  ASSUME Lists!ConstantsFit, WalkInv, Lists!QueryFails
  PROVE  WalkInv'
<1>1. /\ UNCHANGED <<kind, key, present, seen, added, removed, torn>>
      /\ request.pc = "asked" /\ request' = Lists!Unasked(request.page, request.limit)
  BY DEF Lists!QueryFails, Lists!Open
<1>2. Sane /\ ~Fresh /\ Behind \in Nat /\ request.limit \in Nat
  BY <1>1, AskedIsSane
<1>3. /\ request'.pc = "idle" /\ request'.page = request.page /\ request'.limit = request.limit
      /\ request'.count = -1 /\ ~request'.read /\ ~request'.late
      /\ request' \in [pc : {"idle", "asked", "done"}, page : Nat, limit : Nat, count : Int,
                       read : BOOLEAN, rows : Seq(Rows), late : BOOLEAN]
  BY <1>1 DEF WalkInv, RequestOK, Lists!Unasked
<1>4. RequestOK' /\ ListTyped'
  BY <1>1, <1>2, <1>3 DEF WalkInv, RequestOK, Sane, ListTyped
<1>5. Behind' = Behind /\ (Sane' <=> Sane) /\ \A r : Place(r)' = Place(r)
  BY <1>1, <1>3 DEF Behind, Sane, Place, Upto
<1>6. GivenOnce => GivenOnce'
  BY <1>1, <1>3, <1>5 DEF GivenOnce
<1>7. NoneLeftBehind => NoneLeftBehind'
  BY <1>1, <1>3, <1>5 DEF NoneLeftBehind
<1> QED BY <1>1, <1>4, <1>6, <1>7 DEF WalkInv, Distinct

LEMMA NextPage ==
  ASSUME NEW limit \in Nat, NEW page \in Nat
  PROVE  ((page + 1) - 1) * limit = (page - 1) * limit + limit
<1>1. (page + 1) - 1 = page
  OBVIOUS
<1>2. page * limit = (page - 1) * limit + limit
  OBVIOUS
<1> QED BY <1>1, <1>2

LEMMA LastPageCounts ==
  ASSUME NEW count \in Nat, NEW limit \in Nat \ {0}, NEW page \in Nat \ {0},
         page >= Lists!TotalPages(count, limit)
  PROVE  count <= (page - 1) * limit + limit
<1>1. page * limit >= count
  BY DEF Lists!TotalPages
<1>2. (page - 1) * limit + limit = page * limit
  OBVIOUS
<1> QED BY <1>1, <1>2

LEMMA PageAnswerKeeps ==
  ASSUME Lists!ConstantsFit, WalkInv, Lists!Answer
  PROVE  WalkInv'
<1> DEFINE next == Lists!Unasked(request.page + 1, request.limit)
           over == [request EXCEPT !.pc = "done"]
<1>1. /\ UNCHANGED <<kind, key, present, added, removed>>
      /\ request.pc = "asked" /\ request.count \in Nat /\ request.read
      /\ seen' = [r \in Rows |-> IF Found(r) THEN seen[r] + 1 ELSE seen[r]]
      /\ torn' = (torn \/ request.late)
      /\ \/ request' = next
         \/ request.page >= Lists!TotalPages(request.count, request.limit) /\ request' = over
  <2>1. request.page \in Int /\ request.count \in Nat \cup {-1}
    BY DEF WalkInv, RequestOK
  <2>2. Lists!TotalPages(request.count, request.limit) \in Int
    BY AskedIsSane, <2>1 DEF Lists!Answer, Lists!Open, Lists!TotalPages
  <2> QED BY <2>1, <2>2 DEF Lists!Answer, Lists!Open, Found
<1>2. Sane /\ ~Fresh /\ Behind \in Nat /\ request.limit \in Nat \ {0} /\ request.page \in Nat \ {0}
  BY <1>1, AskedIsSane
<1>3. request \in [pc : {"idle", "asked", "done"}, page : Nat, limit : Nat, count : Int,
                   read : BOOLEAN, rows : Seq(Rows), late : BOOLEAN]
  BY DEF WalkInv, RequestOK
<1>4. CASE request' = next
  <2>1. /\ request'.pc = "idle" /\ request'.page = request.page + 1 /\ request'.limit = request.limit
        /\ request'.count = -1 /\ ~request'.read /\ ~request'.late
    BY <1>4 DEF Lists!Unasked
  <2>2. request' \in [pc : {"idle", "asked", "done"}, page : Nat, limit : Nat, count : Int,
                      read : BOOLEAN, rows : Seq(Rows), late : BOOLEAN]
    BY <1>2, <1>4 DEF Lists!Unasked
  <2>3. RequestOK' /\ ListTyped'
    BY <1>1, <1>2, <2>1, <2>2 DEF WalkInv, RequestOK, Sane, ListTyped
  <2>4. \A r : Place(r)' = Place(r)
    BY <1>1 DEF Place, Upto
  <2>5. Behind' = Behind + request.limit
    <3>1. ((request.page + 1) - 1) * request.limit = (request.page - 1) * request.limit + request.limit
      BY <1>2, NextPage
    <3> QED BY <2>1, <3>1 DEF Behind
  <2>6. ASSUME GivenOnce PROVE GivenOnce'
    <3>1. ASSUME NEW r \in Rows
          PROVE  /\ seen'[r] <= 1
                 /\ r \in present /\ seen'[r] = 1 => Place(r) <= Behind'
      <4>1. Place(r) \in Nat /\ seen[r] \in Nat
        BY PlaceBounds DEF WalkInv, ListTyped
      <4>2. CASE Found(r)
        BY <1>1, <2>5, <2>6, <4>1, <4>2 DEF GivenOnce
      <4>3. CASE ~Found(r)
        BY <1>1, <1>2, <2>5, <2>6, <4>1, <4>3 DEF GivenOnce
      <4> QED BY <4>2, <4>3
    <3> QED BY <1>1, <2>1, <2>4, <3>1 DEF GivenOnce
  <2>7. ASSUME NoneLeftBehind, ~torn' PROVE NoneLeftBehind'
    <3>1. ASSUME NEW r \in present \ added, ~(seen'[r] > 0)
          PROVE  Place(r) > Behind'
      <4>1. r \in Rows /\ seen[r] \in Nat
        BY DEF WalkInv, ListTyped
      <4>2. ~Found(r) /\ ~(seen[r] > 0)
        BY <1>1, <3>1, <4>1
      <4> QED BY <1>1, <2>5, <2>7, <4>2 DEF NoneLeftBehind
    <3> QED BY <1>1, <2>1, <2>4, <3>1 DEF NoneLeftBehind
  <2> QED BY <1>1, <2>3, <2>6, <2>7 DEF WalkInv, Distinct
<1>5. CASE request.page >= Lists!TotalPages(request.count, request.limit) /\ request' = over
  <2>1. /\ request'.pc = "done" /\ request'.page = request.page /\ request'.limit = request.limit
        /\ request'.count = request.count
        /\ request' \in [pc : {"idle", "asked", "done"}, page : Nat, limit : Nat, count : Int,
                         read : BOOLEAN, rows : Seq(Rows), late : BOOLEAN]
    BY <1>3, <1>5
  <2>2. RequestOK' /\ ListTyped'
    BY <1>1, <1>2, <2>1 DEF WalkInv, RequestOK, Sane, ListTyped
  <2>3. ASSUME GivenOnce PROVE GivenOnce'
    <3>1. ASSUME NEW r \in Rows PROVE seen'[r] <= 1
      BY <1>1, <2>3 DEF GivenOnce, WalkInv, ListTyped
    <3> QED BY <2>1, <3>1 DEF GivenOnce
  <2>4. ASSUME NoneLeftBehind, ~torn' PROVE NoneLeftBehind'
    <3>1. ASSUME NEW r \in present \ added PROVE seen'[r] > 0
      <4>1. r \in Rows /\ seen[r] \in Nat
        BY DEF WalkInv, ListTyped
      <4>2. CASE Found(r) \/ seen[r] > 0
        BY <1>1, <4>1, <4>2
      <4>3. CASE ~Found(r) /\ ~(seen[r] > 0)
        <5>1. request.count > Behind + request.limit
          <6>1. ~request.late /\ ~torn
            BY <1>1, <2>4, Zenon
          <6>2. request.count # -1
            BY <1>1
          <6> QED BY <1>1, <2>4, <4>3, <6>1, <6>2 DEF NoneLeftBehind
        <5>2. request.count <= Behind + request.limit
          BY <1>1, <1>2, <1>5, LastPageCounts DEF Behind
        <5> QED BY <1>1, <1>2, <5>1, <5>2
      <4> QED BY <4>2, <4>3
    <3> QED BY <1>1, <2>1, <3>1 DEF NoneLeftBehind
  <2> QED BY <1>1, <2>2, <2>3, <2>4 DEF WalkInv, Distinct
<1> QED BY <1>1, <1>4, <1>5

LEMMA AppearKeeps ==
  ASSUME Lists!ConstantsFit, WalkInv, NEW row \in Rows, Lists!Appear(row)
  PROVE  WalkInv'
<1>1. /\ UNCHANGED <<kind, key, seen, removed, torn>>
      /\ present' = present \cup {row} /\ added' = added \cup {row} /\ row \notin present
      /\ request' = [request EXCEPT !.late = request.late \/ Lists!CountedOnly]
  BY DEF Lists!Appear
<1>2. request \in [pc : {"idle", "asked", "done"}, page : Nat, limit : Nat, count : Int,
                   read : BOOLEAN, rows : Seq(Rows), late : BOOLEAN]
  BY DEF WalkInv, RequestOK
<1>3. /\ request'.pc = request.pc /\ request'.page = request.page /\ request'.limit = request.limit
      /\ request'.count = request.count /\ request'.read = request.read /\ request'.rows = request.rows
      /\ request'.late = (request.late \/ Lists!CountedOnly)
      /\ request' \in [pc : {"idle", "asked", "done"}, page : Nat, limit : Nat, count : Int,
                       read : BOOLEAN, rows : Seq(Rows), late : BOOLEAN]
  BY <1>1, <1>2 DEF Lists!CountedOnly, Lists!Open
<1>4. RequestOK' /\ ListTyped'
  BY <1>1, <1>3 DEF WalkInv, RequestOK, Sane, Fresh, ListTyped, Lists!CountedOnly, Lists!Open
<1>5. Behind' = Behind /\ (Sane' <=> Sane) /\ \A r : (Found(r)' <=> Found(r))
  BY <1>3 DEF Behind, Sane, Found
<1>6. \A r \in Rows : Place(r) \in Nat /\ Place(r)' \in Nat /\ Place(r) <= Place(r)'
  <2>1. present \in SUBSET Rows /\ present' \in SUBSET Rows /\ present \subseteq present'
    BY <1>1, <1>4 DEF WalkInv, ListTyped
  <2>2. \A r \in Rows : Place(r) <= Place(r)'
    BY <1>1, <2>1, PlacesGrow DEF WalkInv, Place, Upto
  <2>3. \A r \in Rows : Place(r) \in Nat
    BY PlaceBounds DEF WalkInv
  <2>4. \A r \in Rows : Place(r)' \in Nat
    BY <1>1, <2>1, SameCardinality, FS_Subset, FS_CardinalityType DEF Lists!ConstantsFit, Place, Upto
  <2> QED BY <2>2, <2>3, <2>4
<1>7. ASSUME NoneLeftBehind PROVE NoneLeftBehind'
  <2>1. request.pc = "asked" /\ request.count # -1 /\ ~request.read /\ ~request'.late => FALSE
    <3>1. CASE request.pc = "asked" /\ request.count # -1 /\ ~request.read
      <4>1. Lists!CountedOnly
        BY <3>1 DEF WalkInv, RequestOK, Lists!CountedOnly, Lists!Open
      <4> QED BY <1>3, <4>1, Zenon
    <3> QED BY <3>1
  <2>2. ~request'.late => ~request.late
    BY <1>3, Zenon
  <2>3. present' \ added' \subseteq present \ added
    BY <1>1
  <2>4. \A r \in present \ added : r \in Rows
    BY DEF WalkInv, ListTyped
  <2>5. Behind \in Int \/ ~Sane
    BY DEF Behind, Sane, Lists!ConstantsFit
  <2>6. ASSUME NEW r \in present' \ added', ~(seen'[r] > 0)
        PROVE  /\ request'.pc # "done"
               /\ Sane' => Place(r)' > Behind'
               /\ request'.pc = "asked" /\ request'.read /\ ~Found(r)' =>
                    /\ Place(r)' > Behind' + request'.limit
                    /\ request'.count # -1 /\ ~request'.late => request'.count > Behind' + request'.limit
    <3>1. r \in present \ added /\ r \in Rows /\ ~(seen[r] > 0)
      BY <1>1, <2>3, <2>4, <2>6
    <3>2. /\ request.pc # "done"
          /\ Sane => Place(r) > Behind
          /\ request.pc = "asked" /\ request.read /\ ~Found(r) =>
               /\ Place(r) > Behind + request.limit
               /\ request.count # -1 /\ ~request.late => request.count > Behind + request.limit
      BY <1>7, <3>1 DEF NoneLeftBehind
    <3>3. Sane' => Place(r)' > Behind'
      BY <1>5, <1>6, <2>5, <3>1, <3>2
    <3>4. request.pc = "asked" => Behind \in Nat /\ request.limit \in Nat
      BY AskedIsSane
    <3>5. request'.pc = "asked" /\ request'.read /\ ~Found(r)' => Place(r)' > Behind' + request'.limit
      BY <1>3, <1>5, <1>6, <3>1, <3>2, <3>4
    <3> QED BY <1>3, <1>5, <2>2, <3>2, <3>3, <3>5
  <2> QED BY <1>3, <2>1, <2>6 DEF NoneLeftBehind
<1> QED BY <1>1, <1>4, <1>7 DEF WalkInv, Distinct

LEMMA DisappearKeeps ==
  ASSUME Lists!ConstantsFit, WalkInv, NEW row \in Rows, Lists!Disappear(row)
  PROVE  WalkInv'
<1>1. /\ UNCHANGED <<kind, key, request, seen, added, torn>>
      /\ present' = present \ {row} /\ removed' = removed \cup {row}
  BY DEF Lists!Disappear
<1>2. RequestOK' /\ ListTyped'
  BY <1>1 DEF WalkInv, RequestOK, Sane, Fresh, ListTyped
<1>3. Behind' = Behind /\ \A r : (Found(r)' <=> Found(r))
  BY <1>1 DEF Behind, Found
<1>4. \A r \in Rows : Place(r) \in Nat /\ Place(r)' \in Nat /\ Place(r)' <= Place(r)
  <2>1. present \in SUBSET Rows /\ present' \in SUBSET Rows /\ present' \subseteq present
    BY <1>1 DEF WalkInv, ListTyped
  <2>2. \A r \in Rows : Place(r)' <= Place(r)
    BY <1>1, <2>1, PlacesGrow DEF WalkInv, Place, Upto
  <2>3. \A r \in Rows : Place(r) \in Nat
    BY PlaceBounds DEF WalkInv
  <2>4. \A r \in Rows : Place(r)' \in Nat
    BY <1>1, <2>1, SameCardinality, FS_Subset, FS_CardinalityType DEF Lists!ConstantsFit, Place, Upto
  <2> QED BY <2>2, <2>3, <2>4
<1>5. ASSUME GivenOnce PROVE GivenOnce'
  <2>1. request.pc # "done" /\ ~Fresh => Behind \in Nat /\ request.limit \in Nat
    BY DEF WalkInv, RequestOK, Sane, Behind, Lists!ConstantsFit
  <2>2. Fresh => \A r \in Rows : seen[r] = 0 /\ request.pc = "idle"
    BY DEF Fresh
  <2>3. ASSUME NEW r \in Rows
        PROVE  /\ seen'[r] <= 1
               /\ request'.pc # "done" /\ r \in present' /\ seen'[r] = 1 => Place(r)' <= Behind'
               /\ request'.pc = "asked" /\ request'.read /\ Found(r)' =>
                    seen'[r] = 0 /\ (r \in present' => Place(r)' <= Behind' + request'.limit)
    BY <1>1, <1>3, <1>4, <1>5, <2>1, <2>2 DEF GivenOnce
  <2> QED BY <2>3 DEF GivenOnce
<1> QED BY <1>1, <1>2, <1>5 DEF WalkInv, Distinct

-----------------------------------------------------------------------------
LEMMA WalkGoesOn == Lists!ConstantsFit /\ WalkInv /\ [Lists!Next]_Lists!vars => WalkInv'
<1> SUFFICES ASSUME Lists!ConstantsFit, WalkInv, [Lists!Next]_Lists!vars PROVE WalkInv'
  OBVIOUS
<1>1. CASE UNCHANGED Lists!vars
  <2>1. UNCHANGED <<kind, key, present, request, seen, added, removed, torn>>
    BY <1>1 DEF Lists!vars
  <2>2. ListTyped' /\ RequestOK'
    BY <2>1 DEF WalkInv, ListTyped, RequestOK, Sane, Fresh
  <2>3. Behind' = Behind /\ (Sane' <=> Sane) /\ \A r : Place(r)' = Place(r) /\ (Found(r)' <=> Found(r))
    BY <2>1 DEF Behind, Sane, Place, Upto, Found
  <2>4. GivenOnce => GivenOnce'
    BY <2>1, <2>3 DEF GivenOnce
  <2>5. NoneLeftBehind => NoneLeftBehind'
    BY <2>1, <2>3 DEF NoneLeftBehind
  <2> QED BY <2>1, <2>2, <2>4, <2>5 DEF WalkInv, Distinct
<1>2. CASE Lists!CountRows
  BY <1>2, CountRowsKeeps
<1>3. CASE Lists!ReadRows \/ Lists!ReadParticipants
  BY <1>3, ReadsKeep
<1>4. CASE Lists!QueryFails
  BY <1>4, QueryFailsKeeps
<1>5. CASE Lists!Answer
  BY <1>5, PageAnswerKeeps
<1>6. CASE \E r \in Rows : Lists!Appear(r) \/ Lists!Disappear(r)
  BY <1>6, AppearKeeps, DisappearKeeps
<1> QED BY <1>1, <1>2, <1>3, <1>4, <1>5, <1>6, AsksKeep DEF Lists!Next

(* A walk through a listing keeps account of what it has seen: while nothing is removed,
   or nothing added, the rows it has been given are those before the page it asks for. *)
THEOREM WalkInvariant == Lists!Spec => []WalkInv
<1>1. Lists!Init => WalkInv
  BY WalkBegins, ReadingsTyped
<1>2. WalkInv /\ [Lists!Next]_Lists!vars => WalkInv'
  BY WalkGoesOn, ReadingsTyped
<1> QED BY <1>1, <1>2, PTL DEF Lists!Spec

(* A client that follows the pages of a listing whose order has no ties is given no row
   twice, unless a row appeared meanwhile: rows that disappear only pull the others to
   earlier pages. *)
THEOREM WalksRepeatNothing == Lists!Spec => []RemovingRepeatsNothing
<1>1. WalkInv => RemovingRepeatsNothing
  BY DEF WalkInv, GivenOnce, RemovingRepeatsNothing, Lists!RemovingRepeatsNothing, Lists!Ordered, Distinct
<1> QED BY <1>1, WalkInvariant, PTL

(* At the end it has missed no row that was there all along, unless a row disappeared
   meanwhile, or an answer had its count from before an appearance and its page from after. *)
THEOREM WalksSkipNothing == Lists!Spec => []AddingSkipsNothing
<1>1. WalkInv => AddingSkipsNothing
  BY DEF WalkInv, NoneLeftBehind, AddingSkipsNothing, Lists!AddingSkipsNothing, Lists!Ordered, Lists!Walked, Distinct
<1> QED BY <1>1, WalkInvariant, PTL

-----------------------------------------------------------------------------
(* Rankings *)

LEMMA SameRankCardinality ==
  ASSUME NEW S
  PROVE  Ranks!Cardinality(S) = Cardinality(S) /\ Ranks!IsFiniteSet(S) = IsFiniteSet(S)
BY DEF Ranks!Cardinality, Cardinality, Ranks!IsFiniteSet, IsFiniteSet

Entry == [user : Users, score : Nat]
UpdateCalls ==
  [op : {"update"}, pc : {"lookup", "name", "score", "done"}, user : Users, score : Scores,
   list : ScoreLists, at : Nat, whole : BOOLEAN]
RankCalls ==
  [op : {"rank"}, pc : {"place", "around", "names", "done", "failed", "missing"}, user : Users,
   board : Boards, page : {0}, place : Nat, score : Nat, total : Nat, rows : Seq(Entry), steady : BOOLEAN]
PageCalls ==
  [op : {"page"}, pc : {"card", "range", "names", "done", "failed"}, user : {0},
   board : Boards, page : Nat \ {0}, place : Nat, score : Nat, total : Nat, rows : Seq(Entry), steady : BOOLEAN]
ReadCalls == RankCalls \cup PageCalls
CallsOf == UpdateCalls \cup ReadCalls

CallTyped(c) ==
  /\ c \in CallsOf
  /\ c.op = "update" => c.at \in DOMAIN c.list /\ (c.pc = "lookup" => c.at = 1)

CallsTyped == calls \in Seq(CallsOf) /\ \A i \in DOMAIN calls : CallTyped(calls[i])

RanksTyped ==
  /\ score \in [Boards -> [Users -> Nat]]
  /\ writer \in [Boards -> [Users -> Nat]]
  /\ sent \in Seq(Nat) /\ replies \in Seq([call : Nat, ok : BOOLEAN]) /\ began \in Seq(Nat)

(* The pipeline: commands Redis has executed or rejected, then those it has not. *)
Queue ==
  [k \in 1 .. Len(replies) + Len(sent) |->
     IF k <= Len(replies) THEN replies[k].call ELSE sent[k - Len(replies)]]

Flying == {"name", "score", "place", "around", "names", "card", "range"}

\* a call has one command in the pipeline, or none
QueueOK ==
  /\ \A k \in DOMAIN Queue : Queue[k] \in DOMAIN calls /\ calls[Queue[k]].pc \in Flying
  /\ \A k, m \in DOMAIN Queue : Queue[k] = Queue[m] => k = m
  /\ \A i \in DOMAIN calls : calls[i].pc \in Flying => \E k \in DOMAIN Queue : Queue[k] = i

BeganOK ==
  /\ \A k \in DOMAIN began :
       /\ began[k] \in DOMAIN calls
       /\ calls[began[k]].op = "update" /\ calls[began[k]].pc # "lookup"
  /\ \A k, m \in DOMAIN began : began[k] = began[m] => k = m

Executed(i) == \E k \in DOMAIN replies : replies[k].call = i

\* a score was written by a call that has come as far as its board
WrittenOK ==
  \A b \in Boards, u \in Users :
    LET j == writer[b][u] IN
    j # 0 =>
      /\ j \in DOMAIN calls /\ calls[j].op = "update"
      /\ \E k \in DOMAIN calls[j].list :
           /\ calls[j].list[k] = b
           /\ \/ k < calls[j].at
              \/ k = calls[j].at /\ (calls[j].pc = "done" \/ (calls[j].pc = "score" /\ Executed(j)))

Before(i, j) == \A k, m \in DOMAIN Queue : Queue[k] = i /\ Queue[m] = j => k < m
HasNotWritten(j) == \A u \in Users : writer[calls[j].list[calls[j].at]][u] # j

\* i is further than j
Leads(i, j) ==
  \/ calls[i].pc = "done"
  \/ calls[i].at > calls[j].at
  \/ /\ calls[i].at = calls[j].at
     /\ \/ calls[i].pc = "score" /\ calls[j].pc = "name"
        \/ calls[i].pc = calls[j].pc /\ Before(i, j)
        \/ calls[j].pc = "done" /\ HasNotWritten(j)

InStep ==
  \A k, m \in DOMAIN began :
    k < m /\ Ranks!Alike(began[k], began[m]) => Leads(began[k], began[m])

HasPlace(c) ==
  /\ c.place \in DOMAIN Ranks!Ranked(c.board)
  /\ Ranks!Ranked(c.board)[c.place] = c.user
  /\ score[c.board][c.user] = c.score
HasRows(c) == c.rows = Ranks!Slice(c.board, Ranks!StartRank(c), Ranks!StopRank(c))
Answered(i) == \E k \in DOMAIN replies : replies[k].call = i /\ replies[k].ok

ReadingOK(c, answered) ==
  c.steady =>
    /\ c.pc = "place" /\ answered /\ c.place # 0 => HasPlace(c)
    /\ c.pc \in {"around", "names", "done"} => HasPlace(c)
    /\ (c.pc = "around" /\ answered) \/ c.pc \in {"names", "done"} => HasRows(c)

ReadingsOK == \A i \in DOMAIN calls : calls[i].op = "rank" => ReadingOK(calls[i], Answered(i))

RInv == CallsTyped /\ RanksTyped /\ QueueOK /\ BeganOK /\ WrittenOK /\ InStep /\ ReadingsOK

-----------------------------------------------------------------------------
(* The sorted sets.  Whatever the scores, there is an order as Redis keeps it: the place
   of a member is one more than the number of members above it. *)
Scored(b) == {u \in Users : score[b][u] # 0}

LEMMA InOrder ==
  ASSUME Ranks!ConstantsFit, RanksTyped, NEW b \in Boards
  PROVE  \E s \in Ranks!SetToSeqs(Scored(b)) :
           \A j, k \in DOMAIN s : j < k => Ranks!Above(b, s[j], s[k])
<1> DEFINE S == Scored(b)
           n == Cardinality(S)
           higher(u) == {v \in S : Ranks!Above(b, v, u)}
           place == [u \in S |-> Cardinality(higher(u)) + 1]
<1>1. IsFiniteSet(S) /\ n \in Nat
  BY SameRankCardinality, FS_Subset, FS_CardinalityType DEF Ranks!ConstantsFit, Scored
<1>2. \A u \in S : score[b][u] \in Nat /\ u \in Nat
  BY DEF Ranks!ConstantsFit, RanksTyped, Scored
<1>3. /\ \A u, v \in S : u # v => Ranks!Above(b, u, v) \/ Ranks!Above(b, v, u)
      /\ \A u, v, w \in S : Ranks!Above(b, u, v) /\ Ranks!Above(b, v, w) => Ranks!Above(b, u, w)
      /\ \A u \in S : ~Ranks!Above(b, u, u)
  BY <1>2 DEF Ranks!Above
<1>4. \A u \in S : IsFiniteSet(higher(u)) /\ Cardinality(higher(u)) \in Nat
  BY <1>1, FS_Subset, FS_CardinalityType
<1>5. ASSUME NEW u \in S, NEW v \in S, Ranks!Above(b, u, v)
      PROVE  Cardinality(higher(u)) < Cardinality(higher(v))
  <2>1. higher(u) \in SUBSET higher(v) /\ u \in higher(v) /\ u \notin higher(u)
    BY <1>3, <1>5
  <2> HIDE DEF higher
  <2>2. Cardinality(higher(u)) <= Cardinality(higher(v)) /\ Cardinality(higher(u)) # Cardinality(higher(v))
    BY <1>4, <2>1, FS_Subset
  <2> QED BY <1>4, <2>2
<1>6. \A u \in S : Cardinality(higher(u)) < n
  <2> SUFFICES ASSUME NEW u \in S PROVE Cardinality(higher(u)) < n
    OBVIOUS
  <2>1. higher(u) \in SUBSET S /\ u \notin higher(u)
    BY <1>3
  <2> HIDE DEF higher, S
  <2>2. Cardinality(higher(u)) <= n /\ Cardinality(higher(u)) # n
    BY <1>1, <2>1, FS_Subset
  <2> QED BY <1>1, <1>4, <2>2
<1> HIDE DEF higher, S, n
<1>7. place \in [S -> 1 .. n]
  BY <1>1, <1>4, <1>6
<1>8. \A u, v \in S : Ranks!Above(b, u, v) => place[u] < place[v]
  BY <1>4, <1>5
<1> HIDE DEF place
<1>9. \A u \in S : place[u] \in Int
  BY <1>1, <1>7
<1>10. \A u, v \in S : place[u] = place[v] => u = v
  BY <1>3, <1>8, <1>9
<1>11. place \in Injection(S, 1 .. n)
  BY <1>7, <1>10 DEF Injection, IsInjective
<1>12. IsFiniteSet(1 .. n) /\ Cardinality(1 .. n) = n
  BY <1>1, FS_Interval
<1>13. place \in Surjection(S, 1 .. n)
  BY <1>11, <1>12, FS_Injection DEF n
<1>14. \A k \in 1 .. n : \E u \in S : place[u] = k
  BY <1>13 DEF Surjection
<1> DEFINE s == [k \in 1 .. n |-> CHOOSE u \in S : place[u] = k]
<1>15. \A k \in 1 .. n : s[k] \in S /\ place[s[k]] = k
  BY <1>14
<1>16. s \in [1 .. n -> S]
  BY <1>15
<1> HIDE DEF s
<1>17. \A j, k \in 1 .. n : j # k => s[j] # s[k]
  BY <1>15
<1>18. s \in Ranks!SetToSeqs(S)
  BY <1>16, <1>17, SameRankCardinality DEF Ranks!SetToSeqs, n
<1>19. ASSUME NEW j \in 1 .. n, NEW k \in 1 .. n, j < k PROVE Ranks!Above(b, s[j], s[k])
  <2>1. s[j] \in S /\ s[k] \in S /\ place[s[j]] = j /\ place[s[k]] = k
    BY <1>15
  <2>2. ~Ranks!Above(b, s[k], s[j])
    BY <1>1, <1>8, <1>19, <2>1
  <2> QED BY <1>3, <1>17, <1>19, <2>1, <2>2
<1>20. DOMAIN s = 1 .. n
  BY <1>16
<1> QED BY <1>18, <1>19, <1>20 DEF S

(* A board lists its members once each, from the highest to the lowest. *)
LEMMA RankedInOrder ==
  ASSUME Ranks!ConstantsFit, RanksTyped, NEW b \in Boards
  PROVE  /\ Ranks!Ranked(b) \in Seq(Users)
         /\ \A j, k \in DOMAIN Ranks!Ranked(b) :
              j < k => Ranks!Above(b, Ranks!Ranked(b)[j], Ranks!Ranked(b)[k])
<1>1. /\ Ranks!Ranked(b) \in Ranks!SetToSeqs(Scored(b))
      /\ \A j, k \in DOMAIN Ranks!Ranked(b) :
           j < k => Ranks!Above(b, Ranks!Ranked(b)[j], Ranks!Ranked(b)[k])
  BY InOrder DEF Ranks!Ranked, Scored
<1>2. Cardinality(Scored(b)) \in Nat
  BY SameRankCardinality, FS_Subset, FS_CardinalityType DEF Ranks!ConstantsFit, Scored
<1>3. Ranks!Ranked(b) \in [1 .. Cardinality(Scored(b)) -> Scored(b)]
  BY <1>1, SameRankCardinality DEF Ranks!SetToSeqs
<1>4. Ranks!Ranked(b) \in [1 .. Cardinality(Scored(b)) -> Users]
  BY <1>3 DEF Scored
<1> QED BY <1>1, <1>2, <1>4

(* The part of a sequence after its first places, up to its place last. *)
LEMMA Cut ==
  ASSUME NEW S, NEW s \in Seq(S), NEW start \in Nat, NEW last \in Nat, last <= Len(s)
  PROVE  /\ SubSeq(s, start + 1, last) \in Seq(S)
         /\ DOMAIN SubSeq(s, start + 1, last) = 1 .. last - start
         /\ \A k \in 1 .. last - start :
              k + start \in DOMAIN s /\ SubSeq(s, start + 1, last)[k] = s[k + start]
<1>1. 1 .. 1 + last - (start + 1) = 1 .. last - start
  OBVIOUS
<1>2. \A k \in 1 .. last - start : k + (start + 1) - 1 = k + start /\ k + start \in 1 .. Len(s)
  OBVIOUS
<1>3. SubSeq(s, start + 1, last) = [k \in 1 .. 1 + last - (start + 1) |-> s[k + (start + 1) - 1]]
  OBVIOUS
<1>4. SubSeq(s, start + 1, last) \in Seq(S)
  OBVIOUS
<1> QED BY <1>1, <1>2, <1>3, <1>4

\* the place of the last entry of a slice
Last(b, stop) == IF stop < Len(Ranks!Ranked(b)) THEN stop + 1 ELSE Len(Ranks!Ranked(b))

LEMMA SliceIs ==
  ASSUME Ranks!ConstantsFit, RanksTyped, NEW b \in Boards, NEW start \in Nat, NEW stop \in Int,
         stop + 1 >= 0
  PROVE  /\ Ranks!Slice(b, start, stop) \in Seq(Entry)
         /\ DOMAIN Ranks!Slice(b, start, stop) = 1 .. Last(b, stop) - start
         /\ \A k \in 1 .. Last(b, stop) - start :
              Ranks!Slice(b, start, stop)[k] =
                [user |-> Ranks!Ranked(b)[k + start], score |-> score[b][Ranks!Ranked(b)[k + start]]]
<1> DEFINE all == Ranks!Ranked(b)
           last == Last(b, stop)
           page == SubSeq(all, start + 1, last)
<1>1. all \in Seq(Users)
  BY RankedInOrder
<1>7. last \in Nat /\ last <= Len(all)
  <2>1. Len(all) \in Nat
    BY <1>1
  <2>2. last = IF stop < Len(all) THEN stop + 1 ELSE Len(all)
    BY DEF Last
  <2> HIDE DEF all, last
  <2> QED BY <2>1, <2>2
<1>2. Ranks!Slice(b, start, stop) =
        [k \in 1 .. Len(page) |-> [user |-> page[k], score |-> score[b][page[k]]]]
  BY Zenon DEF Ranks!Slice, Last
<1>3. /\ page \in Seq(Users) /\ DOMAIN page = 1 .. last - start
      /\ \A k \in 1 .. last - start : page[k] = all[k + start]
  <2> HIDE DEF all, last
  <2> QED BY <1>1, <1>7, Cut
<1> HIDE DEF page
<1>4. Len(page) \in Nat /\ DOMAIN page = 1 .. Len(page)
  BY <1>3
<1>5. \A k \in 1 .. Len(page) : [user |-> page[k], score |-> score[b][page[k]]] \in Entry
  <2> SUFFICES ASSUME NEW k \in 1 .. Len(page) PROVE [user |-> page[k], score |-> score[b][page[k]]] \in Entry
    OBVIOUS
  <2>1. page[k] \in Users
    <3>1. page \in Seq(Users)
      BY <1>3
    <3> QED BY <1>4, <3>1
  <2> QED BY <2>1 DEF Entry, RanksTyped
<1>6. Ranks!Slice(b, start, stop) \in Seq(Entry)
  BY <1>2, <1>4, <1>5
<1> HIDE DEF all, last
<1> QED BY <1>2, <1>3, <1>4, <1>6 DEF all, last

(* What a reading has once it has its place and the players around. *)
LEMMA NeighboursAgree ==
  ASSUME Ranks!ConstantsFit, RanksTyped, NEW c \in RankCalls, HasPlace(c), HasRows(c)
  PROVE  LET all == Ranks!Ranked(c.board) IN
         /\ all[c.place] = c.user /\ score[c.board][c.user] = c.score
         /\ {r.user : r \in Ranks!ToSet(c.rows)} =
              {all[k] : k \in {k \in DOMAIN all : k - c.place \in -Surrounding .. Surrounding}}
         /\ c.rows[c.place - Ranks!StartRank(c)] = [user |-> c.user, score |-> c.score]
<1> DEFINE all == Ranks!Ranked(c.board)
           n == Len(all)
           start == Ranks!StartRank(c)
           stop == Ranks!StopRank(c)
           last == Last(c.board, stop)
<1>1. all \in Seq(Users) /\ n \in Nat /\ DOMAIN all = 1 .. n /\ c.board \in Boards
  BY RankedInOrder DEF RankCalls
<1>2. c.place \in 1 .. n /\ all[c.place] = c.user /\ score[c.board][c.user] = c.score
  BY <1>1 DEF HasPlace
<1>3. Surrounding \in Nat
  BY DEF Ranks!ConstantsFit
<1>4. c.rows = Ranks!Slice(c.board, start, stop)
  BY DEF HasRows
<1>5. /\ start \in Nat /\ start < c.place
      /\ start = c.place - Surrounding - 1 \/ (start = 0 /\ c.place - Surrounding - 1 <= 0)
      /\ stop = c.place + Surrounding - 1
  BY <1>1, <1>2, <1>3 DEF Ranks!StartRank, Ranks!StopRank
<1>6. /\ last \in Nat /\ last <= n /\ last <= stop + 1 /\ last >= c.place
      /\ last = stop + 1 \/ last = n
  <2>1. last = IF stop < n THEN stop + 1 ELSE n
    BY DEF Last
  <2> HIDE DEF all, start, stop, last, n
  <2> QED BY <1>1, <1>2, <1>3, <1>5, <2>1
<1>7. /\ DOMAIN c.rows = 1 .. last - start
      /\ \A k \in 1 .. last - start :
           c.rows[k] = [user |-> all[k + start], score |-> score[c.board][all[k + start]]]
  <2>1. stop \in Int /\ stop + 1 >= 0
    <3> HIDE DEF all, start, stop, last, n
    <3> QED BY <1>1, <1>2, <1>3, <1>5
  <2> HIDE DEF start, stop
  <2>2. c.board \in Boards /\ start \in Nat
    BY <1>1, <1>5
  <2> HIDE DEF all, last
  <2>3. /\ DOMAIN Ranks!Slice(c.board, start, stop) = 1 .. Last(c.board, stop) - start
        /\ \A k \in 1 .. Last(c.board, stop) - start :
             Ranks!Slice(c.board, start, stop)[k] =
               [user |-> Ranks!Ranked(c.board)[k + start], score |-> score[c.board][Ranks!Ranked(c.board)[k + start]]]
    BY <2>1, <2>2, SliceIs
  <2> QED BY <1>4, <2>3 DEF all, last
<1> HIDE DEF all, start, stop
<1> HIDE DEF n, last
<1>11. \A k \in 1 .. last - start :
         c.rows[k].user = all[k + start] /\ c.rows[k].score = score[c.board][all[k + start]]
  <2> SUFFICES ASSUME NEW k \in 1 .. last - start
               PROVE  c.rows[k].user = all[k + start] /\ c.rows[k].score = score[c.board][all[k + start]]
    OBVIOUS
  <2>1. c.rows[k] = [user |-> all[k + start], score |-> score[c.board][all[k + start]]]
    BY <1>7
  <2> QED BY <2>1
<1>8. \A k \in Int : k \in 1 .. n /\ k - c.place \in -Surrounding .. Surrounding <=> k - start \in 1 .. last - start
  <2> SUFFICES ASSUME NEW k \in Int
               PROVE  k \in 1 .. n /\ k - c.place \in -Surrounding .. Surrounding <=> k - start \in 1 .. last - start
    OBVIOUS
  <2>1. k - start \in 1 .. last - start <=> start < k /\ k <= last
    BY <1>5, <1>6
  <2>2. k - c.place \in -Surrounding .. Surrounding <=> c.place - Surrounding <= k /\ k <= stop + 1
    BY <1>2, <1>3, <1>5
  <2>3. k \in 1 .. n /\ c.place - Surrounding <= k <=> start < k /\ k <= n
    BY <1>1, <1>2, <1>3, <1>5
  <2>4. k <= n /\ k <= stop + 1 <=> k <= last
    BY <1>1, <1>2, <1>3, <1>5, <1>6
  <2> QED BY <1>1, <1>5, <2>1, <2>2, <2>3, <2>4
<1>9. {r.user : r \in Ranks!ToSet(c.rows)} = {all[k] : k \in {k \in DOMAIN all : k - c.place \in -Surrounding .. Surrounding}}
  <2>1. ASSUME NEW r \in Ranks!ToSet(c.rows)
        PROVE  \E k \in {k \in DOMAIN all : k - c.place \in -Surrounding .. Surrounding} : r.user = all[k]
    <3>1. PICK k \in 1 .. last - start : r = c.rows[k]
      BY <1>7 DEF Ranks!ToSet
    <3>2. r.user = all[k + start]
      BY <1>11, <3>1
    <3>3. k + start \in Int /\ (k + start) - start = k
      BY <1>5, <1>6
    <3>4. k + start \in 1 .. n /\ (k + start) - c.place \in -Surrounding .. Surrounding
      BY <1>8, <3>3
    <3> QED BY <1>1, <3>2, <3>4
  <2>2. ASSUME NEW k \in 1 .. n, k - c.place \in -Surrounding .. Surrounding
        PROVE  \E r \in Ranks!ToSet(c.rows) : all[k] = r.user
    <3>1. k - start \in 1 .. last - start /\ (k - start) + start = k
      BY <1>5, <1>8, <2>2
    <3>2. c.rows[k - start].user = all[k]
      BY <1>11, <3>1
    <3> QED BY <1>7, <3>1, <3>2 DEF Ranks!ToSet
  <2> QED BY <1>1, <2>1, <2>2
<1>10. c.rows[c.place - start] = [user |-> c.user, score |-> c.score]
  <2>1. c.place - start \in 1 .. last - start /\ (c.place - start) + start = c.place
    BY <1>2, <1>5, <1>6
  <2> QED BY <1>2, <1>7, <2>1
<1> QED BY <1>2, <1>9, <1>10 DEF all, start

-----------------------------------------------------------------------------
(* How the pipeline moves: its first call may leave, and a call may join at the end. *)
Total == Len(replies) + Len(sent)

LEMMA QueueTyped ==
  ASSUME RanksTyped
  PROVE  /\ Len(replies) \in Nat /\ Len(sent) \in Nat /\ Total \in Nat
         /\ DOMAIN Queue = 1 .. Total
         /\ \A k \in 1 .. Len(replies) : Queue[k] = replies[k].call
         /\ \A k \in 1 .. Len(sent) : Queue[k + Len(replies)] = sent[k]
<1>1. Len(replies) \in Nat /\ Len(sent) \in Nat
  BY DEF RanksTyped
<1>2. ASSUME NEW k \in 1 .. Len(sent) PROVE Queue[k + Len(replies)] = sent[k]
  <2>1. /\ k + Len(replies) \in 1 .. Len(replies) + Len(sent) /\ ~(k + Len(replies) <= Len(replies))
        /\ (k + Len(replies)) - Len(replies) = k
    BY <1>1
  <2> QED BY <2>1 DEF Queue
<1>3. \A k \in 1 .. Len(replies) : k \in 1 .. Len(replies) + Len(sent) /\ k <= Len(replies)
  BY <1>1
<1> QED BY <1>1, <1>2, <1>3 DEF Queue, Total

LEMMA QueueMoves ==
  ASSUME RanksTyped, RanksTyped', QueueOK, NEW i, NEW gone \in 0 .. 1,
         i \in DOMAIN calls', DOMAIN calls \subseteq DOMAIN calls', DOMAIN calls' \subseteq DOMAIN calls \cup {i},
         \A j \in DOMAIN calls : j # i => calls'[j] = calls[j],
         gone = 1 => Total >= 1 /\ Queue[1] = i,
         gone = 0 => i \notin DOMAIN calls \/ calls[i].pc \notin Flying,
         Total' = Total - gone + (IF calls'[i].pc \in Flying THEN 1 ELSE 0),
         \A k \in 1 .. Total - gone : Queue'[k] = Queue[k + gone],
         calls'[i].pc \in Flying => Queue'[Total - gone + 1] = i
  PROVE  /\ QueueOK'
         /\ \A x, y : x # i /\ y # i /\ Before(x, y) => Before(x, y)'
         /\ \A x : x # i => Before(x, i)'
<1> DEFINE n == Total - gone
<1>1. DOMAIN Queue = 1 .. Total /\ Total \in Nat /\ DOMAIN Queue' = 1 .. Total' /\ Total' \in Nat
  <2>1. Total \in Nat /\ DOMAIN Queue = 1 .. Total
    BY QueueTyped
  <2>2. Len(replies') \in Nat /\ Len(sent') \in Nat
    BY DEF RanksTyped
  <2>3. Total' \in Nat /\ DOMAIN Queue' = 1 .. Total'
    BY <2>2 DEF Queue, Total
  <2> QED BY <2>1, <2>3
<1>2. n \in Nat /\ \A k \in 1 .. n : k + gone \in DOMAIN Queue
  BY <1>1
<1>3. \A k \in 1 .. n : Queue[k + gone] # i
  <2>1. CASE gone = 0
    BY <1>2, <2>1 DEF QueueOK
  <2>2. CASE gone = 1
    <3>1. ASSUME NEW k \in 1 .. n, Queue[k + gone] = i PROVE FALSE
      <4>1. 1 \in DOMAIN Queue /\ k + gone \in DOMAIN Queue /\ k + gone # 1
        BY <1>1, <1>2, <2>2
      <4> QED BY <2>2, <3>1, <4>1 DEF QueueOK
    <3> QED BY <3>1
  <2> QED BY <2>1, <2>2
<1>4. \A k \in DOMAIN Queue' : k \in 1 .. n \/ (k = n + 1 /\ calls'[i].pc \in Flying /\ Queue'[k] = i)
  BY <1>1, <1>2
<1>5. calls'[i].pc \in Flying => n + 1 \in DOMAIN Queue' /\ Queue'[n + 1] = i
  BY <1>1, <1>2
<1>6. 1 .. n \subseteq DOMAIN Queue'
  BY <1>1, <1>2
<1> HIDE DEF n
<1>7. \A k \in 1 .. n : Queue'[k] = Queue[k + gone]
  BY DEF n
<1>8. ASSUME NEW k \in DOMAIN Queue' PROVE Queue'[k] \in DOMAIN calls' /\ calls'[Queue'[k]].pc \in Flying
  <2>1. CASE k \in 1 .. n
    <3>1. k + gone \in DOMAIN Queue /\ Queue'[k] = Queue[k + gone] /\ Queue[k + gone] # i
      BY <1>2, <1>3, <1>7, <2>1
    <3>2. Queue[k + gone] \in DOMAIN calls /\ calls[Queue[k + gone]].pc \in Flying
      BY <3>1, Zenon DEF QueueOK
    <3>3. calls'[Queue[k + gone]] = calls[Queue[k + gone]]
      BY <3>1, <3>2, Zenon
    <3> QED BY <3>1, <3>2, <3>3, Zenon
  <2>2. CASE k = n + 1 /\ calls'[i].pc \in Flying /\ Queue'[k] = i
    BY <2>2
  <2> QED BY <1>4, <2>1, <2>2
<1>9. ASSUME NEW k \in DOMAIN Queue', NEW m \in DOMAIN Queue', Queue'[k] = Queue'[m] PROVE k = m
  <2>1. CASE k \in 1 .. n /\ m \in 1 .. n
    <3>1. k + gone \in DOMAIN Queue /\ m + gone \in DOMAIN Queue
      BY <1>2, <2>1
    <3>2. Queue[k + gone] = Queue[m + gone]
      BY <1>7, <1>9, <2>1, Zenon
    <3>3. k + gone = m + gone
      BY <3>1, <3>2, Zenon DEF QueueOK
    <3>4. k \in Nat /\ m \in Nat
      BY <2>1
    <3> QED BY <3>3, <3>4
  <2>2. CASE k \in 1 .. n /\ m = n + 1 /\ Queue'[m] = i
    BY <1>3, <1>7, <1>9, <2>2
  <2>3. CASE m \in 1 .. n /\ k = n + 1 /\ Queue'[k] = i
    BY <1>3, <1>7, <1>9, <2>3
  <2> QED BY <1>4, <2>1, <2>2, <2>3
<1>10. ASSUME NEW j \in DOMAIN calls', calls'[j].pc \in Flying PROVE \E k \in DOMAIN Queue' : Queue'[k] = j
  <2>1. CASE j = i
    BY <1>5, <1>10, <2>1
  <2>2. CASE j # i
    <3>1. j \in DOMAIN calls /\ calls[j].pc \in Flying
      BY <1>10, <2>2
    <3>2. PICK k \in DOMAIN Queue : Queue[k] = j
      BY <3>1 DEF QueueOK
    <3>3. k - gone \in 1 .. n /\ (k - gone) + gone = k
      BY <1>1, <2>2, <3>2 DEF n
    <3> QED BY <1>6, <1>7, <3>2, <3>3
  <2> QED BY <2>1, <2>2
<1>11. QueueOK'
  BY <1>8, <1>9, <1>10 DEF QueueOK
<1>12. ASSUME NEW x, NEW y, x # i, y # i, Before(x, y) PROVE Before(x, y)'
  <2> SUFFICES ASSUME NEW k \in DOMAIN Queue', NEW m \in DOMAIN Queue', Queue'[k] = x, Queue'[m] = y PROVE k < m
    BY DEF Before
  <2>1. k \in 1 .. n /\ m \in 1 .. n
    BY <1>4, <1>12
  <2>2. k + gone < m + gone
    BY <1>2, <1>7, <1>12, <2>1 DEF Before
  <2> QED BY <1>2, <2>1, <2>2
<1>13. ASSUME NEW x, x # i PROVE Before(x, i)'
  <2> SUFFICES ASSUME NEW k \in DOMAIN Queue', NEW m \in DOMAIN Queue', Queue'[k] = x, Queue'[m] = i PROVE k < m
    BY DEF Before
  <2>1. k \in 1 .. n
    BY <1>4, <1>13
  <2>2. m \notin 1 .. n
    BY <1>3, <1>7
  <2> QED BY <1>2, <1>4, <2>1, <2>2
<1> QED BY <1>11, <1>12, <1>13

(* A step of one call: its command leaves the head of the pipeline or it had none there,
   and its next command, if it issues one, joins at the end. *)
Turn(i, gone) ==
  /\ i \in DOMAIN calls' /\ DOMAIN calls \subseteq DOMAIN calls' /\ DOMAIN calls' \subseteq DOMAIN calls \cup {i}
  /\ \A j \in DOMAIN calls : j # i => calls'[j] = calls[j]
  /\ score' = score /\ writer' = writer
  /\ \/ gone = 0 /\ replies' = replies /\ (i \notin DOMAIN calls \/ calls[i].pc \notin Flying)
     \/ gone = 1 /\ replies # <<>> /\ Head(replies).call = i /\ replies' = Tail(replies)
  /\ \/ calls'[i].pc \in Flying /\ sent' = Append(sent, i)
     \/ calls'[i].pc \notin Flying /\ sent' = sent

LEMMA TurnTyped ==
  ASSUME RanksTyped, NEW i \in Nat, NEW gone \in 0 .. 1, Turn(i, gone), began' \in Seq(Nat)
  PROVE  RanksTyped'
<1>1. sent' \in Seq(Nat)
  <2>1. sent \in Seq(Nat) /\ Append(sent, i) \in Seq(Nat)
    BY DEF RanksTyped
  <2>2. sent' = sent \/ sent' = Append(sent, i)
    BY DEF Turn
  <2> QED BY <2>1, <2>2
<1>2. replies' \in Seq([call : Nat, ok : BOOLEAN])
  <2> DEFINE R == [call : Nat, ok : BOOLEAN]
  <2>1. replies \in Seq(R)
    BY DEF RanksTyped
  <2> HIDE DEF R
  <2>2. replies # <<>> => Tail(replies) \in Seq(R)
    BY <2>1
  <2>3. replies' = replies \/ (replies # <<>> /\ replies' = Tail(replies))
    BY DEF Turn
  <2> QED BY <2>1, <2>2, <2>3 DEF R
<1> QED BY <1>1, <1>2 DEF RanksTyped, Turn

LEMMA TurnReplies ==
  ASSUME RanksTyped, NEW i \in Nat, NEW gone \in 0 .. 1, Turn(i, gone)
  PROVE  /\ Len(replies') = Len(replies) - gone /\ Len(replies) \in Nat /\ Len(replies') \in Nat
         /\ DOMAIN replies = 1 .. Len(replies) /\ DOMAIN replies' = 1 .. Len(replies')
         /\ \A k \in 1 .. Len(replies') : replies'[k] = replies[k + gone]
         /\ gone = 1 => replies[1].call = i
<1> DEFINE R == [call : Nat, ok : BOOLEAN]
<1>1. replies \in Seq(R)
  BY DEF RanksTyped
<1> HIDE DEF R
<1>2. CASE gone = 0
  <2>1. replies' = replies
    BY <1>2 DEF Turn
  <2> QED BY <1>1, <1>2, <2>1
<1>3. CASE gone = 1
  <2>1. replies' = Tail(replies) /\ replies # <<>> /\ Head(replies).call = i
    BY <1>3 DEF Turn
  <2> QED BY <1>1, <1>3, <2>1
<1> QED BY <1>2, <1>3

LEMMA TurnQueue ==
  ASSUME RanksTyped, RanksTyped', QueueOK, NEW i \in Nat, NEW gone \in 0 .. 1, Turn(i, gone)
  PROVE  /\ QueueOK'
         /\ \A x, y : x # i /\ y # i /\ Before(x, y) => Before(x, y)'
         /\ \A x : x # i => Before(x, i)'
         /\ gone = 1 => /\ i \in DOMAIN calls /\ calls[i].pc \in Flying
                        /\ \A x \in DOMAIN calls : x # i /\ calls[x].pc \in Flying => ~Before(x, i)
<1> DEFINE r == Len(replies)
           s == Len(sent)
           new == IF calls'[i].pc \in Flying THEN 1 ELSE 0
<1>1. /\ r \in Nat /\ s \in Nat /\ DOMAIN Queue = 1 .. r + s /\ Total = r + s
      /\ \A k \in 1 .. r : Queue[k] = replies[k].call
      /\ \A k \in 1 .. s : Queue[k + r] = sent[k]
  BY QueueTyped DEF Total
<1>2. /\ Len(replies') = r - gone /\ r - gone >= 0
      /\ \A k \in 1 .. r - gone : replies'[k] = replies[k + gone]
      /\ gone = 1 => replies[1].call = i
  BY TurnReplies
<1>3. /\ Len(sent') = s + new /\ \A k \in 1 .. s : sent'[k] = sent[k]
      /\ new = 1 => sent'[s + 1] = i
  <2>1. sent \in Seq(Nat)
    BY DEF RanksTyped
  <2> QED BY <2>1 DEF Turn
<1>4. Queue' = [k \in 1 .. (r - gone) + (s + new) |->
                  IF k <= r - gone THEN replies'[k].call ELSE sent'[k - (r - gone)]]
  BY <1>2, <1>3, Zenon DEF Queue
<1>5. Total' = Total - gone + (IF calls'[i].pc \in Flying THEN 1 ELSE 0)
  <2>1. Total' = Len(replies') + Len(sent')
    BY DEF Total
  <2> QED BY <1>1, <1>2, <1>3, <2>1
<1>6. gone = 1 => Total >= 1 /\ Queue[1] = i
  BY <1>1, <1>2
<1>7. ASSUME NEW k \in 1 .. Total - gone PROVE Queue'[k] = Queue[k + gone]
  <2>0. Total - gone = r + s - gone /\ new \in 0 .. 1
    BY <1>1
  <2> HIDE DEF new, r, s
  <2>1. CASE k <= r - gone
    <3>1. k \in 1 .. (r - gone) + (s + new) /\ k \in 1 .. r - gone /\ k + gone \in 1 .. r
      BY <1>1, <1>2, <1>7, <2>0, <2>1
    <3>2. Queue'[k] = replies'[k].call
      BY <1>4, <2>1, <3>1
    <3> QED BY <1>1, <1>2, <3>1, <3>2
  <2>2. CASE ~(k <= r - gone)
    <3>1. /\ k \in 1 .. (r - gone) + (s + new) /\ k - (r - gone) \in 1 .. s
          /\ (k - (r - gone)) + r = k + gone
      BY <1>1, <1>2, <1>7, <2>0, <2>2
    <3>2. Queue'[k] = sent'[k - (r - gone)]
      BY <1>4, <2>2, <3>1
    <3>3. Queue[(k - (r - gone)) + r] = sent[k - (r - gone)]
      BY <1>1, <3>1
    <3> QED BY <1>3, <3>1, <3>2, <3>3
  <2> QED BY <2>1, <2>2
<1>8. calls'[i].pc \in Flying => Queue'[Total - gone + 1] = i
  <2> SUFFICES ASSUME calls'[i].pc \in Flying PROVE Queue'[Total - gone + 1] = i
    OBVIOUS
  <2>0. new = 1
    OBVIOUS
  <2> HIDE DEF new, r, s
  <2>1. /\ Total - gone + 1 \in 1 .. (r - gone) + (s + new) /\ ~(Total - gone + 1 <= r - gone)
        /\ (Total - gone + 1) - (r - gone) = s + 1
    BY <1>1, <1>2, <2>0
  <2> QED BY <1>3, <1>4, <2>0, <2>1
<1>9. /\ i \in DOMAIN calls' /\ DOMAIN calls \subseteq DOMAIN calls' /\ DOMAIN calls' \subseteq DOMAIN calls \cup {i}
      /\ \A j \in DOMAIN calls : j # i => calls'[j] = calls[j]
      /\ gone = 0 => i \notin DOMAIN calls \/ calls[i].pc \notin Flying
  BY DEF Turn
<1>10. gone = 1 => /\ i \in DOMAIN calls /\ calls[i].pc \in Flying
                   /\ \A x \in DOMAIN calls : x # i /\ calls[x].pc \in Flying => ~Before(x, i)
  <2> SUFFICES ASSUME gone = 1 PROVE /\ i \in DOMAIN calls /\ calls[i].pc \in Flying
                   /\ \A x \in DOMAIN calls : x # i /\ calls[x].pc \in Flying => ~Before(x, i)
    OBVIOUS
  <2>1. 1 \in DOMAIN Queue /\ Queue[1] = i
    BY <1>1, <1>6
  <2>2. ASSUME NEW x \in DOMAIN calls, x # i, calls[x].pc \in Flying, Before(x, i) PROVE FALSE
    <3>1. PICK k \in DOMAIN Queue : Queue[k] = x
      BY <2>2 DEF QueueOK
    <3>2. k < 1
      BY <2>1, <2>2, <3>1 DEF Before
    <3> QED BY <1>1, <3>1, <3>2
  <2> QED BY <2>1, <2>2 DEF QueueOK
<1> HIDE DEF r, s, new
<1>11. \A k \in 1 .. Total - gone : Queue'[k] = Queue[k + gone]
  BY <1>7
<1> QED BY <1>5, <1>6, <1>8, <1>9, <1>10, <1>11, QueueMoves

LEMMA TurnExecuted ==
  ASSUME RanksTyped, RanksTyped', QueueOK, NEW i \in Nat, NEW gone \in 0 .. 1, Turn(i, gone)
  PROVE  /\ \A x : x # i => (Executed(x)' <=> Executed(x)) /\ (Answered(x)' <=> Answered(x))
         /\ ~Executed(i)' /\ ~Answered(i)'
         /\ gone = 1 => Executed(i) /\ (replies[1].ok => Answered(i)) /\ Head(replies) = replies[1]
<1>1. /\ Len(replies') = Len(replies) - gone /\ Len(replies) \in Nat /\ Len(replies') \in Nat
      /\ DOMAIN replies = 1 .. Len(replies) /\ DOMAIN replies' = 1 .. Len(replies')
      /\ \A k \in 1 .. Len(replies') : replies'[k] = replies[k + gone]
      /\ gone = 1 => replies[1].call = i
  BY TurnReplies
<1>2. \A k \in DOMAIN replies' : k + gone \in DOMAIN replies /\ replies'[k] = replies[k + gone]
  <2> SUFFICES ASSUME NEW k \in 1 .. Len(replies') PROVE k + gone \in 1 .. Len(replies) /\ replies'[k] = replies[k + gone]
    BY <1>1
  <2> QED BY <1>1
<1>3. \A k \in DOMAIN replies : replies[k].call # i => k - gone \in DOMAIN replies' /\ replies'[k - gone] = replies[k]
  <2> SUFFICES ASSUME NEW k \in DOMAIN replies, replies[k].call # i
               PROVE  k - gone \in DOMAIN replies' /\ replies'[k - gone] = replies[k]
    OBVIOUS
  <2>1. k - gone \in 1 .. Len(replies') /\ (k - gone) + gone = k
    BY <1>1
  <2> QED BY <1>1, <2>1
<1>4. ASSUME NEW k \in DOMAIN replies', replies'[k].call = i PROVE FALSE
  <2>1. /\ DOMAIN Queue = 1 .. Total /\ Total = Len(replies) + Len(sent) /\ Len(sent) \in Nat
        /\ \A m \in 1 .. Len(replies) : Queue[m] = replies[m].call
    BY QueueTyped DEF Total
  <2>2. k + gone \in 1 .. Len(replies) /\ replies[k + gone].call = i /\ k \in 1 .. Len(replies')
    BY <1>1, <1>2, <1>4
  <2>3. k + gone \in DOMAIN Queue /\ Queue[k + gone] = i
    BY <1>1, <2>1, <2>2
  <2>4. CASE gone = 0
    BY <2>3, <2>4 DEF Turn, QueueOK
  <2>5. CASE gone = 1
    <3>1. 1 \in DOMAIN Queue /\ Queue[1] = i /\ k + gone # 1
      BY <1>1, <2>1, <2>2, <2>5
    <3> QED BY <2>3, <3>1 DEF QueueOK
  <2> QED BY <2>4, <2>5
<1>5. ASSUME NEW x, x # i PROVE (Executed(x)' <=> Executed(x)) /\ (Answered(x)' <=> Answered(x))
  <2>1. ASSUME NEW k \in DOMAIN replies, replies[k].call = x
        PROVE  \E m \in DOMAIN replies' : replies'[m] = replies[k]
    BY <1>3, <1>5, <2>1
  <2>2. ASSUME NEW k \in DOMAIN replies', replies'[k].call = x
        PROVE  \E m \in DOMAIN replies : replies[m] = replies'[k]
    BY <1>2, <2>2
  <2>3. Executed(x)' <=> \E k \in DOMAIN replies' : replies'[k].call = x
    BY DEF Executed
  <2>4. Answered(x)' <=> \E k \in DOMAIN replies' : replies'[k].call = x /\ replies'[k].ok
    BY DEF Answered
  <2> QED BY <2>1, <2>2, <2>3, <2>4 DEF Executed, Answered
<1>6. ~Executed(i)' /\ ~Answered(i)'
  BY <1>4 DEF Executed, Answered
<1>7. gone = 1 => Executed(i) /\ (replies[1].ok => Answered(i)) /\ Head(replies) = replies[1]
  <2> SUFFICES ASSUME gone = 1 PROVE Executed(i) /\ (replies[1].ok => Answered(i)) /\ Head(replies) = replies[1]
    OBVIOUS
  <2>1. 1 \in DOMAIN replies /\ replies[1].call = i
    BY <1>1
  <2> QED BY <2>1 DEF Executed, Answered
<1> QED BY <1>5, <1>6, <1>7

\* what receiving an answer makes of an update
UpdateGoesOn(c, d, ok) ==
  /\ CallTyped(d) /\ d.op = "update" /\ d.list = c.list
  /\ \/ c.pc = "name" /\ d.at = c.at /\ d.pc \in {"score", "done"}
     \/ c.at < Len(c.list) /\ d.at = c.at + 1 /\ d.pc \in {"name", "done"} /\ (d.whole => c.pc = "score")
     \/ d.at = c.at /\ d.pc = "done" /\ (d.whole => c.pc = "score")
  /\ d.whole => c.whole

LEMMA CallsStayTyped ==
  ASSUME CallsTyped, NEW i \in Nat, NEW gone \in 0 .. 1, Turn(i, gone), CallTyped(calls'[i]),
         calls' \in Seq(CallsOf)
  PROVE  CallsTyped'
<1>1. ASSUME NEW j \in DOMAIN calls' PROVE CallTyped(calls'[j])
  <2>1. CASE j = i
    BY <2>1
  <2>2. CASE j # i
    BY <2>2, Zenon DEF Turn, CallsTyped
  <2> QED BY <2>1, <2>2
<1>2. \A j \in DOMAIN calls' : CallTyped(calls'[j])
  BY <1>1
<1> QED BY <1>2, Zenon DEF CallsTyped, CallTyped

\* the board a call has come to is one it has not written, as long as it names it once
LEMMA NotYetWritten ==
  ASSUME WrittenOK, NEW j \in DOMAIN calls, calls[j] \in UpdateCalls, Ranks!IsInjective(calls[j].list),
         CallsTyped, RanksTyped, Ranks!ConstantsFit, NEW n \in DOMAIN calls[j].list, NEW u \in Users,
         \/ n > calls[j].at
         \/ n = calls[j].at /\ calls[j].pc # "done" /\ (calls[j].pc = "score" => ~Executed(j))
  PROVE  writer[calls[j].list[n]][u] # j
<1> SUFFICES ASSUME writer[calls[j].list[n]][u] = j PROVE FALSE
  OBVIOUS
<1>1. calls[j].list \in Seq(Boards) /\ calls[j].at \in Nat
  BY DEF UpdateCalls, Ranks!ConstantsFit
<1>2. calls[j].list[n] \in Boards /\ n \in Nat /\ \A k \in DOMAIN calls[j].list : k \in Nat
  BY <1>1
<1>3. j # 0
  BY DEF CallsTyped
<1>4. PICK k \in DOMAIN calls[j].list :
        /\ calls[j].list[k] = calls[j].list[n]
        /\ \/ k < calls[j].at
           \/ k = calls[j].at /\ (calls[j].pc = "done" \/ (calls[j].pc = "score" /\ Executed(j)))
  BY <1>2, <1>3 DEF WrittenOK
<1>5. k = n
  BY <1>4 DEF Ranks!IsInjective
<1> QED BY <1>1, <1>2, <1>4, <1>5

(* What a reading has is left as it is by a step that leaves its board. *)
LEMMA BoardStays ==
  ASSUME NEW b, score'[b] = score[b]
  PROVE  /\ Ranks!Ranked(b)' = Ranks!Ranked(b)
         /\ \A start, stop : Ranks!Slice(b, start, stop)' = Ranks!Slice(b, start, stop)
<1>1. Ranks!Ranked(b)' = Ranks!Ranked(b)
  <2>1. \A u, v : Ranks!Above(b, u, v)' <=> Ranks!Above(b, u, v)
    BY DEF Ranks!Above
  <2>2. \A u \in Users : score'[b][u] # 0 <=> score[b][u] # 0
    OBVIOUS
  <2>3. {u \in Users : score'[b][u] # 0} = {u \in Users : score[b][u] # 0}
    BY <2>2
  <2> QED BY <2>1, <2>3 DEF Ranks!Ranked
<1>2. ASSUME NEW start, NEW stop PROVE Ranks!Slice(b, start, stop)' = Ranks!Slice(b, start, stop)
  BY <1>1 DEF Ranks!Slice
<1> QED BY <1>1, <1>2

LEMMA ReadingStays ==
  ASSUME NEW j, calls'[j] = calls[j], ReadingOK(calls[j], Answered(j)), Answered(j)' => Answered(j),
         calls[j].steady => score'[calls[j].board] = score[calls[j].board]
  PROVE  ReadingOK(calls[j], Answered(j))'
<1>1. PICK c : c = calls[j]
  OBVIOUS
<1> SUFFICES ASSUME c.steady PROVE ReadingOK(calls[j], Answered(j))'
  BY <1>1, Zenon DEF ReadingOK
<1>2. score'[c.board] = score[c.board]
  BY <1>1
<1>3. HasPlace(c)' <=> HasPlace(c)
  BY <1>2, BoardStays, Zenon DEF HasPlace
<1>4. HasRows(c)' <=> HasRows(c)
  <2>1. Ranks!StartRank(c)' = Ranks!StartRank(c) /\ Ranks!StopRank(c)' = Ranks!StopRank(c)
    BY DEF Ranks!StartRank, Ranks!StopRank
  <2> QED BY <1>2, <2>1, BoardStays, Zenon DEF HasRows
<1>5. ReadingOK(c, Answered(j))'
  BY <1>1, <1>3, <1>4 DEF ReadingOK
<1> QED BY <1>1, <1>5, Zenon DEF ReadingOK, HasPlace, HasRows

(* An update receives an answer and goes on with its next command, or is done. *)
LEMMA UpdateGoesOnKeeps ==
  ASSUME Ranks!ConstantsFit, RInv, NEW i \in DOMAIN calls, Turn(i, 1), calls' \in Seq(CallsOf),
         calls[i].op = "update", UpdateGoesOn(calls[i], calls'[i], Head(replies).ok), began' = began
  PROVE  RInv'
<1> DEFINE c == calls[i]
           d == calls'[i]
<1>1. /\ CallsTyped /\ RanksTyped /\ QueueOK /\ BeganOK /\ WrittenOK /\ InStep /\ ReadingsOK
      /\ i \in Nat /\ began \in Seq(Nat) /\ i # 0
  BY DEF RInv, CallsTyped, RanksTyped
<1>2. CallTyped(c) /\ CallTyped(d) /\ c.op = "update" /\ d.op = "update" /\ d.list = c.list
  BY <1>1 DEF CallsTyped, UpdateGoesOn
<1>3. c \in UpdateCalls /\ d \in UpdateCalls
  BY <1>2 DEF CallTyped, CallsOf, ReadCalls, RankCalls, PageCalls
<1>4. RanksTyped' /\ CallsTyped'
  BY <1>1, <1>2, TurnTyped, CallsStayTyped
<1>5. /\ QueueOK'
      /\ \A x, y : x # i /\ y # i /\ Before(x, y) => Before(x, y)'
      /\ \A x : x # i => Before(x, i)'
      /\ c.pc \in Flying
      /\ \A x \in DOMAIN calls : x # i /\ calls[x].pc \in Flying => ~Before(x, i)
  BY <1>1, <1>4, TurnQueue
<1>6. /\ \A x : x # i => (Executed(x)' <=> Executed(x)) /\ (Answered(x)' <=> Answered(x))
      /\ ~Executed(i)' /\ Executed(i)
  BY <1>1, <1>4, TurnExecuted
<1>7. /\ DOMAIN calls' = DOMAIN calls /\ \A j \in DOMAIN calls : j # i => calls'[j] = calls[j]
      /\ writer' = writer /\ score' = score
  BY DEF Turn
<1> HIDE DEF c, d
<1>8. c.at \in Nat /\ d.at \in Nat /\ c.at \in DOMAIN c.list /\ d.at \in DOMAIN d.list
      /\ c.pc \in {"name", "score"}
  BY <1>2, <1>3, <1>5 DEF CallTyped, UpdateCalls, Flying
<1>9. \/ c.pc = "name" /\ d.at = c.at /\ d.pc \in {"score", "done"}
      \/ d.at = c.at + 1 /\ d.pc \in {"name", "done"} /\ (d.whole => c.pc = "score")
      \/ d.at = c.at /\ d.pc = "done" /\ (d.whole => c.pc = "score")
  BY DEF UpdateGoesOn, c, d
<1>10. d.whole => c.whole
  BY DEF UpdateGoesOn, c, d
<1>11. BeganOK'
  <2>1. ASSUME NEW k \in DOMAIN began
        PROVE  /\ began[k] \in DOMAIN calls' /\ calls'[began[k]].op = "update" /\ calls'[began[k]].pc # "lookup"
    <3>1. CASE began[k] = i
      BY <1>2, <1>7, <1>9, <3>1 DEF d
    <3>2. CASE began[k] # i
      BY <1>1, <1>7, <3>2 DEF BeganOK
    <3> QED BY <3>1, <3>2
  <2> QED BY <1>1, <2>1 DEF BeganOK
<1>12. WrittenOK'
  <2> SUFFICES ASSUME NEW b \in Boards, NEW u \in Users, writer[b][u] # 0
               PROVE  LET j == writer[b][u] IN
                      /\ j \in DOMAIN calls' /\ calls'[j].op = "update"
                      /\ \E k \in DOMAIN calls'[j].list :
                           /\ calls'[j].list[k] = b
                           /\ \/ k < calls'[j].at
                              \/ k = calls'[j].at /\ (calls'[j].pc = "done" \/ (calls'[j].pc = "score" /\ Executed(j)'))
    BY <1>7 DEF WrittenOK
  <2> DEFINE j == writer[b][u]
  <2>1. j \in DOMAIN calls /\ calls[j].op = "update"
    BY <1>1 DEF WrittenOK
  <2>2. PICK k \in DOMAIN calls[j].list :
          /\ calls[j].list[k] = b
          /\ \/ k < calls[j].at
             \/ k = calls[j].at /\ (calls[j].pc = "done" \/ (calls[j].pc = "score" /\ Executed(j)))
    BY <1>1 DEF WrittenOK
  <2> HIDE DEF j
  <2>3. CASE j # i
    BY <1>6, <1>7, <2>1, <2>2, <2>3, Zenon DEF j
  <2>4. CASE j = i
    <3>1. k \in DOMAIN c.list /\ c.list[k] = b /\ (k < c.at \/ (k = c.at /\ c.pc = "score"))
      BY <1>8, <2>2, <2>4 DEF c
    <3>2. k \in Nat
      BY <1>3, <3>1 DEF UpdateCalls, Ranks!ConstantsFit
    <3>3. k < d.at \/ (k = d.at /\ d.pc = "done")
      BY <1>8, <1>9, <3>1, <3>2
    <3> QED BY <1>2, <1>7, <2>1, <2>4, <3>1, <3>3 DEF c, d, j
  <2> QED BY <2>3, <2>4
<1>13. ASSUME NEW n \in DOMAIN c.list, NEW u \in Users, Ranks!IsInjective(c.list), n > c.at \/ (n = c.at /\ c.pc = "name")
       PROVE  writer[c.list[n]][u] # i
  BY <1>1, <1>3, <1>13, NotYetWritten DEF c
<1>14. ASSUME NEW x \in DOMAIN calls, NEW y \in DOMAIN calls, x # y, Ranks!Alike(x, y)',
              calls[x] \in UpdateCalls, calls[y] \in UpdateCalls,
              calls[x].pc # "lookup", calls[y].pc # "lookup",
              Ranks!Alike(x, y) => Leads(x, y)
       PROVE  Leads(x, y)'
  <2>1. /\ calls'[x].list = calls'[y].list /\ Ranks!IsInjective(calls'[x].list)
        /\ calls'[x].whole /\ calls'[y].whole
    BY <1>14 DEF Ranks!Alike, Ranks!IsInjective
  <2>2. /\ calls[x].list = calls[y].list /\ Ranks!IsInjective(calls[x].list)
        /\ calls[x].whole /\ calls[y].whole
    BY <1>2, <1>7, <1>10, <2>1, Zenon DEF c, d
  <2>3. Leads(x, y)
    BY <1>14, <2>2 DEF Ranks!Alike
  <2>4. calls[x].at \in Nat /\ calls[y].at \in Nat
    BY <1>14 DEF UpdateCalls
  <2>5. CASE x # i /\ y # i
    <3>1. calls'[x] = calls[x] /\ calls'[y] = calls[y] /\ HasNotWritten(y)' = HasNotWritten(y)
      BY <1>7, <2>5 DEF HasNotWritten
    <3>2. Before(x, y) => Before(x, y)'
      BY <1>5, <2>5
    <3> QED BY <2>3, <3>1, <3>2 DEF Leads
  <2>6. CASE x = i
    <3>1. calls'[y] = calls[y] /\ HasNotWritten(y)' = HasNotWritten(y) /\ y # i
      BY <1>7, <1>14, <2>6 DEF HasNotWritten
    <3>2. c = calls[x] /\ d = calls'[x]
      BY <2>6 DEF c, d
    <3>3. CASE d.pc = "done"
      BY <3>2, <3>3 DEF Leads
    <3>4. CASE d.at = c.at + 1
      <4>1. c.at >= calls[y].at
        BY <1>8, <2>3, <2>4, <3>2 DEF Leads
      <4>2. d.at > calls'[y].at
        BY <1>8, <2>4, <3>1, <3>4, <4>1
      <4> QED BY <3>2, <4>2 DEF Leads
    <3>5. CASE c.pc = "name" /\ d.at = c.at /\ d.pc = "score"
      BY <2>3, <3>1, <3>2, <3>5 DEF Leads
    <3> QED BY <1>9, <3>3, <3>4, <3>5
  <2>7. CASE y = i
    <3>1. calls'[x] = calls[x] /\ x # i /\ Before(x, y)'
      BY <1>5, <1>7, <1>14, <2>7
    <3>2. c = calls[y] /\ d = calls'[y] /\ d.whole
      BY <2>1, <2>7 DEF c, d
    <3>3. calls[x].pc \in {"done"} \cup Flying
      BY <1>14 DEF UpdateCalls, Flying
    <3>4. ~(calls[x].pc = calls[y].pc /\ Before(x, y))
      BY <1>5, <2>7, <3>1, <3>2
    <3>5. \/ calls[x].pc = "done"
          \/ calls[x].at > c.at
          \/ calls[x].at = c.at /\ calls[x].pc = "score" /\ c.pc = "name"
      BY <1>8, <2>3, <3>2, <3>4 DEF Leads
    <3>6. CASE calls[x].pc = "done"
      BY <3>1, <3>6 DEF Leads
    <3>7. CASE calls[x].at > d.at
      BY <3>1, <3>2, <3>7 DEF Leads
    <3>8. CASE calls[x].at = d.at /\ calls[x].pc # "done"
      <4>1. calls[x].pc \in {"name", "score"}
        BY <1>14, <3>8 DEF UpdateCalls
      <4>2. d.pc = "done" => HasNotWritten(y)'
        <5> SUFFICES ASSUME d.pc = "done", NEW u \in Users PROVE writer[d.list[d.at]][u] # i
          BY <1>7, <2>7, <3>2 DEF HasNotWritten
        <5>1. Ranks!IsInjective(c.list) /\ d.list = c.list
          BY <1>2, <2>2, <2>7, <3>2
        <5>2. d.at > c.at \/ (d.at = c.at /\ c.pc = "name")
          BY <1>8, <1>9, <2>4, <3>2, <3>5, <3>8
        <5> QED BY <1>8, <1>13, <5>1, <5>2
      <4>3. CASE d.pc = "done"
        BY <3>1, <3>2, <3>8, <4>2, <4>3 DEF Leads
      <4>4. CASE d.pc # "done" /\ calls[x].pc = d.pc
        BY <3>1, <3>2, <3>8, <4>4 DEF Leads
      <4>5. CASE d.pc # "done" /\ calls[x].pc # d.pc
        <5>1. calls[x].pc = "score" /\ d.pc = "name"
          BY <1>8, <1>9, <2>4, <3>5, <3>8, <4>1, <4>5
        <5> QED BY <3>1, <3>2, <3>8, <5>1 DEF Leads
      <4> QED BY <4>3, <4>4, <4>5
    <3>9. calls[x].pc = "done" \/ calls[x].at >= d.at
      <4>1. CASE calls[x].at > c.at
        BY <1>8, <1>9, <2>4, <4>1
      <4>2. CASE calls[x].at = c.at /\ c.pc = "name"
        BY <1>8, <1>9, <2>4, <3>2, <4>2
      <4> QED BY <3>5, <4>1, <4>2
    <3> QED BY <1>8, <2>4, <3>6, <3>7, <3>8, <3>9
  <2> QED BY <2>5, <2>6, <2>7
<1>15. InStep'
  <2> SUFFICES ASSUME NEW k \in DOMAIN began, NEW m \in DOMAIN began, k < m, Ranks!Alike(began[k], began[m])'
               PROVE  Leads(began[k], began[m])'
    BY DEF InStep
  <2>1. PICK x, y : x = began[k] /\ y = began[m]
    OBVIOUS
  <2>2. /\ x \in DOMAIN calls /\ y \in DOMAIN calls /\ x # y
        /\ calls[x].op = "update" /\ calls[y].op = "update"
        /\ calls[x].pc # "lookup" /\ calls[y].pc # "lookup"
    BY <1>1, <2>1 DEF BeganOK
  <2>3. calls[x] \in UpdateCalls /\ calls[y] \in UpdateCalls
    BY <1>1, <2>2 DEF CallsTyped, CallTyped, CallsOf, ReadCalls, RankCalls, PageCalls
  <2>4. Ranks!Alike(x, y)'
    BY <2>1, Zenon DEF Ranks!Alike
  <2>5. Ranks!Alike(x, y) => Leads(x, y)
    BY <1>1, <2>1 DEF InStep
  <2>6. Leads(x, y)'
    BY <1>14, <2>2, <2>3, <2>4, <2>5
  <2> QED BY <2>1, <2>6, Zenon DEF Leads, Before, HasNotWritten
<1>16. ReadingsOK'
  <2>1. ASSUME NEW j \in DOMAIN calls', calls'[j].op = "rank" PROVE ReadingOK(calls[j], Answered(j))'
    <3>1. j # i /\ calls'[j] = calls[j]
      BY <1>2, <1>7, <2>1 DEF d
    <3>2. ReadingOK(calls[j], Answered(j)) /\ (Answered(j)' <=> Answered(j))
      BY <1>1, <1>6, <1>7, <2>1, <3>1 DEF ReadingsOK
    <3> QED BY <1>7, <3>1, <3>2, ReadingStays
  <2> QED BY <2>1, Zenon DEF ReadingsOK
<1> QED BY <1>4, <1>5, <1>11, <1>12, <1>15, <1>16 DEF RInv

LEMMA LeadsStays ==
  ASSUME NEW x, NEW y, calls'[x] = calls[x], calls'[y] = calls[y],
         Before(x, y) => Before(x, y)', calls[y].pc = "done" /\ HasNotWritten(y) => HasNotWritten(y)',
         Leads(x, y)
  PROVE  Leads(x, y)'
BY DEF Leads

(* Steps that leave every update in progress as it is. *)
LEMMA UpdatesStay ==
  ASSUME BeganOK, WrittenOK, InStep, began' = began, DOMAIN calls \subseteq DOMAIN calls',
         \A j \in DOMAIN calls : calls[j].op = "update" => calls'[j] = calls[j],
         \A x, y \in DOMAIN calls : calls[x].op = "update" /\ calls[y].op = "update" /\ Before(x, y) => Before(x, y)',
         \A j \in DOMAIN calls : calls[j].op = "update" /\ Executed(j) => Executed(j)',
         \A j \in DOMAIN calls : calls[j].op = "update" /\ calls[j].pc = "done" /\ HasNotWritten(j) => HasNotWritten(j)'
  PROVE  BeganOK' /\ (writer' = writer => WrittenOK') /\ InStep'
<1>1. BeganOK'
  BY Zenon DEF BeganOK
<1>2. ASSUME writer' = writer PROVE WrittenOK'
  <2> SUFFICES ASSUME NEW b \in Boards, NEW u \in Users, writer[b][u] # 0
               PROVE  LET j == writer[b][u] IN
                      /\ j \in DOMAIN calls' /\ calls'[j].op = "update"
                      /\ \E k \in DOMAIN calls'[j].list :
                           /\ calls'[j].list[k] = b
                           /\ \/ k < calls'[j].at
                              \/ k = calls'[j].at /\ (calls'[j].pc = "done" \/ (calls'[j].pc = "score" /\ Executed(j)'))
    BY <1>2 DEF WrittenOK
  <2> DEFINE j == writer[b][u]
  <2>1. j \in DOMAIN calls /\ calls[j].op = "update"
    BY DEF WrittenOK
  <2>2. \E k \in DOMAIN calls[j].list :
          /\ calls[j].list[k] = b
          /\ \/ k < calls[j].at
             \/ k = calls[j].at /\ (calls[j].pc = "done" \/ (calls[j].pc = "score" /\ Executed(j)))
    BY DEF WrittenOK
  <2>3. j \in DOMAIN calls' /\ calls'[j] = calls[j] /\ (Executed(j) => Executed(j)')
    BY <1>2, <2>1
  <2> QED BY <2>1, <2>2, <2>3
<1>3. InStep'
  <2> SUFFICES ASSUME NEW k \in DOMAIN began, NEW m \in DOMAIN began, k < m, Ranks!Alike(began[k], began[m])'
               PROVE  Leads(began[k], began[m])'
    BY DEF InStep
  <2>1. PICK x, y : x = began[k] /\ y = began[m]
    OBVIOUS
  <2>2. /\ x \in DOMAIN calls /\ y \in DOMAIN calls
        /\ calls[x].op = "update" /\ calls[y].op = "update"
    BY <2>1, Zenon DEF BeganOK
  <2>3. calls'[x] = calls[x] /\ calls'[y] = calls[y]
    BY <2>2
  <2>4. Ranks!Alike(x, y)
    BY <2>1, <2>3, Zenon DEF Ranks!Alike
  <2>5. Leads(x, y)
    BY <2>1, <2>4 DEF InStep
  <2>6. calls[y].pc = "done" /\ HasNotWritten(y) => HasNotWritten(y)'
    BY <2>2
  <2>7. Leads(x, y)'
    BY <2>2, <2>3, <2>5, <2>6, LeadsStays
  <2> QED BY <2>1, <2>7, Zenon DEF Leads, Before, HasNotWritten
<1> QED BY <1>1, <1>2, <1>3

\* what receiving an answer makes of a reading
ReadingGoesOn(c, d, ok) ==
  /\ CallTyped(d) /\ d.op = c.op
  /\ d.board = c.board /\ d.user = c.user /\ d.place = c.place /\ d.score = c.score
  /\ d.rows = c.rows /\ d.steady = c.steady
  /\ c.op = "rank" =>
       \/ d.pc \in {"missing", "failed"}
       \/ ok /\ c.pc = "place" /\ c.place # 0 /\ d.pc = "around"
       \/ ok /\ c.pc = "around" /\ d.pc \in {"names", "done"}
       \/ c.pc = "names" /\ d.pc = "done"

LEMMA SameFigures ==
  ASSUME NEW c, NEW d, score' = score, d.board = c.board, d.user = c.user, d.place = c.place, d.score = c.score,
         d.rows = c.rows
  PROVE  (HasPlace(c) => HasPlace(d)') /\ (HasRows(c) => HasRows(d)')
<1>1. /\ Ranks!Ranked(c.board)' = Ranks!Ranked(c.board)
      /\ \A start, stop : Ranks!Slice(c.board, start, stop)' = Ranks!Slice(c.board, start, stop)
  BY BoardStays
<1>2. Ranks!StartRank(d)' = Ranks!StartRank(c) /\ Ranks!StopRank(d)' = Ranks!StopRank(c)
  BY DEF Ranks!StartRank, Ranks!StopRank
<1>3. HasPlace(c) => HasPlace(d)'
  BY <1>1, Zenon DEF HasPlace
<1>4. HasRows(c) => HasRows(d)'
  BY <1>1, <1>2, Zenon DEF HasRows
<1> QED BY <1>3, <1>4

(* A reading receives an answer and goes on with its next command, or returns. *)
LEMMA ReadingGoesOnKeeps ==
  ASSUME Ranks!ConstantsFit, RInv, NEW i \in DOMAIN calls, Turn(i, 1), calls' \in Seq(CallsOf),
         calls[i].op # "update", ReadingGoesOn(calls[i], calls'[i], Head(replies).ok), began' = began
  PROVE  RInv'
<1>1. /\ CallsTyped /\ RanksTyped /\ QueueOK /\ BeganOK /\ WrittenOK /\ InStep /\ ReadingsOK
      /\ i \in Nat /\ began \in Seq(Nat)
  BY DEF RInv, CallsTyped, RanksTyped
<1>2. RanksTyped' /\ CallsTyped'
  BY <1>1, TurnTyped, CallsStayTyped DEF ReadingGoesOn
<1>3. /\ QueueOK'
      /\ \A x, y : x # i /\ y # i /\ Before(x, y) => Before(x, y)'
  BY <1>1, <1>2, TurnQueue
<1>4. /\ \A x : x # i => (Executed(x)' <=> Executed(x)) /\ (Answered(x)' <=> Answered(x))
      /\ ~Answered(i)' /\ (Head(replies).ok => Answered(i))
  BY <1>1, <1>2, TurnExecuted
<1>5. /\ DOMAIN calls' = DOMAIN calls /\ \A j \in DOMAIN calls : j # i => calls'[j] = calls[j]
      /\ writer' = writer /\ score' = score
  BY DEF Turn
<1>6. BeganOK' /\ WrittenOK' /\ InStep'
  <2>1. \A j \in DOMAIN calls : calls[j].op = "update" => j # i /\ calls'[j] = calls[j]
    BY <1>5
  <2>2. \A x, y \in DOMAIN calls : calls[x].op = "update" /\ calls[y].op = "update" /\ Before(x, y) => Before(x, y)'
    BY <1>3, <2>1, Zenon
  <2>3. \A j \in DOMAIN calls : calls[j].op = "update" /\ Executed(j) => Executed(j)'
    BY <1>4, <2>1, Zenon
  <2>4. \A j \in DOMAIN calls : calls[j].op = "update" /\ HasNotWritten(j) => HasNotWritten(j)'
    BY <1>5, <2>1, Zenon DEF HasNotWritten
  <2> QED BY <1>1, <1>5, <2>1, <2>2, <2>3, <2>4, UpdatesStay
<1>7. ASSUME NEW j \in DOMAIN calls, j # i, calls[j].op = "rank" PROVE ReadingOK(calls[j], Answered(j))'
  <2>1. calls'[j] = calls[j]
    BY <1>5, <1>7
  <2>2. ReadingOK(calls[j], Answered(j)) /\ (Answered(j)' => Answered(j))
    BY <1>1, <1>4, <1>7, Zenon DEF ReadingsOK
  <2> QED BY <1>5, <2>1, <2>2, ReadingStays
<1>8. ASSUME calls[i].op = "rank" PROVE ReadingOK(calls[i], Answered(i))'
  <2>1. PICK c, d : c = calls[i] /\ d = calls'[i]
    OBVIOUS
  <2>2. ReadingGoesOn(c, d, Head(replies).ok) /\ c.op = "rank"
    BY <1>8, <2>1
  <2>3. ReadingOK(c, Answered(i))
    BY <1>1, <1>8, <2>1 DEF ReadingsOK
  <2>4. (HasPlace(c) => HasPlace(d)') /\ (HasRows(c) => HasRows(d)')
    BY <1>5, <2>2, SameFigures, Zenon DEF ReadingGoesOn
  <2> SUFFICES ASSUME d.steady PROVE ReadingOK(d, Answered(i))'
    BY <2>1, Zenon DEF ReadingOK, HasPlace, HasRows
  <2>5. c.steady
    BY <2>2 DEF ReadingGoesOn
  <2>6. CASE d.pc \in {"missing", "failed"}
    BY <2>6 DEF ReadingOK
  <2>7. CASE Head(replies).ok /\ c.pc = "place" /\ c.place # 0 /\ d.pc = "around"
    BY <1>4, <2>3, <2>4, <2>5, <2>7 DEF ReadingOK
  <2>8. CASE Head(replies).ok /\ c.pc = "around" /\ d.pc \in {"names", "done"}
    BY <1>4, <2>3, <2>4, <2>5, <2>8 DEF ReadingOK
  <2>9. CASE c.pc = "names" /\ d.pc = "done"
    BY <2>3, <2>4, <2>5, <2>9 DEF ReadingOK
  <2> QED BY <2>2, <2>6, <2>7, <2>8, <2>9 DEF ReadingGoesOn
<1>9. ReadingsOK'
  <2>1. ASSUME NEW j \in DOMAIN calls', calls'[j].op = "rank" PROVE ReadingOK(calls[j], Answered(j))'
    <3>1. calls[j].op = "rank" /\ j \in DOMAIN calls
      BY <1>5, <2>1 DEF ReadingGoesOn
    <3> QED BY <1>7, <1>8, <3>1, Zenon DEF ReadingOK, HasPlace, HasRows
  <2> QED BY <2>1, Zenon DEF ReadingsOK
<1> QED BY <1>2, <1>3, <1>6, <1>9 DEF RInv

\* a call that has just been made, or whose name has just been read
Starts(d) ==
  /\ CallTyped(d)
  /\ d.op = "update" => d.at = 1 /\ d.pc \in {"lookup", "name", "done"}
  /\ d.op = "rank" => d.pc \in {"place", "failed"}

LEMMA CallStartKeeps ==
  ASSUME Ranks!ConstantsFit, RInv, NEW i \in Nat, i # 0, Turn(i, 0), calls' \in Seq(CallsOf), Starts(calls'[i]),
         i \in DOMAIN calls => calls[i].op = "update" /\ calls[i].pc = "lookup" /\ calls'[i].op = "update",
         \/ began' = began /\ (calls'[i].op # "update" \/ calls'[i].pc = "lookup")
         \/ began' = Append(began, i) /\ calls'[i].op = "update" /\ calls'[i].pc # "lookup"
  PROVE  RInv'
<1> DEFINE d == calls'[i]
<1>1. /\ CallsTyped /\ RanksTyped /\ QueueOK /\ BeganOK /\ WrittenOK /\ InStep /\ ReadingsOK
      /\ began \in Seq(Nat)
  BY DEF RInv, RanksTyped
<1>2. CallTyped(d) /\ (d.op = "update" => d.at = 1 /\ d.pc \in {"lookup", "name", "done"})
      /\ (d.op = "rank" => d.pc \in {"place", "failed"})
  BY DEF Starts
<1>3. RanksTyped' /\ CallsTyped'
  <2>1. began' \in Seq(Nat)
    <3>1. Append(began, i) \in Seq(Nat)
      BY <1>1
    <3> QED BY <1>1, <3>1
  <2> QED BY <1>1, <1>2, <2>1, TurnTyped, CallsStayTyped
<1>4. /\ QueueOK'
      /\ \A x, y : x # i /\ y # i /\ Before(x, y) => Before(x, y)'
      /\ \A x : x # i => Before(x, i)'
  BY <1>1, <1>3, TurnQueue
<1>5. /\ \A x : x # i => (Executed(x)' <=> Executed(x)) /\ (Answered(x)' <=> Answered(x))
      /\ ~Answered(i)'
  BY <1>1, <1>3, TurnExecuted
<1>6. /\ i \in DOMAIN calls' /\ DOMAIN calls \subseteq DOMAIN calls' /\ DOMAIN calls' \subseteq DOMAIN calls \cup {i}
      /\ \A j \in DOMAIN calls : j # i => calls'[j] = calls[j]
      /\ writer' = writer /\ score' = score
  BY DEF Turn
<1> HIDE DEF d
<1>7. \A j \in DOMAIN calls : calls[j].pc # "lookup" \/ calls[j].op # "update" => j # i
  OBVIOUS
<1>8. \A k \in DOMAIN began : began[k] # i /\ began[k] \in DOMAIN calls
  BY <1>1, <1>7 DEF BeganOK
<1>9. /\ DOMAIN began = 1 .. Len(began) /\ Len(began) \in Nat
      /\ \/ began' = began
         \/ /\ DOMAIN began' = 1 .. Len(began) + 1 /\ d.op = "update" /\ d.pc # "lookup"
            /\ began'[Len(began) + 1] = i /\ \A k \in 1 .. Len(began) : began'[k] = began[k]
  <2>1. CASE began' = began
    BY <1>1, <2>1
  <2>2. CASE began' = Append(began, i) /\ d.op = "update" /\ d.pc # "lookup"
    BY <1>1, <2>2
  <2> QED BY <2>1, <2>2 DEF d
<1>10. \A k \in DOMAIN began' :
         \/ k \in DOMAIN began /\ began'[k] = began[k]
         \/ k = Len(began) + 1 /\ began'[k] = i /\ d.op = "update" /\ d.pc # "lookup"
  BY <1>9
<1>11. BeganOK'
  <2>1. ASSUME NEW k \in DOMAIN began'
        PROVE  /\ began'[k] \in DOMAIN calls'
               /\ calls'[began'[k]].op = "update" /\ calls'[began'[k]].pc # "lookup"
    <3>1. CASE k \in DOMAIN began /\ began'[k] = began[k]
      BY <1>1, <1>6, <1>8, <3>1 DEF BeganOK
    <3>2. CASE began'[k] = i /\ d.op = "update" /\ d.pc # "lookup"
      BY <1>6, <3>2 DEF d
    <3> QED BY <1>10, <3>1, <3>2
  <2>2. ASSUME NEW k \in DOMAIN began', NEW m \in DOMAIN began', began'[k] = began'[m] PROVE k = m
    BY <1>1, <1>8, <1>10, <2>2 DEF BeganOK
  <2> QED BY <2>1, <2>2 DEF BeganOK
<1>12. \A b \in Boards, u \in Users : writer[b][u] # i
  <2> SUFFICES ASSUME NEW b \in Boards, NEW u \in Users, writer[b][u] = i PROVE FALSE
    OBVIOUS
  <2>1. /\ i \in DOMAIN calls /\ calls[i].op = "update"
        /\ \E k \in DOMAIN calls[i].list :
             k < calls[i].at \/ (k = calls[i].at /\ (calls[i].pc = "done" \/ calls[i].pc = "score"))
    BY <1>1 DEF WrittenOK
  <2>2. calls[i].pc = "lookup" /\ calls[i].at = 1
    BY <1>1, <2>1 DEF CallsTyped, CallTyped
  <2>3. calls[i] \in UpdateCalls
    BY <1>1, <2>1 DEF CallsTyped, CallTyped, CallsOf, ReadCalls, RankCalls, PageCalls
  <2>4. \A k \in DOMAIN calls[i].list : k >= 1
    <3>1. calls[i].list \in Seq(Boards)
      BY <2>3 DEF UpdateCalls, Ranks!ConstantsFit
    <3> QED BY <3>1
  <2>5. \A k \in DOMAIN calls[i].list : k \in Nat
    <3>1. calls[i].list \in Seq(Boards)
      BY <2>3 DEF UpdateCalls, Ranks!ConstantsFit
    <3> QED BY <3>1
  <2> QED BY <2>1, <2>2, <2>4, <2>5
<1>13. WrittenOK'
  <2> SUFFICES ASSUME NEW b \in Boards, NEW u \in Users, writer[b][u] # 0
               PROVE  LET j == writer[b][u] IN
                      /\ j \in DOMAIN calls' /\ calls'[j].op = "update"
                      /\ \E k \in DOMAIN calls'[j].list :
                           /\ calls'[j].list[k] = b
                           /\ \/ k < calls'[j].at
                              \/ k = calls'[j].at /\ (calls'[j].pc = "done" \/ (calls'[j].pc = "score" /\ Executed(j)'))
    BY <1>6 DEF WrittenOK
  <2> DEFINE j == writer[b][u]
  <2>1. j \in DOMAIN calls /\ calls[j].op = "update"
    BY <1>1 DEF WrittenOK
  <2>2. \E k \in DOMAIN calls[j].list :
          /\ calls[j].list[k] = b
          /\ \/ k < calls[j].at
             \/ k = calls[j].at /\ (calls[j].pc = "done" \/ (calls[j].pc = "score" /\ Executed(j)))
    BY <1>1 DEF WrittenOK
  <2>3. j # i
    BY <1>12
  <2>4. j \in DOMAIN calls' /\ calls'[j] = calls[j] /\ (Executed(j) => Executed(j)')
    BY <1>5, <1>6, <2>1, <2>3
  <2> QED BY <2>1, <2>2, <2>4
<1>14. ASSUME NEW x \in DOMAIN calls, NEW y \in DOMAIN calls, x # i, y # i, Leads(x, y) PROVE Leads(x, y)'
  <2>1. calls'[x] = calls[x] /\ calls'[y] = calls[y]
    BY <1>6, <1>14
  <2>2. HasNotWritten(y) => HasNotWritten(y)'
    BY <1>6, <2>1, Zenon DEF HasNotWritten
  <2> QED BY <1>4, <1>14, <2>1, <2>2, LeadsStays
<1>15. ASSUME NEW x \in DOMAIN calls, x # i, calls[x] \in UpdateCalls, CallTyped(calls[x]), calls[x].pc # "lookup",
              d.op = "update", d.pc # "lookup"
       PROVE  Leads(x, i)'
  <2>1. calls'[x] = calls[x] /\ Before(x, i)'
    BY <1>4, <1>6, <1>15
  <2>2. calls[x].at >= 1 /\ calls[x].at \in Nat /\ calls[x].pc \in {"name", "score", "done"}
    <3>1. calls[x].list \in Seq(Boards) /\ calls[x].at \in DOMAIN calls[x].list
      BY <1>15 DEF CallTyped, UpdateCalls, Ranks!ConstantsFit
    <3> QED BY <1>15, <3>1 DEF UpdateCalls
  <2>3. d.at = 1 /\ d.pc \in {"name", "done"} /\ calls'[i] = d
    BY <1>2, <1>15 DEF d
  <2>4. HasNotWritten(i)'
    <3>1. d \in UpdateCalls
      BY <1>2, <1>15 DEF CallTyped, CallsOf, ReadCalls, RankCalls, PageCalls
    <3>2. d.list[d.at] \in Boards
      BY <1>2, <1>15, <3>1 DEF CallTyped, UpdateCalls, Ranks!ConstantsFit
    <3> QED BY <1>6, <1>12, <2>3, <3>2 DEF HasNotWritten
  <2>5. CASE calls[x].at > 1
    BY <2>1, <2>3, <2>5 DEF Leads
  <2>6. CASE calls[x].at = 1
    BY <2>1, <2>2, <2>3, <2>4, <2>6 DEF Leads
  <2> QED BY <2>2, <2>5, <2>6
<1>16. InStep'
  <2> SUFFICES ASSUME NEW k \in DOMAIN began', NEW m \in DOMAIN began', k < m, Ranks!Alike(began[k], began[m])'
               PROVE  Leads(began[k], began[m])'
    BY DEF InStep
  <2>1. PICK x, y : x = began'[k] /\ y = began'[m]
    OBVIOUS
  <2>2. k \in DOMAIN began /\ x = began[k] /\ x \in DOMAIN calls /\ x # i
    BY <1>8, <1>9, <1>10, <2>1
  <2>3. calls[x] \in UpdateCalls /\ CallTyped(calls[x]) /\ calls[x].pc # "lookup"
    BY <1>1, <2>2 DEF BeganOK, CallsTyped, CallTyped, CallsOf, ReadCalls, RankCalls, PageCalls
  <2>4. ASSUME m \in DOMAIN began, began'[m] = began[m] PROVE Leads(x, y)'
    <3>1. y = began[m] /\ y \in DOMAIN calls /\ y # i
      BY <1>8, <2>1, <2>4
    <3>2. calls'[x] = calls[x] /\ calls'[y] = calls[y]
      BY <1>6, <2>2, <3>1
    <3>3. Ranks!Alike(x, y)
      BY <2>1, <3>2, Zenon DEF Ranks!Alike
    <3>4. k \in DOMAIN began /\ m \in DOMAIN began /\ k < m /\ x = began[k] /\ y = began[m]
      BY <2>2, <2>4, <3>1
    <3>5. Leads(x, y)
      <4>1. Ranks!Alike(began[k], began[m])
        BY <3>3, <3>4
      <4>2. Leads(began[k], began[m])
        BY <1>1, <3>4, <4>1 DEF InStep
      <4> QED BY <3>4, <4>2
    <3> QED BY <1>14, <2>2, <3>1, <3>5
  <2>5. ASSUME began'[m] = i, d.op = "update", d.pc # "lookup" PROVE Leads(x, y)'
    BY <1>15, <2>1, <2>2, <2>3, <2>5
  <2>6. Leads(x, y)'
    <3>1. \/ m \in DOMAIN began /\ began'[m] = began[m]
          \/ began'[m] = i /\ d.op = "update" /\ d.pc # "lookup"
      BY <1>10
    <3> QED BY <2>4, <2>5, <3>1, Zenon
  <2> QED BY <2>1, <2>6, Zenon DEF Leads, Before, HasNotWritten
<1>17. ReadingsOK'
  <2>1. ASSUME NEW j \in DOMAIN calls', j # i, calls'[j].op = "rank" PROVE ReadingOK(calls[j], Answered(j))'
    <3>1. j \in DOMAIN calls /\ calls'[j] = calls[j]
      BY <1>6, <2>1
    <3>2. ReadingOK(calls[j], Answered(j)) /\ (Answered(j)' => Answered(j))
      BY <1>1, <1>5, <2>1, <3>1, Zenon DEF ReadingsOK
    <3> QED BY <1>6, <3>1, <3>2, ReadingStays
  <2>2. ASSUME d.op = "rank" PROVE ReadingOK(calls[i], Answered(i))'
    BY <1>2, <1>5, <2>2 DEF ReadingOK, d
  <2> QED BY <2>1, <2>2, Zenon DEF ReadingsOK, d
<1> QED BY <1>3, <1>4, <1>11, <1>13, <1>16, <1>17 DEF RInv

LEMMA QueueStays ==
  ASSUME QueueOK, Queue' = Queue, DOMAIN calls' = DOMAIN calls, \A j \in DOMAIN calls : calls'[j].pc = calls[j].pc
  PROVE  QueueOK' /\ \A x, y : Before(x, y)' <=> Before(x, y)
<1>1. QueueOK'
  BY DEF QueueOK
<1>2. \A x, y : Before(x, y)' <=> Before(x, y)
  BY DEF Before
<1> QED BY <1>1, <1>2

(* The connection is lost: every command is rejected, in its order. *)
LEMMA LoseConnectionKeeps ==
  ASSUME Ranks!ConstantsFit, RInv, Ranks!LoseConnection
  PROVE  RInv'
<1>1. /\ CallsTyped /\ RanksTyped /\ QueueOK /\ BeganOK /\ WrittenOK /\ InStep /\ ReadingsOK
  BY DEF RInv
<1>2. calls' = calls /\ score' = score /\ writer' = writer /\ began' = began /\ sent' = <<>>
  BY DEF Ranks!LoseConnection, Ranks!data
<1>3. replies' = [k \in 1 .. Len(replies) + Len(sent) |->
                   [call |-> IF k <= Len(replies) THEN replies[k].call ELSE sent[k - Len(replies)], ok |-> FALSE]]
  BY DEF Ranks!LoseConnection
<1> DEFINE n == Len(replies) + Len(sent)
<1>4. /\ Len(replies) \in Nat /\ Len(sent) \in Nat /\ n \in Nat /\ DOMAIN Queue = 1 .. n
      /\ \A k \in 1 .. Len(replies) : Queue[k] = replies[k].call
  BY <1>1, QueueTyped DEF Total
<1>5. \A k \in 1 .. n : replies'[k] = [call |-> Queue[k], ok |-> FALSE]
  BY <1>3 DEF Queue
<1>6. \A k \in 1 .. n : Queue[k] \in Nat
  BY <1>1, <1>4 DEF QueueOK, CallsTyped
<1>7. replies' \in Seq([call : Nat, ok : BOOLEAN]) /\ Len(replies') = n
  <2>1. ASSUME NEW k \in 1 .. n PROVE replies'[k] \in [call : Nat, ok : BOOLEAN]
    <3>1. replies'[k] = [call |-> Queue[k], ok |-> FALSE] /\ Queue[k] \in Nat
      BY <1>5, <1>6, <2>1
    <3> QED BY <3>1
  <2>2. DOMAIN replies' = 1 .. n /\ replies' = [k \in 1 .. n |-> replies'[k]]
    BY <1>3
  <2> DEFINE R == [call : Nat, ok : BOOLEAN]
  <2> HIDE DEF n, R
  <2>3. replies' \in [1 .. n -> R]
    BY <2>1, <2>2 DEF R
  <2>4. replies' \in Seq(R) /\ Len(replies') = n
    BY <1>4, <2>3
  <2> QED BY <2>4 DEF R
<1> HIDE DEF n
<1>8. Queue' = Queue
  <2>1. DOMAIN Queue' = 1 .. n
    BY <1>2, <1>4, <1>7 DEF Queue
  <2>2. ASSUME NEW k \in 1 .. n PROVE Queue'[k] = Queue[k]
    <3>1. k \in 1 .. Len(replies') + Len(sent') /\ k <= Len(replies')
      BY <1>2, <1>4, <1>7
    <3>2. Queue'[k] = replies'[k].call
      BY <3>1 DEF Queue
    <3>3. replies'[k] = [call |-> Queue[k], ok |-> FALSE]
      BY <1>5
    <3> QED BY <3>2, <3>3
  <2> QED BY <1>4, <2>1, <2>2 DEF Queue
<1>9. QueueOK' /\ \A x, y : Before(x, y)' <=> Before(x, y)
  BY <1>1, <1>2, <1>8, QueueStays
<1>10. RanksTyped' /\ CallsTyped'
  BY <1>1, <1>2, <1>7 DEF RanksTyped, CallsTyped, CallTyped
<1>11. ASSUME NEW j PROVE (Executed(j) => Executed(j)') /\ ~Answered(j)'
  <2>1. DOMAIN replies = 1 .. Len(replies) /\ DOMAIN replies' = 1 .. n
    BY <1>1, <1>4, <1>7 DEF RanksTyped
  <2>2. \A k \in 1 .. Len(replies) : k \in 1 .. n /\ replies'[k].call = replies[k].call
    <3> SUFFICES ASSUME NEW k \in 1 .. Len(replies) PROVE k \in 1 .. n /\ replies'[k].call = replies[k].call
      OBVIOUS
    <3>1. k \in 1 .. n
      BY <1>4 DEF n
    <3>2. replies'[k] = [call |-> Queue[k], ok |-> FALSE]
      BY <1>5, <3>1
    <3> QED BY <1>4, <3>1, <3>2
  <2> QED BY <1>5, <2>1, <2>2 DEF Executed, Answered
<1>12. BeganOK' /\ WrittenOK' /\ InStep'
  <2>1. \A j \in DOMAIN calls : HasNotWritten(j) => HasNotWritten(j)'
    BY <1>2, Zenon DEF HasNotWritten
  <2> QED BY <1>1, <1>2, <1>9, <1>11, <2>1, UpdatesStay
<1>13. ReadingsOK'
  <2>1. ASSUME NEW j \in DOMAIN calls', calls'[j].op = "rank" PROVE ReadingOK(calls[j], Answered(j))'
    <3>1. ReadingOK(calls[j], Answered(j))
      BY <1>1, <1>2, <2>1 DEF ReadingsOK
    <3> QED BY <1>2, <1>11, <3>1, ReadingStays
  <2> QED BY <2>1, Zenon DEF ReadingsOK
<1> QED BY <1>9, <1>10, <1>12, <1>13 DEF RInv

(* Redis executes the first command it has not: its answer follows those on their way. *)
LEMMA ExecuteQueue ==
  ASSUME CallsTyped, RanksTyped, QueueOK, Ranks!Execute, NEW i, i = Head(sent),
         DOMAIN calls' = DOMAIN calls, \A j \in DOMAIN calls : calls'[j].pc = calls[j].pc
  PROVE  /\ QueueOK' /\ \A x, y : Before(x, y)' <=> Before(x, y)
         /\ i \in DOMAIN calls /\ calls[i].pc \in Flying /\ ~Executed(i) /\ Executed(i)'
         /\ \A x : Executed(x) /\ x # i => ~Before(i, x)
         /\ \A x : (Executed(x) => Executed(x)') /\ (x # i /\ Answered(x)' => Answered(x))
         /\ sent' \in Seq(Nat) /\ replies' \in Seq([call : Nat, ok : BOOLEAN])
<1> DEFINE r == Len(replies)
           s == Len(sent)
           R == [call : Nat, ok : BOOLEAN]
           a == [call |-> i, ok |-> TRUE]
<1>1. /\ r \in Nat /\ s \in Nat /\ DOMAIN Queue = 1 .. r + s
      /\ \A k \in 1 .. r : Queue[k] = replies[k].call
      /\ \A k \in 1 .. s : Queue[k + r] = sent[k]
  BY QueueTyped DEF Total
<1>2. sent \in Seq(Nat) /\ sent # <<>> /\ sent' = Tail(sent) /\ replies' = Append(replies, a)
  BY DEF Ranks!Execute, RanksTyped
<1>3. replies \in Seq(R)
  BY DEF RanksTyped
<1>4. s >= 1 /\ i = sent[1] /\ Len(sent') = s - 1 /\ (\A k \in 1 .. s - 1 : sent'[k] = sent[k + 1]) /\ sent' \in Seq(Nat)
  BY <1>2
<1>5. i \in Nat /\ a \in R /\ a.call = i
  BY <1>4, <1>2
<1> HIDE DEF R, a
<1>6. /\ replies' \in Seq(R) /\ Len(replies') = r + 1 /\ replies'[r + 1] = a
      /\ \A k \in 1 .. r : replies'[k] = replies[k]
      /\ DOMAIN replies = 1 .. r /\ DOMAIN replies' = 1 .. r + 1
  BY <1>2, <1>3, <1>5
<1>7. Queue' = Queue
  <2>1. DOMAIN Queue' = 1 .. r + s
    BY <1>1, <1>4, <1>6 DEF Queue
  <2>2. ASSUME NEW k \in 1 .. r + s PROVE Queue'[k] = Queue[k]
    <3>1. Queue'[k] = IF k <= r + 1 THEN replies'[k].call ELSE sent'[k - (r + 1)]
      BY <1>1, <1>4, <1>6 DEF Queue
    <3> HIDE DEF r, s
    <3>2. CASE k <= r
      <4>1. k \in 1 .. r /\ k <= r + 1
        BY <1>1, <3>2
      <4> QED BY <1>1, <1>6, <3>1, <4>1
    <3>3. CASE k = r + 1
      <4>1. 1 \in 1 .. s /\ 1 + r = k /\ k <= r + 1
        BY <1>1, <1>4, <3>3
      <4>2. Queue[k] = sent[1]
        BY <1>1, <4>1
      <4> QED BY <1>4, <1>5, <1>6, <3>1, <3>3, <4>1, <4>2
    <3>4. CASE k > r + 1
      <4>1. k - (r + 1) \in 1 .. s - 1 /\ (k - (r + 1)) + 1 \in 1 .. s /\ ((k - (r + 1)) + 1) + r = k /\ ~(k <= r + 1)
        <5>1. r \in Nat /\ s \in Nat /\ k \in Int
          BY <1>1
        <5> QED BY <3>4, <5>1
      <4>2. Queue[k] = sent[(k - (r + 1)) + 1]
        BY <1>1, <4>1
      <4> QED BY <1>4, <3>1, <4>1, <4>2
    <3> QED BY <1>1, <3>2, <3>3, <3>4
  <2> QED BY <1>1, <2>1, <2>2 DEF Queue
<1>8. QueueOK' /\ \A x, y : Before(x, y)' <=> Before(x, y)
  BY <1>7, QueueStays
<1> HIDE DEF r, s
<1>9. r + 1 \in DOMAIN Queue /\ Queue[r + 1] = i
  <2>1. 1 \in 1 .. s /\ 1 + r = r + 1
    BY <1>1, <1>4
  <2>2. Queue[1 + r] = sent[1]
    BY <1>1, <2>1
  <2> QED BY <1>1, <1>4, <2>1, <2>2
<1>10. i \in DOMAIN calls /\ calls[i].pc \in Flying
  BY <1>9 DEF QueueOK
<1>11. ~Executed(i)
  <2> SUFFICES ASSUME NEW k \in 1 .. r, replies[k].call = i PROVE FALSE
    BY <1>6 DEF Executed
  <2>1. k \in DOMAIN Queue /\ Queue[k] = i /\ k # r + 1
    BY <1>1
  <2> QED BY <1>9, <2>1 DEF QueueOK
<1>12. Executed(i)'
  <2>1. r + 1 \in DOMAIN replies' /\ replies'[r + 1].call = i
    BY <1>1, <1>5, <1>6
  <2> QED BY <2>1 DEF Executed
<1>13. ASSUME NEW x, Executed(x), Before(i, x) PROVE FALSE
  <2>1. PICK k \in 1 .. r : replies[k].call = x
    BY <1>6, <1>13 DEF Executed
  <2>2. k \in DOMAIN Queue /\ Queue[k] = x
    BY <1>1, <2>1
  <2>3. r + 1 < k
    BY <1>9, <1>13, <2>2 DEF Before
  <2> QED BY <1>1, <2>1, <2>3
<1>14. ASSUME NEW x, Executed(x) PROVE Executed(x)'
  <2>1. PICK k \in 1 .. r : replies[k].call = x
    BY <1>6, <1>14 DEF Executed
  <2>2. k \in DOMAIN replies' /\ replies'[k].call = x
    BY <1>1, <1>6, <2>1
  <2> QED BY <2>2 DEF Executed
<1>15. ASSUME NEW x, x # i, Answered(x)' PROVE Answered(x)
  <2>1. PICK k \in 1 .. r + 1 : replies'[k].call = x /\ replies'[k].ok
    BY <1>6, <1>15 DEF Answered
  <2>2. k # r + 1
    BY <1>5, <1>6, <1>15, <2>1
  <2>3. k \in DOMAIN replies /\ replies[k] = replies'[k]
    BY <1>1, <1>6, <2>1, <2>2
  <2> QED BY <2>1, <2>3 DEF Answered
<1> QED BY <1>4, <1>6, <1>8, <1>10, <1>11, <1>12, <1>13, <1>14, <1>15 DEF R

LEMMA Unsteady ==
  ASSUME NEW c, CallTyped(c), c.op # "update"
  PROVE  CallTyped([c EXCEPT !.steady = FALSE]) /\ c.board \in Boards
<1>1. c \in RankCalls \/ c \in PageCalls
  BY DEF CallTyped, CallsOf, ReadCalls, UpdateCalls
<1>2. CASE c \in RankCalls
  <2>1. [c EXCEPT !.steady = FALSE] \in RankCalls /\ [c EXCEPT !.steady = FALSE].op = "rank" /\ c.board \in Boards
    BY <1>2 DEF RankCalls
  <2> QED BY <2>1 DEF CallTyped, CallsOf, ReadCalls
<1>3. CASE c \in PageCalls
  <2>1. [c EXCEPT !.steady = FALSE] \in PageCalls /\ [c EXCEPT !.steady = FALSE].op = "page" /\ c.board \in Boards
    BY <1>3 DEF PageCalls
  <2> QED BY <2>1 DEF CallTyped, CallsOf, ReadCalls
<1> QED BY <1>1, <1>2, <1>3

(* Redis writes the score of an update. *)
LEMMA WriteKeeps ==
  ASSUME Ranks!ConstantsFit, RInv, Ranks!Execute, NEW i, i = Head(sent), NEW c, c = calls[i], c.pc = "score"
  PROVE  RInv'
<1> DEFINE b == c.list[c.at]
<1>1. /\ CallsTyped /\ RanksTyped /\ QueueOK /\ BeganOK /\ WrittenOK /\ InStep /\ ReadingsOK
  BY DEF RInv
<1>2. /\ Ranks!WriteScore(b, c, i) /\ began' = began
  BY DEF Ranks!Execute
<1>3. /\ DOMAIN calls' = DOMAIN calls
      /\ \A j \in DOMAIN calls : calls'[j] = IF calls[j].op # "update" /\ calls[j].board = b
                                               THEN [calls[j] EXCEPT !.steady = FALSE] ELSE calls[j]
      /\ score' = [score EXCEPT ![b][c.user] = c.score]
      /\ writer' = [writer EXCEPT ![b][c.user] = i]
  BY <1>2 DEF Ranks!WriteScore
<1> HIDE DEF b
<1>4. \A j \in DOMAIN calls : calls[j].op = "update" => calls'[j] = calls[j]
  BY <1>3
<1>5. ASSUME NEW j \in DOMAIN calls
      PROVE  CallTyped(calls'[j]) /\ calls'[j].pc = calls[j].pc /\ calls'[j].op = calls[j].op
  <2>1. CallTyped(calls[j])
    BY <1>1 DEF CallsTyped
  <2>2. CASE calls'[j] = calls[j]
    BY <2>1, <2>2
  <2>3. CASE calls[j].op # "update" /\ calls'[j] = [calls[j] EXCEPT !.steady = FALSE]
    <3>1. CallTyped(calls'[j])
      BY <2>1, <2>3, Unsteady
    <3>2. calls[j] \in RankCalls \/ calls[j] \in PageCalls
      BY <2>1, <2>3 DEF CallTyped, CallsOf, ReadCalls, UpdateCalls
    <3>3. calls'[j].pc = calls[j].pc /\ calls'[j].op = calls[j].op
      BY <2>3, <3>2 DEF RankCalls, PageCalls
    <3> QED BY <3>1, <3>3
  <2> QED BY <1>3, <2>2, <2>3
<1>6. CallsTyped'
  <2>1. calls' \in Seq(CallsOf)
    <3>1. calls \in Seq(CallsOf)
      BY <1>1 DEF CallsTyped
    <3>2. \A j \in DOMAIN calls' : calls'[j] \in CallsOf
      BY <1>3, <1>5 DEF CallTyped
    <3>3. calls' = [j \in DOMAIN calls |-> calls'[j]]
      BY <1>2 DEF Ranks!WriteScore
    <3> HIDE DEF CallsOf
    <3>4. Len(calls) \in Nat /\ DOMAIN calls = 1 .. Len(calls)
      BY <3>1
    <3>5. calls' \in [1 .. Len(calls) -> CallsOf]
      BY <1>3, <3>2, <3>3, <3>4
    <3> QED BY <3>4, <3>5
  <2> QED BY <1>3, <1>5, <2>1 DEF CallsTyped, CallTyped
<1>7. /\ QueueOK' /\ \A x, y : Before(x, y)' <=> Before(x, y)
      /\ i \in DOMAIN calls /\ Executed(i)'
      /\ \A x : (Executed(x) => Executed(x)') /\ (x # i /\ Answered(x)' => Answered(x))
      /\ sent' \in Seq(Nat) /\ replies' \in Seq([call : Nat, ok : BOOLEAN])
  BY <1>1, <1>3, <1>5, ExecuteQueue
<1>8. c \in UpdateCalls /\ CallTyped(c) /\ c.op = "update"
  <2>1. CallTyped(c)
    BY <1>1, <1>7 DEF CallsTyped
  <2>2. c \in UpdateCalls
    BY <2>1 DEF CallTyped, CallsOf, ReadCalls, RankCalls, PageCalls
  <2> QED BY <2>1, <2>2 DEF UpdateCalls
<1>9. b \in Boards /\ c.user \in Users /\ c.score \in Nat /\ i \in Nat /\ c.at \in DOMAIN c.list
  <2>1. c.list \in Seq(Boards) /\ c.at \in DOMAIN c.list
    BY <1>8 DEF CallTyped, UpdateCalls, Ranks!ConstantsFit
  <2>2. b \in Boards
    BY <2>1 DEF b
  <2>3. c.user \in Users /\ c.score \in Scores
    BY <1>8 DEF UpdateCalls
  <2>4. i \in Nat
    BY <1>1, <1>7 DEF CallsTyped
  <2> QED BY <2>1, <2>2, <2>3, <2>4 DEF Ranks!ConstantsFit
<1>10. score' \in [Boards -> [Users -> Nat]] /\ writer' \in [Boards -> [Users -> Nat]]
  BY <1>1, <1>3, <1>9 DEF RanksTyped
<1>11. RanksTyped'
  BY <1>1, <1>2, <1>7, <1>10 DEF RanksTyped
<1>12. \A d \in Boards, u \in Users :
         writer'[d][u] = IF d = b /\ u = c.user THEN i ELSE writer[d][u]
  BY <1>1, <1>3, <1>9 DEF RanksTyped
<1>13. BeganOK' /\ InStep'
  <2>1. ASSUME NEW j \in DOMAIN calls, calls[j].op = "update", calls[j].pc = "done", HasNotWritten(j)
        PROVE  HasNotWritten(j)'
    <3>1. j # i /\ calls'[j] = calls[j]
      BY <1>4, <2>1
    <3>2. calls[j].list[calls[j].at] \in Boards
      <4>1. CallTyped(calls[j])
        BY <1>1 DEF CallsTyped
      <4>2. calls[j] \in UpdateCalls
        BY <2>1, <4>1 DEF CallTyped, CallsOf, ReadCalls, RankCalls, PageCalls
      <4> QED BY <2>1, <4>1, <4>2 DEF CallTyped, UpdateCalls, Ranks!ConstantsFit
    <3>3. \A u \in Users : writer[calls[j].list[calls[j].at]][u] # j
      BY <2>1 DEF HasNotWritten
    <3>4. \A u \in Users : writer'[calls[j].list[calls[j].at]][u] # j
      BY <1>12, <3>1, <3>2, <3>3
    <3> QED BY <3>1, <3>4 DEF HasNotWritten
  <2> QED BY <1>1, <1>2, <1>3, <1>4, <1>7, <2>1, UpdatesStay
<1>14. WrittenOK'
  <2>1. ASSUME NEW d \in Boards, NEW u \in Users, NEW j, j = writer'[d][u], j # 0
        PROVE  /\ j \in DOMAIN calls' /\ calls'[j].op = "update"
               /\ \E k \in DOMAIN calls'[j].list :
                    /\ calls'[j].list[k] = d
                    /\ \/ k < calls'[j].at
                       \/ k = calls'[j].at /\ (calls'[j].pc = "done" \/ (calls'[j].pc = "score" /\ Executed(j)'))
    <3>1. CASE d = b /\ u = c.user
      <4>1. j = i /\ calls'[j] = c
        BY <1>4, <1>7, <1>8, <1>12, <2>1, <3>1
      <4>2. j \in DOMAIN calls' /\ Executed(j)'
        BY <1>3, <1>7, <4>1
      <4> QED BY <1>8, <1>9, <3>1, <4>1, <4>2 DEF b
    <3>2. CASE ~(d = b /\ u = c.user)
      <4>1. j = writer[d][u]
        BY <1>12, <2>1, <3>2
      <4>2. /\ j \in DOMAIN calls /\ calls[j].op = "update"
            /\ \E k \in DOMAIN calls[j].list :
                 /\ calls[j].list[k] = d
                 /\ \/ k < calls[j].at
                    \/ k = calls[j].at /\ (calls[j].pc = "done" \/ (calls[j].pc = "score" /\ Executed(j)))
        BY <1>1, <2>1, <4>1 DEF WrittenOK
      <4>3. j \in DOMAIN calls' /\ calls'[j] = calls[j] /\ (Executed(j) => Executed(j)')
        BY <1>3, <1>4, <1>7, <4>2
      <4> QED BY <4>2, <4>3
    <3> QED BY <3>1, <3>2
  <2> QED BY <2>1 DEF WrittenOK, Executed
<1>15. ReadingsOK'
  <2>1. ASSUME NEW j \in DOMAIN calls', calls'[j].op = "rank" PROVE ReadingOK(calls[j], Answered(j))'
    <3>1. calls[j].op = "rank" /\ j \in DOMAIN calls /\ j # i /\ ReadingOK(calls[j], Answered(j))
      BY <1>1, <1>3, <1>5, <1>8, <2>1 DEF ReadingsOK
    <3>2. CASE calls[j].board = b
      <4>1. calls'[j] = [calls[j] EXCEPT !.steady = FALSE]
        BY <1>3, <3>1, <3>2
      <4>2. calls[j] \in RankCalls
        BY <1>1, <3>1 DEF CallsTyped, CallTyped, CallsOf, ReadCalls, UpdateCalls, PageCalls
      <4>3. calls'[j].steady = FALSE
        BY <4>1, <4>2 DEF RankCalls
      <4> QED BY <4>3 DEF ReadingOK
    <3>3. CASE calls[j].board # b
      <4>1. calls'[j] = calls[j] /\ score'[calls[j].board] = score[calls[j].board]
        <5>1. calls[j].board \in Boards
          BY <1>1, <3>1, Unsteady DEF CallsTyped
        <5> QED BY <1>1, <1>3, <3>1, <3>3, <5>1 DEF RanksTyped
      <4>2. Answered(j)' => Answered(j)
        BY <1>7, <3>1
      <4> QED BY <3>1, <4>1, <4>2, ReadingStays
    <3> QED BY <3>2, <3>3
  <2> QED BY <2>1, Zenon DEF ReadingsOK
<1> QED BY <1>6, <1>7, <1>11, <1>13, <1>14, <1>15 DEF RInv

LEMMA Product ==
  ASSUME NEW m \in Nat, NEW n \in Nat
  PROVE  m * n \in Nat
OBVIOUS

(* What Redis answers: the figures of the reading are those of its board. *)
LEMMA AnsweredIs ==
  ASSUME Ranks!ConstantsFit, RanksTyped, NEW c, CallTyped(c), c.pc \in Flying, c.pc # "score",
         NEW d, d = Ranks!Answered(c)
  PROVE  /\ CallTyped(d) /\ d.op = c.op /\ d.pc = c.pc
         /\ c.op = "update" => d = c
         /\ c.op = "rank" /\ c.pc = "place" /\ d.place # 0 => HasPlace(d)
         /\ c.op = "rank" /\ c.pc = "around" => HasRows(d) /\ (HasPlace(c) => HasPlace(d)) /\ d.steady = c.steady
         /\ c.op = "rank" /\ c.pc = "names" => d = c
<1>1. c \in UpdateCalls \/ c \in RankCalls \/ c \in PageCalls
  BY DEF CallTyped, CallsOf, ReadCalls
<1>2. CASE c \in UpdateCalls
  <2>1. c.pc = "name" /\ c.op = "update"
    BY <1>2 DEF UpdateCalls, Flying
  <2>2. d = c
    BY <2>1 DEF Ranks!Answered
  <2> QED BY <2>1, <2>2
<1>3. CASE c \in RankCalls
  <2>1. c.op = "rank" /\ c.pc \in {"place", "around", "names"} /\ c.board \in Boards /\ c.user \in Users
    BY <1>3 DEF RankCalls, Flying
  <2>2. CASE c.pc = "place"
    <3> DEFINE all == Ranks!Ranked(c.board)
               place == IF c.user \in Ranks!ToSet(all) THEN CHOOSE k \in DOMAIN all : all[k] = c.user ELSE 0
    <3>1. d = [c EXCEPT !.place = place, !.score = score[c.board][c.user], !.steady = TRUE]
      BY <2>2 DEF Ranks!Answered
    <3>2. all \in Seq(Users)
      BY <2>1, RankedInOrder
    <3>3. place \in Nat /\ (place # 0 => place \in DOMAIN all /\ all[place] = c.user)
      <4>1. CASE c.user \in Ranks!ToSet(all)
        <5>1. \E k \in DOMAIN all : all[k] = c.user
          BY <4>1 DEF Ranks!ToSet
        <5>2. place \in DOMAIN all /\ all[place] = c.user
          BY <4>1, <5>1
        <5> HIDE DEF place, all
        <5> QED BY <3>2, <5>2
      <4>2. CASE c.user \notin Ranks!ToSet(all)
        BY <4>2
      <4> QED BY <4>1, <4>2
    <3>4. score[c.board][c.user] \in Nat
      BY <2>1 DEF RanksTyped
    <3> HIDE DEF place, all
    <3>5. d \in RankCalls
      BY <1>3, <3>1, <3>3, <3>4 DEF RankCalls
    <3>6. d.op = c.op /\ d.pc = c.pc /\ d.place = place /\ d.score = score[c.board][c.user]
          /\ d.board = c.board /\ d.user = c.user
      BY <1>3, <3>1 DEF RankCalls
    <3>7. d.place # 0 => HasPlace(d)
      BY <3>3, <3>6 DEF HasPlace, all
    <3> QED BY <2>1, <2>2, <3>5, <3>6, <3>7 DEF CallTyped, CallsOf, ReadCalls
  <2>3. CASE c.pc = "around"
    <3> DEFINE rows == Ranks!Slice(c.board, Ranks!StartRank(c), Ranks!StopRank(c))
    <3>1. d = [c EXCEPT !.rows = rows]
      BY <2>3 DEF Ranks!Answered
    <3>2. Ranks!StartRank(c) \in Nat /\ Ranks!StopRank(c) \in Int /\ Ranks!StopRank(c) + 1 >= 0
      <4>1. c.place \in Nat /\ Surrounding \in Nat
        BY <1>3 DEF RankCalls, Ranks!ConstantsFit
      <4> QED BY <4>1 DEF Ranks!StartRank, Ranks!StopRank
    <3>3. rows \in Seq(Entry)
      BY <2>1, <3>2, SliceIs
    <3> HIDE DEF rows
    <3>4. d \in RankCalls
      BY <1>3, <3>1, <3>3 DEF RankCalls
    <3>5. /\ d.op = c.op /\ d.pc = c.pc /\ d.place = c.place /\ d.score = c.score /\ d.rows = rows
          /\ d.board = c.board /\ d.user = c.user /\ d.steady = c.steady
      BY <1>3, <3>1 DEF RankCalls
    <3>6. HasRows(d)
      BY <3>5, Zenon DEF HasRows, rows, Ranks!StartRank, Ranks!StopRank
    <3>7. HasPlace(c) => HasPlace(d)
      BY <3>5, Zenon DEF HasPlace
    <3> QED BY <2>1, <2>3, <3>4, <3>5, <3>6, <3>7 DEF CallTyped, CallsOf, ReadCalls
  <2>4. CASE c.pc = "names"
    <3>1. d = c
      BY <2>4 DEF Ranks!Answered
    <3> QED BY <2>1, <2>4, <3>1
  <2> QED BY <2>1, <2>2, <2>3, <2>4
<1>4. CASE c \in PageCalls
  <2>1. c.op = "page" /\ c.pc \in {"card", "range", "names"} /\ c.board \in Boards
    BY <1>4 DEF PageCalls, Flying
  <2>2. CASE c.pc = "card"
    <3> DEFINE n == Len(Ranks!Ranked(c.board))
    <3>1. d = [c EXCEPT !.total = n, !.steady = TRUE]
      BY <2>2 DEF Ranks!Answered
    <3>2. n \in Nat
      BY <2>1, RankedInOrder
    <3> HIDE DEF n
    <3>3. d \in PageCalls /\ d.op = c.op /\ d.pc = c.pc
      BY <1>4, <3>1, <3>2 DEF PageCalls
    <3> QED BY <2>1, <3>3 DEF CallTyped, CallsOf, ReadCalls
  <2>3. CASE c.pc = "range"
    <3> DEFINE rows == Ranks!Slice(c.board, (c.page - 1) * PageLimit, c.page * PageLimit - 1)
    <3>1. d = [c EXCEPT !.rows = rows]
      BY <2>3 DEF Ranks!Answered
    <3>2. /\ (c.page - 1) * PageLimit \in Nat /\ c.page * PageLimit - 1 \in Int
          /\ (c.page * PageLimit - 1) + 1 >= 0
      <4>1. c.page \in Nat /\ c.page - 1 \in Nat /\ PageLimit \in Nat
        BY <1>4 DEF PageCalls, Ranks!ConstantsFit
      <4>2. (c.page - 1) * PageLimit \in Nat /\ c.page * PageLimit \in Nat
        BY <4>1, Product
      <4> QED BY <4>2
    <3>3. rows \in Seq(Entry)
      BY <2>1, <3>2, SliceIs
    <3> HIDE DEF rows
    <3>4. d \in PageCalls /\ d.op = c.op /\ d.pc = c.pc
      BY <1>4, <3>1, <3>3 DEF PageCalls
    <3> QED BY <2>1, <3>4 DEF CallTyped, CallsOf, ReadCalls
  <2>4. CASE c.pc = "names"
    <3>1. d = c
      BY <2>4 DEF Ranks!Answered
    <3> QED BY <2>1, <3>1
  <2> QED BY <2>1, <2>2, <2>3, <2>4
<1> QED BY <1>1, <1>2, <1>3, <1>4

(* Redis answers a reading, or confirms a name. *)
LEMMA RedisAnswerKeeps ==
  ASSUME Ranks!ConstantsFit, RInv, Ranks!Execute, NEW i, i = Head(sent), NEW c, c = calls[i], c.pc # "score"
  PROVE  RInv'
<1>1. /\ CallsTyped /\ RanksTyped /\ QueueOK /\ BeganOK /\ WrittenOK /\ InStep /\ ReadingsOK
  BY DEF RInv
<1>2. /\ calls' = [calls EXCEPT ![i] = Ranks!Answered(c)]
      /\ score' = score /\ writer' = writer /\ began' = began
  BY DEF Ranks!Execute, Ranks!data
<1>3. i \in DOMAIN calls /\ c.pc \in Flying /\ CallTyped(c)
  <2>1. sent \in Seq(Nat) /\ sent # <<>>
    BY <1>1 DEF Ranks!Execute, RanksTyped
  <2>2. Len(sent) >= 1 /\ i = sent[1] /\ Len(sent) \in Nat
    BY <2>1
  <2>3. 1 + Len(replies) \in DOMAIN Queue /\ Queue[1 + Len(replies)] = i
    <3>1. /\ Len(replies) \in Nat /\ DOMAIN Queue = 1 .. Len(replies) + Len(sent)
          /\ \A k \in 1 .. Len(sent) : Queue[k + Len(replies)] = sent[k]
      BY <1>1, QueueTyped DEF Total
    <3>2. 1 \in 1 .. Len(sent)
      BY <2>2
    <3> QED BY <2>2, <3>1, <3>2
  <2> QED BY <1>1, <2>3 DEF QueueOK, CallsTyped
<1>4. PICK d : d = Ranks!Answered(c)
  OBVIOUS
<1>5. /\ CallTyped(d) /\ d.op = c.op /\ d.pc = c.pc
      /\ c.op = "update" => d = c
      /\ c.op = "rank" /\ c.pc = "place" /\ d.place # 0 => HasPlace(d)
      /\ c.op = "rank" /\ c.pc = "around" => HasRows(d) /\ (HasPlace(c) => HasPlace(d)) /\ d.steady = c.steady
      /\ c.op = "rank" /\ c.pc = "names" => d = c
  BY <1>1, <1>3, <1>4, AnsweredIs
<1>6. /\ DOMAIN calls' = DOMAIN calls /\ calls'[i] = d
      /\ \A j \in DOMAIN calls : j # i => calls'[j] = calls[j]
      /\ calls' \in Seq(CallsOf)
  <2>1. calls \in Seq(CallsOf) /\ d \in CallsOf
    BY <1>1, <1>5 DEF CallsTyped, CallTyped
  <2> HIDE DEF CallsOf
  <2> QED BY <1>2, <1>3, <1>4, <2>1
<1>7. /\ \A j \in DOMAIN calls : calls'[j].pc = calls[j].pc /\ calls'[j].op = calls[j].op
      /\ \A j \in DOMAIN calls : calls[j].op = "update" => calls'[j] = calls[j]
  BY <1>5, <1>6
<1>8. /\ QueueOK' /\ \A x, y : Before(x, y)' <=> Before(x, y)
      /\ \A x : (Executed(x) => Executed(x)') /\ (x # i /\ Answered(x)' => Answered(x))
      /\ sent' \in Seq(Nat) /\ replies' \in Seq([call : Nat, ok : BOOLEAN])
  BY <1>1, <1>6, <1>7, ExecuteQueue
<1>9. RanksTyped' /\ CallsTyped'
  <2>1. \A j \in DOMAIN calls' : CallTyped(calls'[j])
    BY <1>1, <1>5, <1>6 DEF CallsTyped
  <2>2. CallsTyped'
    BY <1>6, <2>1, Zenon DEF CallsTyped, CallTyped
  <2> QED BY <1>1, <1>2, <1>8, <2>2 DEF RanksTyped
<1>10. BeganOK' /\ WrittenOK' /\ InStep'
  <2>1. \A j \in DOMAIN calls : calls[j].op = "update" /\ HasNotWritten(j) => HasNotWritten(j)'
    BY <1>2, <1>7, Zenon DEF HasNotWritten
  <2> QED BY <1>1, <1>2, <1>6, <1>7, <1>8, <2>1, UpdatesStay
<1>11. ReadingsOK'
  <2>1. ASSUME NEW j \in DOMAIN calls', calls'[j].op = "rank" PROVE ReadingOK(calls[j], Answered(j))'
    <3>1. calls[j].op = "rank" /\ j \in DOMAIN calls /\ ReadingOK(calls[j], Answered(j))
      BY <1>1, <1>6, <1>7, <2>1 DEF ReadingsOK
    <3>2. CASE j # i
      BY <1>2, <1>6, <1>8, <3>1, <3>2, ReadingStays
    <3>3. CASE j = i
      <4>1. (HasPlace(d) => HasPlace(d)') /\ (HasRows(d) => HasRows(d)')
        BY <1>2, SameFigures
      <4>2. ReadingOK(c, Answered(i)) /\ c.op = "rank" /\ c.pc \in {"place", "around", "names"}
        <5>1. c \in RankCalls
          BY <1>3, <3>1, <3>3 DEF CallTyped, CallsOf, ReadCalls, UpdateCalls, PageCalls
        <5> QED BY <1>3, <3>1, <3>3, <5>1 DEF RankCalls, Flying
      <4>3. ReadingOK(d, Answered(i))'
        <5> SUFFICES ASSUME d.steady PROVE ReadingOK(d, Answered(i))'
          BY Zenon DEF ReadingOK
        <5>1. CASE c.pc = "place"
          BY <1>5, <4>1, <4>2, <5>1 DEF ReadingOK
        <5>2. CASE c.pc = "around"
          BY <1>5, <4>1, <4>2, <5>2 DEF ReadingOK
        <5>3. CASE c.pc = "names"
          BY <1>5, <4>1, <4>2, <5>3 DEF ReadingOK
        <5> QED BY <4>2, <5>1, <5>2, <5>3
      <4> QED BY <1>6, <3>3, <4>3, Zenon DEF ReadingOK, HasPlace, HasRows
    <3> QED BY <3>2, <3>3
  <2> QED BY <2>1, Zenon DEF ReadingsOK
<1> QED BY <1>8, <1>9, <1>10, <1>11 DEF RInv

LEMMA UpdateFields ==
  ASSUME NEW c \in UpdateCalls, NEW pc \in {"lookup", "name", "score", "done"}
  PROVE  LET d == [c EXCEPT !.pc = pc] IN
         /\ d \in UpdateCalls /\ d.op = "update" /\ d.pc = pc /\ d.user = c.user /\ d.score = c.score
         /\ d.list = c.list /\ d.at = c.at /\ d.whole = c.whole
BY DEF UpdateCalls

LEMMA RankFields ==
  ASSUME NEW c \in RankCalls, NEW pc \in {"place", "around", "names", "done", "failed", "missing"}
  PROVE  LET d == [c EXCEPT !.pc = pc] IN
         /\ d \in RankCalls /\ d.op = "rank" /\ d.pc = pc /\ d.user = c.user /\ d.score = c.score
         /\ d.board = c.board /\ d.place = c.place /\ d.rows = c.rows /\ d.steady = c.steady
BY DEF RankCalls

LEMMA PageFields ==
  ASSUME NEW c \in PageCalls, NEW pc \in {"card", "range", "names", "done", "failed"}
  PROVE  LET d == [c EXCEPT !.pc = pc] IN
         /\ d \in PageCalls /\ d.op = "page" /\ d.pc = pc /\ d.user = c.user /\ d.score = c.score
         /\ d.board = c.board /\ d.place = c.place /\ d.rows = c.rows /\ d.steady = c.steady
BY DEF PageCalls

(* The step of a call whose record becomes d, as a turn. *)
LEMMA TurnFrom ==
  ASSUME RanksTyped, CallsTyped, NEW i \in Nat, NEW gone \in 0 .. 1, NEW c \in CallsOf, NEW d \in CallsOf,
         \/ i \in DOMAIN calls /\ calls' = [calls EXCEPT ![i] = d]
         \/ i = Len(calls) + 1 /\ calls' = [Append(calls, c) EXCEPT ![i] = d]
         \/ i = Len(calls) + 1 /\ calls' = Append(calls, d),
         score' = score, writer' = writer,
         \/ gone = 0 /\ replies' = replies /\ (i \notin DOMAIN calls \/ calls[i].pc \notin Flying)
         \/ gone = 1 /\ replies # <<>> /\ Head(replies).call = i /\ replies' = Tail(replies),
         \/ d.pc \in Flying /\ sent' = Append(sent, i)
         \/ d.pc \notin Flying /\ sent' = sent
  PROVE  Turn(i, gone) /\ calls' \in Seq(CallsOf) /\ calls'[i] = d
<1>1. calls \in Seq(CallsOf)
  BY DEF CallsTyped
<1> HIDE DEF CallsOf
<1>2. Len(calls) \in Nat /\ DOMAIN calls = 1 .. Len(calls)
  BY <1>1
<1>3. /\ i \in DOMAIN calls' /\ DOMAIN calls \subseteq DOMAIN calls' /\ DOMAIN calls' \subseteq DOMAIN calls \cup {i}
      /\ \A j \in DOMAIN calls : j # i => calls'[j] = calls[j]
      /\ calls' \in Seq(CallsOf) /\ calls'[i] = d
  <2>1. CASE i \in DOMAIN calls /\ calls' = [calls EXCEPT ![i] = d]
    BY <1>1, <2>1
  <2>2. CASE i = Len(calls) + 1 /\ calls' = [Append(calls, c) EXCEPT ![i] = d]
    <3> DEFINE all == Append(calls, c)
    <3>1. /\ all \in Seq(CallsOf) /\ Len(all) = Len(calls) + 1 /\ DOMAIN all = 1 .. Len(calls) + 1
          /\ \A j \in 1 .. Len(calls) : all[j] = calls[j]
      BY <1>1
    <3> HIDE DEF all
    <3>2. calls' = [all EXCEPT ![i] = d] /\ i \in DOMAIN all
      BY <1>2, <2>2, <3>1 DEF all
    <3>3. /\ DOMAIN calls' = 1 .. Len(calls) + 1 /\ calls'[i] = d
          /\ \A j \in DOMAIN all : j # i => calls'[j] = all[j]
      BY <3>1, <3>2
    <3>4. calls' \in Seq(CallsOf)
      BY <3>1, <3>2
    <3> QED BY <1>2, <2>2, <3>1, <3>2, <3>3, <3>4
  <2>3. CASE i = Len(calls) + 1 /\ calls' = Append(calls, d)
    <3>1. /\ calls' \in Seq(CallsOf) /\ DOMAIN calls' = 1 .. Len(calls) + 1 /\ calls'[i] = d
          /\ \A j \in 1 .. Len(calls) : calls'[j] = calls[j]
      BY <1>1, <2>3
    <3> QED BY <1>2, <2>3, <3>1
  <2> QED BY <2>1, <2>2, <2>3
<1> QED BY <1>3 DEF Turn

\* the fields of a call its command leaves as they are
SameCall(c, d) ==
  /\ c \in UpdateCalls => /\ d \in UpdateCalls /\ d.op = "update" /\ d.pc \in {c.pc, "done"}
                          /\ d.list = c.list /\ d.at = c.at /\ d.whole = c.whole
  /\ c \in RankCalls =>
       /\ d \in RankCalls /\ d.op = "rank" /\ d.pc \in {c.pc, "failed"}
       /\ d.board = c.board /\ d.user = c.user /\ d.place = c.place /\ d.score = c.score
       /\ d.rows = c.rows /\ d.steady = c.steady
  /\ c \in PageCalls =>
       /\ d \in PageCalls /\ d.op = "page"
       /\ d.board = c.board /\ d.user = c.user /\ d.place = c.place /\ d.score = c.score
       /\ d.rows = c.rows /\ d.steady = c.steady

(* A command that is issued joins the pipeline, or its call has ended. *)
LEMMA IssueIs ==
  ASSUME NEW all, NEW i, NEW c \in CallsOf, c.pc \in Flying, Ranks!Issue(i, all, c)
  PROVE  \E d \in CallsOf : /\ calls' = [all EXCEPT ![i] = d] /\ SameCall(c, d)
                            /\ \/ d.pc \in Flying /\ sent' = Append(sent, i)
                               \/ d.pc \notin Flying /\ sent' = sent
<1>1. c \in UpdateCalls \/ c \in RankCalls \/ c \in PageCalls
  BY DEF CallsOf, ReadCalls
<1>2. /\ c \in UpdateCalls => c.op = "update"
      /\ c \in RankCalls => c.op = "rank"
      /\ c \in PageCalls => c.op = "page"
  BY DEF UpdateCalls, RankCalls, PageCalls
<1>3. CASE client = "open"
  BY <1>1, <1>2, <1>3, Zenon DEF Ranks!Issue, SameCall
<1>4. CASE client # "open"
  <2> DEFINE d == [c EXCEPT !.pc = IF c.op = "update" THEN "done" ELSE "failed"]
  <2>0. calls' = [all EXCEPT ![i] = d] /\ sent' = sent
    BY <1>4 DEF Ranks!Issue
  <2>1. CASE c \in UpdateCalls
    <3>1. d = [c EXCEPT !.pc = "done"]
      BY <1>2, <2>1
    <3> HIDE DEF d
    <3>2. /\ d \in UpdateCalls /\ d.op = "update" /\ d.pc = "done"
          /\ d.list = c.list /\ d.at = c.at /\ d.whole = c.whole
      BY <2>1, <3>1, UpdateFields
    <3>3. d \in CallsOf /\ d.pc \notin Flying /\ SameCall(c, d)
      BY <1>2, <2>1, <3>2 DEF CallsOf, Flying, SameCall, RankCalls, PageCalls
    <3> QED BY <2>0, <3>3
  <2>2. CASE c \in RankCalls
    <3>1. d = [c EXCEPT !.pc = "failed"]
      BY <1>2, <2>2
    <3> HIDE DEF d
    <3>2. /\ d \in RankCalls /\ d.op = "rank" /\ d.pc = "failed"
          /\ d.board = c.board /\ d.user = c.user /\ d.place = c.place /\ d.score = c.score
          /\ d.rows = c.rows /\ d.steady = c.steady
      BY <2>2, <3>1, RankFields
    <3>3. d \in CallsOf /\ d.pc \notin Flying /\ SameCall(c, d)
      BY <1>2, <2>2, <3>2 DEF CallsOf, ReadCalls, Flying, SameCall, UpdateCalls, PageCalls
    <3> QED BY <2>0, <3>3
  <2>3. CASE c \in PageCalls
    <3>1. d = [c EXCEPT !.pc = "failed"]
      BY <1>2, <2>3
    <3> HIDE DEF d
    <3>2. /\ d \in PageCalls /\ d.op = "page" /\ d.pc = "failed"
          /\ d.board = c.board /\ d.user = c.user /\ d.place = c.place /\ d.score = c.score
          /\ d.rows = c.rows /\ d.steady = c.steady
      BY <2>3, <3>1, PageFields
    <3>3. d \in CallsOf /\ d.pc \notin Flying /\ SameCall(c, d)
      BY <1>2, <2>3, <3>2 DEF CallsOf, ReadCalls, Flying, SameCall, UpdateCalls, RankCalls
    <3> QED BY <2>0, <3>3
  <2> QED BY <1>1, <2>1, <2>2, <2>3
<1> QED BY <1>3, <1>4

LEMMA NewUpdate ==
  ASSUME Ranks!ConstantsFit, NEW u \in Users, NEW s \in Scores, NEW l \in ScoreLists
  PROVE  LET c == Ranks!Update(u, s, l) IN
         c \in UpdateCalls /\ c.op = "update" /\ c.pc = "name" /\ c.at = 1 /\ c.list = l /\ 1 \in DOMAIN l
<1>1. l \in Seq(Boards) /\ l # <<>>
  BY DEF Ranks!ConstantsFit
<1>2. 1 \in DOMAIN l
  BY <1>1
<1> QED BY <1>2 DEF Ranks!Update, UpdateCalls

LEMMA NewReading ==
  ASSUME NEW b \in Boards
  PROVE  /\ \A u \in Users : LET c == Ranks!Reading("rank", u, b, 0) IN c \in RankCalls /\ c.op = "rank" /\ c.pc = "place"
         /\ \A page \in 1 .. 2 : LET c == Ranks!Reading("page", 0, b, page) IN c \in PageCalls /\ c.op = "page" /\ c.pc = "card"
<1>1. <<>> \in Seq(Entry)
  OBVIOUS
<1>2. ASSUME NEW u \in Users
      PROVE  LET c == Ranks!Reading("rank", u, b, 0) IN c \in RankCalls /\ c.op = "rank" /\ c.pc = "place"
  BY <1>1 DEF Ranks!Reading, RankCalls
<1>3. ASSUME NEW page \in 1 .. 2
      PROVE  LET c == Ranks!Reading("page", 0, b, page) IN c \in PageCalls /\ c.op = "page" /\ c.pc = "card"
  BY <1>1 DEF Ranks!Reading, PageCalls
<1> QED BY <1>2, <1>3

(* A call is made. *)
LEMMA CalledKeeps ==
  ASSUME Ranks!ConstantsFit, RInv, NEW c \in CallsOf, CallTyped(c), c.pc \in Flying, Ranks!Called(c),
         score' = score, writer' = writer, replies' = replies,
         c.op = "update" => c.at = 1 /\ c.pc = "name" /\ began' = Append(began, Len(calls) + 1),
         c.op # "update" => began' = began, c.op = "rank" => c.pc = "place"
  PROVE  RInv'
<1> DEFINE i == Len(calls) + 1
           all == Append(calls, c)
<1>1. CallsTyped /\ RanksTyped /\ calls \in Seq(CallsOf)
  BY DEF RInv, CallsTyped
<1>2. i \in Nat /\ i # 0 /\ i \notin DOMAIN calls /\ all \in Seq(CallsOf) /\ i \in DOMAIN all
  <2> HIDE DEF CallsOf
  <2> QED BY <1>1
<1>3. Ranks!Issue(i, all, c)
  BY DEF Ranks!Called
<1> HIDE DEF i, all
<1>4. PICK d \in CallsOf : /\ calls' = [all EXCEPT ![i] = d] /\ SameCall(c, d)
                           /\ \/ d.pc \in Flying /\ sent' = Append(sent, i)
                              \/ d.pc \notin Flying /\ sent' = sent
  BY <1>3, IssueIs
<1>5. /\ c \in UpdateCalls => /\ d \in UpdateCalls /\ d.op = "update" /\ d.pc \in {c.pc, "done"}
                              /\ d.list = c.list /\ d.at = c.at
      /\ c \in RankCalls => d \in RankCalls /\ d.op = "rank" /\ d.pc \in {c.pc, "failed"}
      /\ c \in PageCalls => d \in PageCalls /\ d.op = "page"
  BY <1>4 DEF SameCall
<1>6. c \in UpdateCalls \/ c \in RankCalls \/ c \in PageCalls
  BY DEF CallsOf, ReadCalls
<1>7. /\ c \in UpdateCalls => c.op = "update"
      /\ c \in RankCalls => c.op = "rank"
      /\ c \in PageCalls => c.op = "page"
  BY DEF UpdateCalls, RankCalls, PageCalls
<1>8. Turn(i, 0) /\ calls' \in Seq(CallsOf) /\ calls'[i] = d
  <2>1. calls' = [Append(calls, c) EXCEPT ![i] = d] /\ i = Len(calls) + 1
    BY <1>4 DEF all, i
  <2>2. \/ i \in DOMAIN calls /\ calls' = [calls EXCEPT ![i] = d]
        \/ i = Len(calls) + 1 /\ calls' = [Append(calls, c) EXCEPT ![i] = d]
        \/ i = Len(calls) + 1 /\ calls' = Append(calls, d)
    BY <2>1
  <2>3. \/ 0 = 0 /\ replies' = replies /\ (i \notin DOMAIN calls \/ calls[i].pc \notin Flying)
        \/ 0 = 1 /\ replies # <<>> /\ Head(replies).call = i /\ replies' = Tail(replies)
    BY <1>2
  <2>4. d \in CallsOf /\ ((d.pc \in Flying /\ sent' = Append(sent, i)) \/ (d.pc \notin Flying /\ sent' = sent))
    BY <1>4
  <2>5. 0 \in 0 .. 1
    OBVIOUS
  <2> QED BY <1>1, <1>2, <2>2, <2>3, <2>4, <2>5, TurnFrom, Zenon
<1>9. Starts(d)
  <2>1. CASE c \in UpdateCalls
    BY <1>5, <1>7, <2>1 DEF Starts, CallTyped
  <2>2. CASE c \in RankCalls
    BY <1>5, <1>7, <2>2 DEF Starts, CallTyped
  <2>3. CASE c \in PageCalls
    BY <1>5, <1>7, <2>3 DEF Starts, CallTyped
  <2> QED BY <1>6, <2>1, <2>2, <2>3
<1>10. \/ began' = began /\ (d.op # "update" \/ d.pc = "lookup")
       \/ began' = Append(began, i) /\ d.op = "update" /\ d.pc # "lookup"
  <2>1. CASE c \in UpdateCalls
    BY <1>5, <1>7, <2>1 DEF i
  <2>2. CASE c \in RankCalls \/ c \in PageCalls
    BY <1>5, <1>7, <2>2
  <2> QED BY <1>6, <2>1, <2>2
<1> QED BY <1>2, <1>8, <1>9, <1>10, CallStartKeeps

LEMMA MakingCallsKeeps ==
  ASSUME Ranks!ConstantsFit, RInv
  PROVE  /\ \A u \in Users, s \in Scores, l \in ScoreLists : Ranks!UpdateScore(u, s, l) => RInv'
         /\ \A u \in Users, b \in Boards : Ranks!GetUserRank(u, b) => RInv'
         /\ \A b \in Boards, page \in 1 .. 2 : Ranks!GetLeaderboard(b, page) => RInv'
<1>1. ASSUME NEW u \in Users, NEW s \in Scores, NEW l \in ScoreLists, Ranks!UpdateScore(u, s, l) PROVE RInv'
  <2>1. PICK c : c = Ranks!Update(u, s, l)
    OBVIOUS
  <2>2. c \in UpdateCalls /\ c.op = "update" /\ c.pc = "name" /\ c.at = 1 /\ c.list = l /\ 1 \in DOMAIN l
    BY <2>1, NewUpdate
  <2>3. /\ Ranks!Called(c) /\ score' = score /\ writer' = writer /\ replies' = replies
        /\ began' = Append(began, Len(calls) + 1)
    BY <1>1, <2>1 DEF Ranks!UpdateScore, Ranks!data
  <2>4. c \in CallsOf /\ CallTyped(c) /\ c.pc \in Flying
    BY <2>2 DEF CallsOf, CallTyped, Flying
  <2> QED BY <2>2, <2>3, <2>4, CalledKeeps
<1>2. ASSUME NEW u \in Users, NEW b \in Boards, Ranks!GetUserRank(u, b) PROVE RInv'
  <2>1. PICK c : c = Ranks!Reading("rank", u, b, 0)
    OBVIOUS
  <2>2. c \in RankCalls /\ c.op = "rank" /\ c.pc = "place"
    BY <2>1, NewReading
  <2>3. Ranks!Called(c) /\ score' = score /\ writer' = writer /\ replies' = replies /\ began' = began
    BY <1>2, <2>1 DEF Ranks!GetUserRank, Ranks!data
  <2>4. c \in CallsOf /\ CallTyped(c) /\ c.pc \in Flying
    BY <2>2 DEF CallsOf, ReadCalls, CallTyped, Flying
  <2> QED BY <2>2, <2>3, <2>4, CalledKeeps
<1>3. ASSUME NEW b \in Boards, NEW page \in 1 .. 2, Ranks!GetLeaderboard(b, page) PROVE RInv'
  <2>1. PICK c : c = Ranks!Reading("page", 0, b, page)
    OBVIOUS
  <2>2. c \in PageCalls /\ c.op = "page" /\ c.pc = "card"
    BY <2>1, NewReading
  <2>3. Ranks!Called(c) /\ score' = score /\ writer' = writer /\ replies' = replies /\ began' = began
    BY <1>3, <2>1 DEF Ranks!GetLeaderboard, Ranks!data
  <2>4. c \in CallsOf /\ CallTyped(c) /\ c.pc \in Flying
    BY <2>2 DEF CallsOf, ReadCalls, CallTyped, Flying
  <2> QED BY <2>2, <2>3, <2>4, CalledKeeps
<1> QED BY <1>1, <1>2, <1>3

\* the step of a call from its record to d
BecomesAt(i, d) ==
  /\ calls' = [calls EXCEPT ![i] = d]
  /\ \/ d.pc \in Flying /\ sent' = Append(sent, i)
     \/ d.pc \notin Flying /\ sent' = sent

LEMMA AddScoreIs ==
  ASSUME Ranks!ConstantsFit, NEW i, NEW c \in UpdateCalls, CallTyped(c), c.pc \in {"name", "score"},
         NEW ok \in BOOLEAN, Ranks!AddScore(i, c, ok)
  PROVE  \E d \in CallsOf : BecomesAt(i, d) /\ UpdateGoesOn(c, d, ok)
<1>1. c.op = "update" /\ c.at \in DOMAIN c.list /\ c.at \in Nat /\ Len(c.list) \in Nat /\ DOMAIN c.list = 1 .. Len(c.list)
  <2>1. c.op = "update" /\ c.at \in Nat /\ c.list \in Seq(Boards)
    BY DEF UpdateCalls, Ranks!ConstantsFit
  <2> QED BY <2>1 DEF CallTyped
<1>2. CASE c.pc = "name" /\ ok
  <2>1. PICK n : n = [c EXCEPT !.pc = "score"]
    OBVIOUS
  <2>2. n \in UpdateCalls /\ n.op = "update" /\ n.pc = "score" /\ n.list = c.list /\ n.at = c.at /\ n.whole = c.whole
    BY <2>1, UpdateFields
  <2>3. Ranks!Issue(i, calls, n)
    BY <1>2, <2>1 DEF Ranks!AddScore
  <2>4. n \in CallsOf /\ n.pc \in Flying
    BY <2>2 DEF CallsOf, Flying
  <2>5. PICK d \in CallsOf : BecomesAt(i, d) /\ SameCall(n, d)
    BY <2>3, <2>4, IssueIs DEF BecomesAt
  <2>6. /\ d \in UpdateCalls /\ d.op = "update" /\ d.pc \in {"score", "done"}
        /\ d.list = c.list /\ d.at = c.at /\ d.whole = c.whole
    BY <2>2, <2>5 DEF SameCall
  <2>7. CallTyped(d)
    BY <1>1, <2>5, <2>6 DEF CallTyped
  <2>8. UpdateGoesOn(c, d, ok)
    BY <1>2, <2>6, <2>7 DEF UpdateGoesOn
  <2> QED BY <2>5, <2>8
<1>3. CASE ~(c.pc = "name" /\ ok)
  <2>1. PICK w : w = [c EXCEPT !.whole = @ /\ ok]
    OBVIOUS
  <2>2. /\ w \in UpdateCalls /\ w.op = "update" /\ w.pc = c.pc /\ w.list = c.list /\ w.at = c.at
        /\ w.whole => c.whole /\ ok
    BY <2>1 DEF UpdateCalls
  <2>3. Ranks!NextBoard(i, w)
    BY <1>3, <2>1 DEF Ranks!AddScore
  <2>4. CASE w.at < Len(w.list)
    <3>1. PICK n : n = [w EXCEPT !.at = @ + 1, !.pc = "name"]
      OBVIOUS
    <3>2. /\ n \in UpdateCalls /\ n.op = "update" /\ n.pc = "name" /\ n.list = w.list /\ n.at = w.at + 1
          /\ n.whole = w.whole
      <4>1. w.at \in Nat /\ w.at + 1 \in Nat
        BY <2>2 DEF UpdateCalls
      <4>2. n = [w EXCEPT !.at = w.at + 1, !.pc = "name"]
        BY <3>1
      <4> QED BY <2>2, <4>1, <4>2 DEF UpdateCalls
    <3>3. Ranks!Issue(i, calls, n)
      BY <2>3, <2>4, <3>1 DEF Ranks!NextBoard
    <3>4. n \in CallsOf /\ n.pc \in Flying
      BY <3>2 DEF CallsOf, Flying
    <3>5. PICK d \in CallsOf : BecomesAt(i, d) /\ SameCall(n, d)
      BY <3>3, <3>4, IssueIs DEF BecomesAt
    <3>6. /\ d \in UpdateCalls /\ d.op = "update" /\ d.pc \in {"name", "done"}
          /\ d.list = c.list /\ d.at = c.at + 1 /\ d.whole = w.whole
      BY <2>2, <3>2, <3>5 DEF SameCall
    <3>7. c.at < Len(c.list) /\ d.at \in DOMAIN d.list
      BY <1>1, <2>2, <2>4, <3>6
    <3>8. CallTyped(d)
      BY <3>5, <3>6, <3>7 DEF CallTyped
    <3>9. (d.whole => c.pc = "score") /\ (d.whole => c.whole)
      BY <1>3, <2>2, <3>6
    <3> QED BY <3>5, <3>6, <3>7, <3>8, <3>9 DEF UpdateGoesOn
  <2>5. CASE ~(w.at < Len(w.list))
    <3>1. PICK d : d = [w EXCEPT !.pc = "done"]
      OBVIOUS
    <3>2. /\ d \in UpdateCalls /\ d.op = "update" /\ d.pc = "done" /\ d.list = w.list /\ d.at = w.at
          /\ d.whole = w.whole
      BY <2>2, <3>1, UpdateFields
    <3>3. calls' = [calls EXCEPT ![i] = d] /\ sent' = sent
      BY <2>3, <2>5, <3>1 DEF Ranks!NextBoard, Ranks!Return
    <3>4. d \in CallsOf /\ BecomesAt(i, d)
      BY <3>2, <3>3 DEF CallsOf, Flying, BecomesAt
    <3>5. CallTyped(d)
      BY <1>1, <2>2, <3>2, <3>4 DEF CallTyped
    <3>6. (d.whole => c.pc = "score") /\ (d.whole => c.whole)
      BY <1>3, <2>2, <3>2
    <3> QED BY <2>2, <3>2, <3>4, <3>5, <3>6 DEF UpdateGoesOn
  <2> QED BY <2>4, <2>5
<1> QED BY <1>2, <1>3

(* A reading that returns, and one that goes on. *)
LEMMA ReturnIs ==
  ASSUME NEW i, NEW c \in CallsOf, CallTyped(c), NEW ok, NEW pc, Ranks!Return(i, c, pc),
         \/ c \in RankCalls /\ pc \in {"missing", "failed"}
         \/ c \in RankCalls /\ pc = "done" /\ c.pc \in {"around", "names"} /\ ok
         \/ c \in PageCalls /\ pc \in {"done", "failed"}
  PROVE  \E d \in CallsOf : BecomesAt(i, d) /\ ReadingGoesOn(c, d, ok)
<1>1. PICK d : d = [c EXCEPT !.pc = pc]
  OBVIOUS
<1>2. calls' = [calls EXCEPT ![i] = d] /\ sent' = sent
  BY <1>1 DEF Ranks!Return
<1>3. CASE c \in RankCalls
  <2>1. /\ d \in RankCalls /\ d.op = "rank" /\ d.pc = pc /\ d.user = c.user /\ d.score = c.score
        /\ d.board = c.board /\ d.place = c.place /\ d.rows = c.rows /\ d.steady = c.steady
        /\ pc \in {"missing", "failed", "done"} /\ c.op = "rank"
    <3>1. c.op = "rank" /\ pc \in {"missing", "failed", "done"}
      BY <1>3 DEF RankCalls, PageCalls
    <3>2. pc \in {"place", "around", "names", "done", "failed", "missing"}
      BY <3>1
    <3>3. LET e == [c EXCEPT !.pc = pc] IN
          /\ e \in RankCalls /\ e.op = "rank" /\ e.pc = pc /\ e.user = c.user /\ e.score = c.score
          /\ e.board = c.board /\ e.place = c.place /\ e.rows = c.rows /\ e.steady = c.steady
      BY <1>3, <3>2, RankFields
    <3> QED BY <1>1, <3>1, <3>3
  <2>2. d \in CallsOf /\ BecomesAt(i, d) /\ CallTyped(d)
    BY <1>2, <2>1 DEF CallsOf, ReadCalls, Flying, BecomesAt, CallTyped
  <2>3. c \notin PageCalls
    BY <2>1 DEF PageCalls
  <2> QED BY <2>1, <2>2, <2>3 DEF ReadingGoesOn
<1>4. CASE c \in PageCalls
  <2>1. /\ d \in PageCalls /\ d.op = "page" /\ d.pc = pc /\ d.user = c.user /\ d.score = c.score
        /\ d.board = c.board /\ d.place = c.place /\ d.rows = c.rows /\ d.steady = c.steady
        /\ pc \in {"failed", "done"} /\ c.op = "page"
    <3>1. c.op = "page" /\ pc \in {"failed", "done"}
      BY <1>4 DEF RankCalls, PageCalls
    <3>2. pc \in {"card", "range", "names", "done", "failed"}
      BY <3>1
    <3>3. LET e == [c EXCEPT !.pc = pc] IN
          /\ e \in PageCalls /\ e.op = "page" /\ e.pc = pc /\ e.user = c.user /\ e.score = c.score
          /\ e.board = c.board /\ e.place = c.place /\ e.rows = c.rows /\ e.steady = c.steady
      BY <1>4, <3>2, PageFields
    <3> QED BY <1>1, <3>1, <3>3
  <2>2. d \in CallsOf /\ BecomesAt(i, d) /\ CallTyped(d)
    BY <1>2, <2>1 DEF CallsOf, ReadCalls, Flying, BecomesAt, CallTyped
  <2> QED BY <2>1, <2>2 DEF ReadingGoesOn
<1> QED BY <1>3, <1>4

LEMMA ReadOnIs ==
  ASSUME NEW i, NEW c \in CallsOf, CallTyped(c), NEW ok, NEW pc, Ranks!Issue(i, calls, [c EXCEPT !.pc = pc]), ok,
         \/ c \in RankCalls /\ pc = "around" /\ c.pc = "place" /\ c.place # 0
         \/ c \in RankCalls /\ pc = "names" /\ c.pc = "around"
         \/ c \in PageCalls /\ pc \in {"range", "names"}
  PROVE  \E d \in CallsOf : BecomesAt(i, d) /\ ReadingGoesOn(c, d, ok)
<1>1. PICK n : n = [c EXCEPT !.pc = pc]
  OBVIOUS
<1>2. CASE c \in RankCalls
  <2>1. c.op = "rank" /\ c \notin PageCalls /\ pc \in {"around", "names"}
    BY <1>2 DEF RankCalls, PageCalls
  <2>2. /\ n \in RankCalls /\ n.op = "rank" /\ n.pc = pc /\ n.user = c.user /\ n.score = c.score
        /\ n.board = c.board /\ n.place = c.place /\ n.rows = c.rows /\ n.steady = c.steady
    <3>1. pc \in {"place", "around", "names", "done", "failed", "missing"}
      BY <2>1
    <3>2. LET e == [c EXCEPT !.pc = pc] IN
          /\ e \in RankCalls /\ e.op = "rank" /\ e.pc = pc /\ e.user = c.user /\ e.score = c.score
          /\ e.board = c.board /\ e.place = c.place /\ e.rows = c.rows /\ e.steady = c.steady
      BY <1>2, <3>1, RankFields
    <3> QED BY <1>1, <3>2
  <2>3. n \in CallsOf /\ n.pc \in Flying
    BY <2>1, <2>2 DEF CallsOf, ReadCalls, Flying
  <2>4. PICK d \in CallsOf : BecomesAt(i, d) /\ SameCall(n, d)
    BY <1>1, <2>3, IssueIs DEF BecomesAt
  <2>5. /\ d \in RankCalls /\ d.op = "rank" /\ d.pc \in {pc, "failed"}
        /\ d.board = c.board /\ d.user = c.user /\ d.place = c.place /\ d.score = c.score
        /\ d.rows = c.rows /\ d.steady = c.steady
    BY <2>2, <2>4 DEF SameCall
  <2> QED BY <2>1, <2>4, <2>5 DEF ReadingGoesOn, CallTyped
<1>3. CASE c \in PageCalls
  <2>1. c.op = "page" /\ c \notin RankCalls /\ pc \in {"range", "names"}
    BY <1>3 DEF RankCalls, PageCalls
  <2>2. /\ n \in PageCalls /\ n.op = "page" /\ n.pc = pc /\ n.user = c.user /\ n.score = c.score
        /\ n.board = c.board /\ n.place = c.place /\ n.rows = c.rows /\ n.steady = c.steady
    <3>1. pc \in {"card", "range", "names", "done", "failed"}
      BY <2>1
    <3>2. LET e == [c EXCEPT !.pc = pc] IN
          /\ e \in PageCalls /\ e.op = "page" /\ e.pc = pc /\ e.user = c.user /\ e.score = c.score
          /\ e.board = c.board /\ e.place = c.place /\ e.rows = c.rows /\ e.steady = c.steady
      BY <1>3, <3>1, PageFields
    <3> QED BY <1>1, <3>2
  <2>3. n \in CallsOf /\ n.pc \in Flying
    BY <2>1, <2>2 DEF CallsOf, ReadCalls, Flying
  <2>4. PICK d \in CallsOf : BecomesAt(i, d) /\ SameCall(n, d)
    BY <1>1, <2>3, IssueIs DEF BecomesAt
  <2>5. /\ d \in PageCalls /\ d.op = "page"
        /\ d.board = c.board /\ d.user = c.user /\ d.place = c.place /\ d.score = c.score
        /\ d.rows = c.rows /\ d.steady = c.steady
    BY <2>2, <2>4 DEF SameCall
  <2> QED BY <2>1, <2>4, <2>5 DEF ReadingGoesOn, CallTyped
<1> QED BY <1>2, <1>3

(* The client delivers an answer, and its call goes on. *)
LEMMA ReceiveKeeps ==
  ASSUME Ranks!ConstantsFit, RInv, Ranks!Receive
  PROVE  RInv'
<1>1. PICK i, c, ok : i = Head(replies).call /\ c = calls[i] /\ ok = Head(replies).ok
  OBVIOUS
<1>2. /\ CallsTyped /\ RanksTyped /\ QueueOK /\ calls \in Seq(CallsOf)
  BY DEF RInv, CallsTyped
<1>3. /\ replies # <<>> /\ replies' = Tail(replies)
      /\ score' = score /\ writer' = writer /\ began' = began
  BY DEF Ranks!Receive, Ranks!data
<1>4. /\ c.op = "update" => Ranks!AddScore(i, c, ok)
      /\ c.op = "rank" /\ ok => Ranks!RankRead(i, c)
      /\ c.op = "page" /\ ok => Ranks!PageRead(i, c)
      /\ c.op # "update" /\ ~ok => Ranks!Return(i, c, "failed")
  BY <1>1 DEF Ranks!Receive
<1>5. i \in DOMAIN calls /\ i \in Nat /\ c.pc \in Flying /\ CallTyped(c) /\ c \in CallsOf /\ ok \in BOOLEAN
  <2> DEFINE R == [call : Nat, ok : BOOLEAN]
  <2>1. replies \in Seq(R)
    BY <1>2 DEF RanksTyped
  <2>2. Head(replies) \in R
    <3> HIDE DEF R
    <3> QED BY <1>3, <2>1
  <2>3. 1 \in DOMAIN Queue /\ Queue[1] = i
    <3>1. Len(replies) \in Nat /\ Len(replies) >= 1 /\ Head(replies) = replies[1]
      BY <1>3, <2>1
    <3>2. /\ DOMAIN Queue = 1 .. Len(replies) + Len(sent) /\ Len(sent) \in Nat
          /\ \A k \in 1 .. Len(replies) : Queue[k] = replies[k].call
      BY <1>2, QueueTyped DEF Total
    <3> QED BY <1>1, <3>1, <3>2
  <2>4. i \in DOMAIN calls /\ c.pc \in Flying
    BY <1>1, <1>2, <2>3 DEF QueueOK
  <2>5. CallTyped(c) /\ c \in CallsOf /\ i \in Nat
    BY <1>1, <1>2, <2>4 DEF CallsTyped, CallTyped
  <2> QED BY <1>1, <2>2, <2>4, <2>5
<1>6. c \in UpdateCalls \/ c \in RankCalls \/ c \in PageCalls
  BY <1>5 DEF CallsOf, ReadCalls
<1>7. ASSUME NEW d \in CallsOf, BecomesAt(i, d) PROVE Turn(i, 1) /\ calls' \in Seq(CallsOf) /\ calls'[i] = d
  <2>1. \/ i \in DOMAIN calls /\ calls' = [calls EXCEPT ![i] = d]
        \/ i = Len(calls) + 1 /\ calls' = [Append(calls, d) EXCEPT ![i] = d]
        \/ i = Len(calls) + 1 /\ calls' = Append(calls, d)
    BY <1>5, <1>7 DEF BecomesAt
  <2>2. \/ 1 = 0 /\ replies' = replies /\ (i \notin DOMAIN calls \/ calls[i].pc \notin Flying)
        \/ 1 = 1 /\ replies # <<>> /\ Head(replies).call = i /\ replies' = Tail(replies)
    BY <1>1, <1>3
  <2>3. (d.pc \in Flying /\ sent' = Append(sent, i)) \/ (d.pc \notin Flying /\ sent' = sent)
    BY <1>7 DEF BecomesAt
  <2>4. 1 \in 0 .. 1
    OBVIOUS
  <2> QED BY <1>2, <1>3, <1>5, <1>7, <2>1, <2>2, <2>3, <2>4, TurnFrom, Zenon
<1>8. CASE c \in UpdateCalls
  <2>1. c.op = "update" /\ c.pc \in {"name", "score"}
    BY <1>5, <1>8 DEF UpdateCalls, Flying
  <2>2. PICK d \in CallsOf : BecomesAt(i, d) /\ UpdateGoesOn(c, d, ok)
    BY <1>4, <1>5, <1>8, <2>1, AddScoreIs
  <2>3. Turn(i, 1) /\ calls' \in Seq(CallsOf) /\ calls'[i] = d
    BY <1>7, <2>2
  <2> QED BY <1>1, <1>3, <1>5, <2>1, <2>2, <2>3, UpdateGoesOnKeeps
<1>9. CASE c \in RankCalls \/ c \in PageCalls
  <2>1. c.op # "update"
    BY <1>9 DEF RankCalls, PageCalls
  <2>2. \E d \in CallsOf : BecomesAt(i, d) /\ ReadingGoesOn(c, d, ok)
    <3>1. CASE ~ok
      <4>1. Ranks!Return(i, c, "failed")
        BY <1>4, <2>1, <3>1
      <4> QED BY <1>5, <1>9, <4>1, ReturnIs
    <3>2. CASE ok /\ c \in RankCalls
      <4>1. c.op = "rank" /\ c.pc \in {"place", "around", "names"}
        BY <1>5, <3>2 DEF RankCalls, Flying
      <4>2. Ranks!RankRead(i, c)
        BY <1>4, <3>2, <4>1
      <4>3. CASE c.pc = "place"
        <5>1. CASE c.place = 0
          <6>1. Ranks!Return(i, c, "missing")
            BY <4>2, <4>3, <5>1 DEF Ranks!RankRead
          <6> QED BY <1>5, <3>2, <6>1, ReturnIs
        <5>2. CASE c.place # 0
          <6>1. Ranks!Issue(i, calls, [c EXCEPT !.pc = "around"])
            BY <4>2, <4>3, <5>2 DEF Ranks!RankRead
          <6> QED BY <1>5, <3>2, <4>3, <5>2, <6>1, ReadOnIs
        <5> QED BY <5>1, <5>2
      <4>4. CASE c.pc = "around"
        <5>1. CASE c.rows = <<>>
          <6>1. Ranks!Return(i, c, "done")
            BY <4>2, <4>4, <5>1 DEF Ranks!RankRead
          <6> QED BY <1>5, <3>2, <4>4, <6>1, ReturnIs
        <5>2. CASE c.rows # <<>>
          <6>1. Ranks!Issue(i, calls, [c EXCEPT !.pc = "names"])
            BY <4>2, <4>4, <5>2 DEF Ranks!RankRead
          <6> QED BY <1>5, <3>2, <4>4, <6>1, ReadOnIs
        <5> QED BY <5>1, <5>2
      <4>5. CASE c.pc = "names"
        <5>1. Ranks!Return(i, c, "done")
          BY <4>2, <4>5 DEF Ranks!RankRead
        <5> QED BY <1>5, <3>2, <4>5, <5>1, ReturnIs
      <4> QED BY <4>1, <4>3, <4>4, <4>5
    <3>3. CASE ok /\ c \in PageCalls
      <4>1. c.op = "page" /\ c.pc \in {"card", "range", "names"}
        BY <1>5, <3>3 DEF PageCalls, Flying
      <4>2. Ranks!PageRead(i, c)
        BY <1>4, <3>3, <4>1
      <4>3. \/ Ranks!Return(i, c, "done")
            \/ Ranks!Issue(i, calls, [c EXCEPT !.pc = "range"])
            \/ Ranks!Issue(i, calls, [c EXCEPT !.pc = "names"])
        BY <4>1, <4>2 DEF Ranks!PageRead
      <4>4. CASE Ranks!Return(i, c, "done")
        BY <1>5, <3>3, <4>4, ReturnIs
      <4>5. CASE Ranks!Issue(i, calls, [c EXCEPT !.pc = "range"])
        BY <1>5, <3>3, <4>5, ReadOnIs
      <4>6. CASE Ranks!Issue(i, calls, [c EXCEPT !.pc = "names"])
        BY <1>5, <3>3, <4>6, ReadOnIs
      <4> QED BY <4>3, <4>4, <4>5, <4>6
    <3> QED BY <1>9, <3>1, <3>2, <3>3
  <2>3. PICK d \in CallsOf : BecomesAt(i, d) /\ ReadingGoesOn(c, d, ok)
    BY <2>2
  <2>4. Turn(i, 1) /\ calls' \in Seq(CallsOf) /\ calls'[i] = d
    BY <1>7, <2>3
  <2> QED BY <1>1, <1>3, <1>5, <2>1, <2>3, <2>4, ReadingGoesOnKeeps
<1> QED BY <1>6, <1>8, <1>9

(* An update whose name has to be read first, and the answer of that. *)
LEMMA UnnamedKeeps ==
  ASSUME Ranks!ConstantsFit, RInv, NEW u \in Users, NEW s \in Scores, NEW l \in ScoreLists,
         Ranks!UpdateScoreUnnamed(u, s, l)
  PROVE  RInv'
<1>1. PICK c : c = Ranks!Update(u, s, l)
  OBVIOUS
<1>2. c \in UpdateCalls /\ c.op = "update" /\ c.pc = "name" /\ c.at = 1 /\ c.list = l /\ 1 \in DOMAIN l
  BY <1>1, NewUpdate
<1>3. PICK d : d = [c EXCEPT !.pc = "lookup"]
  OBVIOUS
<1>4. d \in UpdateCalls /\ d.op = "update" /\ d.pc = "lookup" /\ d.list = c.list /\ d.at = c.at
  BY <1>2, <1>3, UpdateFields
<1>5. /\ calls' = Append(calls, d) /\ sent' = sent /\ replies' = replies /\ score' = score /\ writer' = writer
      /\ began' = began
  BY <1>1, <1>3 DEF Ranks!UpdateScoreUnnamed, Ranks!data
<1>6. CallsTyped /\ RanksTyped /\ calls \in Seq(CallsOf)
  BY DEF RInv, CallsTyped
<1>7. PICK i : i = Len(calls) + 1
  OBVIOUS
<1>8. i \in Nat /\ i # 0 /\ i \notin DOMAIN calls
  <2> HIDE DEF CallsOf
  <2> QED BY <1>6, <1>7
<1>9. d \in CallsOf /\ d.pc \notin Flying /\ Starts(d)
  BY <1>2, <1>4 DEF CallsOf, Flying, Starts, CallTyped
<1>10. Turn(i, 0) /\ calls' \in Seq(CallsOf) /\ calls'[i] = d
  <2>1. \/ i \in DOMAIN calls /\ calls' = [calls EXCEPT ![i] = d]
        \/ i = Len(calls) + 1 /\ calls' = [Append(calls, d) EXCEPT ![i] = d]
        \/ i = Len(calls) + 1 /\ calls' = Append(calls, d)
    BY <1>5, <1>7
  <2>2. \/ 0 = 0 /\ replies' = replies /\ (i \notin DOMAIN calls \/ calls[i].pc \notin Flying)
        \/ 0 = 1 /\ replies # <<>> /\ Head(replies).call = i /\ replies' = Tail(replies)
    BY <1>5, <1>8
  <2>3. (d.pc \in Flying /\ sent' = Append(sent, i)) \/ (d.pc \notin Flying /\ sent' = sent)
    BY <1>5, <1>9
  <2>4. 0 \in 0 .. 1
    OBVIOUS
  <2> QED BY <1>5, <1>6, <1>8, <1>9, <2>1, <2>2, <2>3, <2>4, TurnFrom, Zenon
<1> QED BY <1>4, <1>5, <1>8, <1>9, <1>10, CallStartKeeps

LEMMA FoundKeeps ==
  ASSUME Ranks!ConstantsFit, RInv, NEW i \in DOMAIN calls, Ranks!UserFound(i)
  PROVE  RInv'
<1>1. PICK c : c = calls[i]
  OBVIOUS
<1>2. CallsTyped /\ RanksTyped /\ BeganOK /\ i \in Nat /\ i # 0
  BY DEF RInv, CallsTyped
<1>3. c.pc = "lookup" /\ CallTyped(c) /\ c \in CallsOf
  BY <1>1, <1>2 DEF Ranks!UserFound, CallsTyped, CallTyped
<1>4. c \in UpdateCalls
  BY <1>3 DEF CallsOf, ReadCalls, RankCalls, PageCalls
<1>5. c.op = "update" /\ c.at = 1 /\ 1 \in DOMAIN c.list
  BY <1>3, <1>4 DEF UpdateCalls, CallTyped
<1>6. PICK n : n = [c EXCEPT !.pc = "name"]
  OBVIOUS
<1>7. n \in UpdateCalls /\ n.op = "update" /\ n.pc = "name" /\ n.list = c.list /\ n.at = c.at
  BY <1>4, <1>6, UpdateFields
<1>8. /\ Ranks!Issue(i, calls, n)
      /\ began' = IF i \in Ranks!ToSet(began) THEN began ELSE Append(began, i)
      /\ score' = score /\ writer' = writer /\ replies' = replies
  BY <1>1, <1>6 DEF Ranks!UserFound, Ranks!data
<1>9. n \in CallsOf /\ n.pc \in Flying
  BY <1>7 DEF CallsOf, Flying
<1>10. PICK d \in CallsOf : BecomesAt(i, d) /\ SameCall(n, d)
  BY <1>8, <1>9, IssueIs DEF BecomesAt
<1>11. d \in UpdateCalls /\ d.op = "update" /\ d.pc \in {"name", "done"} /\ d.list = c.list /\ d.at = 1
  BY <1>5, <1>7, <1>10 DEF SameCall
<1>12. Starts(d)
  BY <1>5, <1>10, <1>11 DEF Starts, CallTyped
<1>13. Turn(i, 0) /\ calls' \in Seq(CallsOf) /\ calls'[i] = d
  <2>1. \/ i \in DOMAIN calls /\ calls' = [calls EXCEPT ![i] = d]
        \/ i = Len(calls) + 1 /\ calls' = [Append(calls, d) EXCEPT ![i] = d]
        \/ i = Len(calls) + 1 /\ calls' = Append(calls, d)
    BY <1>10 DEF BecomesAt
  <2>2. \/ 0 = 0 /\ replies' = replies /\ (i \notin DOMAIN calls \/ calls[i].pc \notin Flying)
        \/ 0 = 1 /\ replies # <<>> /\ Head(replies).call = i /\ replies' = Tail(replies)
    BY <1>1, <1>3, <1>8 DEF Flying
  <2>3. (d.pc \in Flying /\ sent' = Append(sent, i)) \/ (d.pc \notin Flying /\ sent' = sent)
    BY <1>10 DEF BecomesAt
  <2>4. 0 \in 0 .. 1
    OBVIOUS
  <2> QED BY <1>2, <1>8, <1>10, <2>1, <2>2, <2>3, <2>4, TurnFrom, Zenon
<1>14. i \notin Ranks!ToSet(began)
  BY <1>1, <1>2, <1>3 DEF BeganOK, Ranks!ToSet
<1> QED BY <1>1, <1>2, <1>3, <1>5, <1>8, <1>11, <1>12, <1>13, <1>14, CallStartKeeps

(* The client's own steps touch no call. *)
LEMMA RestKeeps ==
  ASSUME RInv, UNCHANGED <<score, writer, calls, sent, replies, began>>
  PROVE  RInv'
<1>1. /\ score' = score /\ writer' = writer /\ calls' = calls /\ sent' = sent /\ replies' = replies /\ began' = began
  OBVIOUS
<1>2. /\ CallsTyped /\ RanksTyped /\ QueueOK /\ BeganOK /\ WrittenOK /\ InStep /\ ReadingsOK
  BY DEF RInv
<1>3. Queue' = Queue
  BY <1>1 DEF Queue
<1>4. QueueOK' /\ \A x, y : Before(x, y)' <=> Before(x, y)
  BY <1>1, <1>2, <1>3, QueueStays
<1>5. \A x : (Executed(x)' <=> Executed(x)) /\ (Answered(x)' <=> Answered(x))
  BY <1>1 DEF Executed, Answered
<1>6. BeganOK' /\ WrittenOK' /\ InStep'
  <2>1. \A j \in DOMAIN calls : HasNotWritten(j) => HasNotWritten(j)'
    BY <1>1, Zenon DEF HasNotWritten
  <2> QED BY <1>1, <1>2, <1>4, <1>5, <2>1, UpdatesStay
<1>7. ReadingsOK'
  <2>1. ASSUME NEW j \in DOMAIN calls', calls'[j].op = "rank" PROVE ReadingOK(calls[j], Answered(j))'
    <3>1. ReadingOK(calls[j], Answered(j))
      BY <1>1, <1>2, <2>1 DEF ReadingsOK
    <3> QED BY <1>1, <1>5, <3>1, ReadingStays
  <2> QED BY <2>1, Zenon DEF ReadingsOK
<1>8. CallsTyped' /\ RanksTyped'
  BY <1>1, <1>2 DEF CallsTyped, RanksTyped, CallTyped
<1> QED BY <1>4, <1>6, <1>7, <1>8 DEF RInv

(* Every call has at most one command in the pipeline, updates of the same boards stay in
   step in it, and a reading holds what its board held as long as the board is steady. *)
THEOREM RanksInvariant == Ranks!Spec => []RInv
<1>. Ranks!ConstantsFit
  BY ReadingsTyped
<1>1. Ranks!Init => RInv
  <2> SUFFICES ASSUME Ranks!Init PROVE RInv
    OBVIOUS
  <2>1. calls = <<>> /\ sent = <<>> /\ replies = <<>> /\ began = <<>>
        /\ writer = [b \in Boards |-> [u \in Users |-> 0]]
    BY DEF Ranks!Init
  <2>2. score \in [Boards -> [Users -> Nat]]
    <3>1. PICK s \in Standings : score = [b \in Boards |-> s]
      BY DEF Ranks!Init
    <3>2. s \in [Users -> Scores \cup {0}] /\ Scores \subseteq Nat
      BY DEF Ranks!ConstantsFit
    <3>3. s \in [Users -> Nat]
      <4>1. Scores \cup {0} \subseteq Nat
        BY <3>2
      <4> QED BY <3>2, <4>1
    <3> QED BY <3>1, <3>3
  <2>3. RanksTyped /\ CallsTyped
    BY <2>1, <2>2 DEF RanksTyped, CallsTyped
  <2>4. DOMAIN Queue = {} /\ DOMAIN began = {} /\ DOMAIN calls = {}
    BY <2>1 DEF Queue
  <2>5. QueueOK /\ BeganOK /\ InStep /\ ReadingsOK
    BY <2>4 DEF QueueOK, BeganOK, InStep, ReadingsOK
  <2>6. WrittenOK
    BY <2>1 DEF WrittenOK
  <2> QED BY <2>3, <2>5, <2>6 DEF RInv
<1>2. RInv /\ [Ranks!Next]_Ranks!vars => RInv'
  <2> SUFFICES ASSUME RInv, [Ranks!Next]_Ranks!vars PROVE RInv'
    OBVIOUS
  <2>1. CASE Ranks!Initialize \/ Ranks!Connected \/ Ranks!Close \/ Ranks!Ended \/ UNCHANGED Ranks!vars
    <3>1. UNCHANGED <<score, writer, calls, sent, replies, began>>
      BY <2>1 DEF Ranks!Initialize, Ranks!Connected, Ranks!Close, Ranks!Ended, Ranks!vars, Ranks!data
    <3> QED BY <3>1, RestKeeps
  <2>2. CASE Ranks!LoseConnection
    BY <2>2, LoseConnectionKeeps
  <2>3. ASSUME NEW u \in Users, NEW s \in Scores, NEW l \in ScoreLists,
               Ranks!UpdateScore(u, s, l) \/ Ranks!UpdateScoreUnnamed(u, s, l)
        PROVE  RInv'
    BY <2>3, MakingCallsKeeps, UnnamedKeeps
  <2>4. ASSUME NEW i \in DOMAIN calls, Ranks!UserFound(i) PROVE RInv'
    BY <2>4, FoundKeeps
  <2>5. ASSUME NEW u \in Users, NEW b \in Boards, Ranks!GetUserRank(u, b) PROVE RInv'
    BY <2>5, MakingCallsKeeps
  <2>6. ASSUME NEW b \in Boards, NEW page \in 1 .. 2, Ranks!GetLeaderboard(b, page) PROVE RInv'
    BY <2>6, MakingCallsKeeps
  <2>7. CASE Ranks!Execute
    <3>1. PICK i, c : i = Head(sent) /\ c = calls[i]
      OBVIOUS
    <3> QED BY <2>7, <3>1, WriteKeeps, RedisAnswerKeeps
  <2>8. CASE Ranks!Receive
    BY <2>8, ReceiveKeeps
  <2> QED BY <2>1, <2>2, <2>3, <2>4, <2>5, <2>6, <2>7, <2>8 DEF Ranks!Next
<1> QED BY <1>1, <1>2, PTL DEF Ranks!Spec

(* getUserRank reads the rank and the players around it by commands of their own: the two
   agree if the board has not changed since, whatever calls and losses came in between. *)
THEOREM RanksAgreeWithNeighbours == Ranks!Spec => []RankAmongNeighbours
<1>. Ranks!ConstantsFit
  BY ReadingsTyped
<1>1. RInv => RankAmongNeighbours
  <2> SUFFICES ASSUME RInv, NEW i \in DOMAIN calls, calls[i].op = "rank", calls[i].pc = "done", calls[i].steady
               PROVE  LET c == calls[i]
                          all == Ranks!Ranked(c.board)
                      IN  /\ all[c.place] = c.user /\ score[c.board][c.user] = c.score
                          /\ {r.user : r \in Ranks!ToSet(c.rows)} =
                               {all[k] : k \in {k \in DOMAIN all : k - c.place \in -Surrounding .. Surrounding}}
                          /\ c.rows[c.place - Ranks!StartRank(c)] = [user |-> c.user, score |-> c.score]
    BY DEF RankAmongNeighbours, Ranks!RankAmongNeighbours
  <2>1. PICK c : c = calls[i]
    OBVIOUS
  <2>2. RanksTyped /\ CallTyped(c) /\ HasPlace(c) /\ HasRows(c)
    BY <2>1 DEF RInv, CallsTyped, ReadingsOK, ReadingOK
  <2>3. c \in RankCalls
    BY <2>1, <2>2 DEF CallTyped, CallsOf, ReadCalls, UpdateCalls, PageCalls
  <2> QED BY <2>1, <2>2, <2>3, NeighboursAgree
<1> QED BY <1>1, RanksInvariant, PTL

(* Of two updates of the same boards, each board once and no command rejected, the one
   whose first command was sent first overwrites no score the other wrote, though each
   waits for two answers a board. *)
THEOREM LaterScoresStand == Ranks!Spec => LaterScoreStands
<1>. Ranks!ConstantsFit
  BY ReadingsTyped
<1>1. ASSUME RInv, Ranks!Next, NEW b \in Boards, NEW u \in Users, NEW was, NEW is,
             was = writer[b][u], is = writer'[b][u], was # 0, is # was, Ranks!Alike(was, is), Ranks!Earlier(is, was)
      PROVE  FALSE
  <2>1. /\ CallsTyped /\ RanksTyped /\ QueueOK /\ BeganOK /\ WrittenOK /\ InStep
    BY <1>1 DEF RInv
  <2>2. Ranks!Execute
    BY <1>1 DEF Ranks!Next, Ranks!Initialize, Ranks!Connected, Ranks!Close, Ranks!Ended, Ranks!LoseConnection,
      Ranks!UpdateScore, Ranks!UpdateScoreUnnamed, Ranks!UserFound, Ranks!GetUserRank, Ranks!GetLeaderboard,
      Ranks!Receive, Ranks!data
  <2>3. PICK i, c : i = Head(sent) /\ c = calls[i]
    OBVIOUS
  <2>4. c.pc = "score" /\ writer' = [writer EXCEPT ![c.list[c.at]][c.user] = i]
    BY <1>1, <2>2, <2>3 DEF Ranks!Execute, Ranks!WriteScore, Ranks!data
  <2>5. is = i /\ b = c.list[c.at]
    BY <1>1, <2>1, <2>4 DEF RanksTyped
  <2>6. was \in DOMAIN calls /\ calls[was].op = "update"
    BY <1>1, <2>1 DEF WrittenOK
  <2>7. PICK k \in DOMAIN calls[was].list :
          /\ calls[was].list[k] = b
          /\ \/ k < calls[was].at
             \/ k = calls[was].at /\ (calls[was].pc = "done" \/ (calls[was].pc = "score" /\ Executed(was)))
    BY <1>1, <2>1 DEF WrittenOK
  <2>8. /\ i \in DOMAIN calls /\ calls[i].pc \in Flying
        /\ 1 + Len(replies) \in DOMAIN Queue /\ Queue[1 + Len(replies)] = i
    <3>1. sent \in Seq(Nat) /\ sent # <<>>
      BY <2>1, <2>2 DEF Ranks!Execute, RanksTyped
    <3>2. /\ Len(replies) \in Nat /\ DOMAIN Queue = 1 .. Len(replies) + Len(sent)
          /\ \A m \in 1 .. Len(sent) : Queue[m + Len(replies)] = sent[m]
      BY <2>1, QueueTyped DEF Total
    <3>3. 1 \in 1 .. Len(sent) /\ i = sent[1]
      BY <2>3, <3>1
    <3>4. 1 + Len(replies) \in DOMAIN Queue /\ Queue[1 + Len(replies)] = i
      BY <3>1, <3>2, <3>3
    <3> QED BY <2>1, <3>4 DEF QueueOK
  <2>9. CallTyped(c) /\ c \in UpdateCalls /\ calls[was] \in UpdateCalls
    BY <2>1, <2>3, <2>4, <2>6, <2>8 DEF CallsTyped, CallTyped, CallsOf, ReadCalls, RankCalls, PageCalls, UpdateCalls
  <2>10. /\ c.list = calls[was].list /\ Ranks!IsInjective(calls[was].list) /\ c.at \in DOMAIN c.list /\ c.at \in Nat
         /\ calls[was].at \in Nat
    BY <1>1, <2>3, <2>5, <2>9 DEF Ranks!Alike, Ranks!IsInjective, CallTyped, UpdateCalls
  <2>11. k = c.at
    BY <2>5, <2>7, <2>10 DEF Ranks!IsInjective
  <2>12. Leads(i, was)
    <3>1. Ranks!Alike(i, was)
      BY <1>1, <2>5, <2>6, <2>10 DEF Ranks!Alike
    <3>2. PICK m, n \in DOMAIN began : m < n /\ began[m] = i /\ began[n] = was
      BY <1>1, <2>5 DEF Ranks!Earlier
    <3> QED BY <2>1, <3>1, <3>2 DEF InStep
  <2>13. Executed(was) => ~Before(i, was)
    <3> SUFFICES ASSUME NEW m \in DOMAIN replies, replies[m].call = was, Before(i, was) PROVE FALSE
      BY DEF Executed
    <3>1. Len(replies) \in Nat /\ DOMAIN replies = 1 .. Len(replies)
      BY <2>1 DEF RanksTyped
    <3>2. m \in DOMAIN Queue /\ Queue[m] = was
      BY <2>1, <3>1, QueueTyped DEF Total
    <3>3. 1 + Len(replies) < m
      BY <2>8, <3>2 DEF Before
    <3> QED BY <3>1, <3>3
  <2>14. writer[calls[was].list[k]][u] = was /\ c = calls[i]
    BY <1>1, <2>3, <2>7
  <2>15. calls[was].at >= k /\ ~(calls[was].at = k /\ calls[was].pc = "name")
    BY <2>7, <2>10, <2>11
  <2>16. ~(calls[was].at = k /\ HasNotWritten(was))
    BY <2>14 DEF HasNotWritten
  <2>17. calls[was].at = k /\ calls[was].pc = "score" => Executed(was)
    BY <2>7, <2>10, <2>11
  <2> QED BY <2>4, <2>10, <2>11, <2>12, <2>13, <2>14, <2>15, <2>16, <2>17 DEF Leads
<1>2. RInv /\ [Ranks!Next]_Ranks!vars =>
        [\A b \in Boards, u \in Users :
           LET was == writer[b][u]  is == writer'[b][u] IN
           was # 0 /\ is # was /\ Ranks!Alike(was, is) => ~Ranks!Earlier(is, was)]_Ranks!vars
  BY <1>1
<1> QED BY <1>2, RanksInvariant, PTL DEF Ranks!Spec, LaterScoreStands, Ranks!LaterScoreStands

-----------------------------------------------------------------------------
(* The schema *)

(* Only the migration that exchanges the columns, and the undoing of the one before
   it, do anything to the games of tournaments. *)
IsRemoval(stmt) == stmt = Schema!RemoveColumn("Tournaments", "gameId")
Harmless(stmt) == stmt.op \notin {"linkGames", "unlinkGames"} /\ ~IsRemoval(stmt)
(* Which statements of the query interface are harmless. *)
LEMMA KindsOfStatements ==
  /\ \A t, c : /\ Harmless(Schema!CreateTable(t, c)) /\ Harmless(Schema!AddIndex(t, c))
               /\ Harmless(Schema!RemoveIndex(t, c)) /\ Harmless(Schema!AddConstraint(t, c))
               /\ Harmless(Schema!RemoveConstraint(t, c)) /\ Harmless(Schema!TryRemoveColumn(t, c))
  /\ \A t : Harmless(Schema!DropTable(t))
  /\ \A t, c, k : Harmless(Schema!AddColumn(t, c, k))
  /\ \A t, c : Schema!RemoveColumn(t, c).op \notin {"linkGames", "unlinkGames"}
  /\ \A t, c : t # "Tournaments" => Harmless(Schema!RemoveColumn(t, c))
<1> USE DEF Harmless, IsRemoval, Schema!CreateTable, Schema!AddIndex, Schema!RemoveIndex,
            Schema!AddConstraint, Schema!RemoveConstraint, Schema!TryRemoveColumn,
            Schema!DropTable, Schema!AddColumn, Schema!RemoveColumn
<1>1. \A t, c : Harmless(Schema!CreateTable(t, c)) /\ Harmless(Schema!AddIndex(t, c))
  OBVIOUS
<1>2. \A t, c : /\ Harmless(Schema!RemoveIndex(t, c)) /\ Harmless(Schema!AddConstraint(t, c))
                /\ Harmless(Schema!RemoveConstraint(t, c)) /\ Harmless(Schema!TryRemoveColumn(t, c))
  OBVIOUS
<1>3. \A t : Harmless(Schema!DropTable(t))
  OBVIOUS
<1>4. \A t, c, k : Harmless(Schema!AddColumn(t, c, k))
  OBVIOUS
<1>5. \A t, c : Schema!RemoveColumn(t, c).op \notin {"linkGames", "unlinkGames"}
  OBVIOUS
<1>6. \A t, c : t # "Tournaments" => Harmless(Schema!RemoveColumn(t, c))
  OBVIOUS
<1> QED BY <1>1, <1>2, <1>3, <1>4, <1>5, <1>6

(* A script is harmless if its statements are. *)
HarmlessScript(s) == \E S : s \in Seq(S) /\ \A x \in S : Harmless(x)

(* The scripts are short lists of statements, written out. *)
LEMMA OneStatement ==
  ASSUME NEW a,
         Harmless(a)
  PROVE  HarmlessScript(<< a >>)
<1> DEFINE S == {a}
<1>1. << a >> \in Seq(S) /\ \A x \in S : Harmless(x)
  OBVIOUS
<1> HIDE DEF S
<1> QED BY <1>1 DEF HarmlessScript

LEMMA TwoStatements ==
  ASSUME NEW a, NEW b,
         Harmless(a), Harmless(b)
  PROVE  HarmlessScript(<< a, b >>)
<1> DEFINE S == {a, b}
<1>1. << a, b >> \in Seq(S) /\ \A x \in S : Harmless(x)
  OBVIOUS
<1> HIDE DEF S
<1> QED BY <1>1 DEF HarmlessScript

LEMMA ThreeStatements ==
  ASSUME NEW a, NEW b, NEW c,
         Harmless(a), Harmless(b), Harmless(c)
  PROVE  HarmlessScript(<< a, b, c >>)
<1> DEFINE S == {a, b, c}
<1>1. << a, b, c >> \in Seq(S) /\ \A x \in S : Harmless(x)
  OBVIOUS
<1> HIDE DEF S
<1> QED BY <1>1 DEF HarmlessScript

LEMMA FourStatements ==
  ASSUME NEW a, NEW b, NEW c, NEW d,
         Harmless(a), Harmless(b), Harmless(c), Harmless(d)
  PROVE  HarmlessScript(<< a, b, c, d >>)
<1> DEFINE S == {a, b, c, d}
<1>1. << a, b, c, d >> \in Seq(S) /\ \A x \in S : Harmless(x)
  OBVIOUS
<1> HIDE DEF S
<1> QED BY <1>1 DEF HarmlessScript

LEMMA FiveStatements ==
  ASSUME NEW a, NEW b, NEW c, NEW d, NEW e,
         Harmless(a), Harmless(b), Harmless(c), Harmless(d), Harmless(e)
  PROVE  HarmlessScript(<< a, b, c, d, e >>)
<1> DEFINE S == {a, b, c, d, e}
<1>1. << a, b, c, d, e >> \in Seq(S) /\ \A x \in S : Harmless(x)
  OBVIOUS
<1> HIDE DEF S
<1> QED BY <1>1 DEF HarmlessScript

LEMMA SixStatements ==
  ASSUME NEW a, NEW b, NEW c, NEW d, NEW e, NEW f,
         Harmless(a), Harmless(b), Harmless(c), Harmless(d), Harmless(e), Harmless(f)
  PROVE  HarmlessScript(<< a, b, c, d, e, f >>)
<1> DEFINE S == {a, b, c, d, e, f}
<1>1. << a, b, c, d, e, f >> \in Seq(S) /\ \A x \in S : Harmless(x)
  OBVIOUS
<1> HIDE DEF S
<1> QED BY <1>1 DEF HarmlessScript

LEMMA EightStatements ==
  ASSUME NEW a, NEW b, NEW c, NEW d, NEW e, NEW f, NEW g, NEW h,
         Harmless(a), Harmless(b), Harmless(c), Harmless(d), Harmless(e), Harmless(f), Harmless(g), Harmless(h)
  PROVE  HarmlessScript(<< a, b, c, d, e, f, g, h >>)
<1> DEFINE S == {a, b, c, d, e, f, g, h}
<1>1. << a, b, c, d, e, f, g, h >> \in Seq(S) /\ \A x \in S : Harmless(x)
  OBVIOUS
<1> HIDE DEF S
<1> QED BY <1>1 DEF HarmlessScript

(* The initial schema is put together from the scripts of its tables. *)
LEMMA Concatenated ==
  ASSUME NEW s, NEW t, HarmlessScript(s), HarmlessScript(t)
  PROVE  HarmlessScript(s \o t)
<1>1. PICK S : s \in Seq(S) /\ \A x \in S : Harmless(x)
  BY DEF HarmlessScript
<1>2. PICK T : t \in Seq(T) /\ \A x \in T : Harmless(x)
  BY DEF HarmlessScript
<1>3. s \in Seq(S \cup T) /\ t \in Seq(S \cup T)
  BY <1>1, <1>2
<1>4. s \o t \in Seq(S \cup T)
  BY <1>3
<1> QED BY <1>1, <1>2, <1>4 DEF HarmlessScript

LEMMA StatementsOfHarmless ==
  ASSUME NEW s, HarmlessScript(s), NEW i \in Nat, i # 0, i <= Len(s)
  PROVE  Harmless(s[i])
<1>1. PICK S : s \in Seq(S) /\ \A x \in S : Harmless(x)
  BY DEF HarmlessScript
<1>2. s[i] \in S
  BY <1>1
<1> QED BY <1>1, <1>2

LEMMA InitialSchemaIsHarmless ==
  HarmlessScript(Schema!InitialSchemaUp) /\ HarmlessScript(Schema!InitialSchemaDown)
<1>1. HarmlessScript(<< Schema!UsersTable >>)
  BY KindsOfStatements, OneStatement DEF Schema!UsersTable
<1>2. HarmlessScript(Schema!WalletsTable)
  BY KindsOfStatements, TwoStatements, Zenon DEF Schema!WalletsTable
<1>3. HarmlessScript(Schema!TransactionsTable)
  BY KindsOfStatements, FourStatements, Zenon DEF Schema!TransactionsTable
<1>4. HarmlessScript(Schema!TournamentsTable)
  BY KindsOfStatements, ThreeStatements, Zenon DEF Schema!TournamentsTable
<1>5. HarmlessScript(Schema!TournamentParticipantsTable)
  BY KindsOfStatements, FourStatements, Zenon DEF Schema!TournamentParticipantsTable
<1>6. HarmlessScript(Schema!MatchesTable)
  BY KindsOfStatements, FourStatements, Zenon DEF Schema!MatchesTable
<1>7. HarmlessScript(Schema!AuditLogsTable)
  BY KindsOfStatements, FiveStatements, Zenon DEF Schema!AuditLogsTable
<1>8. HarmlessScript(Schema!DisputeTicketsTable)
  BY KindsOfStatements, FourStatements, Zenon DEF Schema!DisputeTicketsTable
<1>9. HarmlessScript(Schema!InitialSchemaDown)
  BY KindsOfStatements, EightStatements, Zenon DEF Schema!InitialSchemaDown
<1>10. HarmlessScript(Schema!InitialSchemaUp)
  BY <1>1, <1>2, <1>3, <1>4, <1>5, <1>6, <1>7, <1>8, Concatenated, Zenon DEF Schema!InitialSchemaUp
<1> QED BY <1>9, <1>10

(* Of the other scripts all but the undoing of 20250706182654 and the exchange itself. *)
LEMMA OtherScriptsAreHarmless ==
  ASSUME NEW m \in 1 .. 11, m # 1, m # 4
  PROVE  /\ HarmlessScript(Schema!Migrations[m]["up"])
         /\ m # 3 => HarmlessScript(Schema!Migrations[m]["down"])
<1>1. HarmlessScript(Schema!IdempotencyRequestsUp)
  BY KindsOfStatements, ThreeStatements, Zenon DEF Schema!IdempotencyRequestsUp
<1>2. HarmlessScript(Schema!IdempotencyRequestsDown)
  BY KindsOfStatements, OneStatement, Zenon DEF Schema!IdempotencyRequestsDown
<1>3. HarmlessScript(Schema!GamesUp)
  BY KindsOfStatements, SixStatements, Zenon DEF Schema!GamesUp, Schema!GamesTable
<1>4. HarmlessScript(Schema!TeamsUp)
  BY KindsOfStatements, TwoStatements, Zenon DEF Schema!TeamsUp
<1>5. HarmlessScript(Schema!TeamsDown)
  BY KindsOfStatements, TwoStatements, Zenon DEF Schema!TeamsDown
<1>6. HarmlessScript(Schema!IndexesUp)
  BY KindsOfStatements, FourStatements, Zenon DEF Schema!IndexesUp
<1>7. HarmlessScript(Schema!IndexesDown)
  BY KindsOfStatements, FourStatements, Zenon DEF Schema!IndexesDown
<1>8. HarmlessScript(Schema!ChatUp)
  BY KindsOfStatements, SixStatements, Zenon DEF Schema!ChatUp
<1>9. HarmlessScript(Schema!ChatDown)
  BY KindsOfStatements, TwoStatements, Zenon DEF Schema!ChatDown
<1>10. HarmlessScript(Schema!ChatEditsUp)
  BY KindsOfStatements, TwoStatements, Zenon DEF Schema!ChatEditsUp
<1>11. HarmlessScript(Schema!ChatEditsDown)
  BY KindsOfStatements, TwoStatements, Zenon DEF Schema!ChatEditsDown
<1>12. HarmlessScript(Schema!GameImagesUp)
  BY KindsOfStatements, ThreeStatements, Zenon DEF Schema!GameImagesUp
<1>13. HarmlessScript(Schema!GameImagesDown)
  BY KindsOfStatements, ThreeStatements, Zenon DEF Schema!GameImagesDown
<1>14. HarmlessScript(Schema!InvitationsUp)
  BY KindsOfStatements, OneStatement, Zenon DEF Schema!InvitationsUp
<1>15. HarmlessScript(Schema!InvitationsDown)
  BY KindsOfStatements, OneStatement, Zenon DEF Schema!InvitationsDown
<1>16. HarmlessScript(Schema!TournamentImagesUp)
  BY KindsOfStatements, OneStatement, Zenon DEF Schema!TournamentImagesUp
<1>17. HarmlessScript(Schema!TournamentImagesDown)
  BY KindsOfStatements, OneStatement, Zenon DEF Schema!TournamentImagesDown
<1>18. m \in {2, 3, 5, 6, 7, 8, 9, 10, 11}
  OBVIOUS
<1>19. Schema!Migrations[2]["up"] = Schema!IdempotencyRequestsUp /\ Schema!Migrations[2]["down"] = Schema!IdempotencyRequestsDown
  BY DEF Schema!Migrations
<1>20. Schema!Migrations[3]["up"] = Schema!GamesUp
  BY DEF Schema!Migrations
<1>21. Schema!Migrations[5]["up"] = Schema!TeamsUp /\ Schema!Migrations[5]["down"] = Schema!TeamsDown
  BY DEF Schema!Migrations
<1>22. Schema!Migrations[6]["up"] = Schema!IndexesUp /\ Schema!Migrations[6]["down"] = Schema!IndexesDown
  BY DEF Schema!Migrations
<1>23. Schema!Migrations[7]["up"] = Schema!ChatUp /\ Schema!Migrations[7]["down"] = Schema!ChatDown
  BY DEF Schema!Migrations
<1>24. Schema!Migrations[8]["up"] = Schema!ChatEditsUp /\ Schema!Migrations[8]["down"] = Schema!ChatEditsDown
  BY DEF Schema!Migrations
<1>25. Schema!Migrations[9]["up"] = Schema!GameImagesUp /\ Schema!Migrations[9]["down"] = Schema!GameImagesDown
  BY DEF Schema!Migrations
<1>26. Schema!Migrations[10]["up"] = Schema!InvitationsUp /\ Schema!Migrations[10]["down"] = Schema!InvitationsDown
  BY DEF Schema!Migrations
<1>27. Schema!Migrations[11]["up"] = Schema!TournamentImagesUp /\ Schema!Migrations[11]["down"] = Schema!TournamentImagesDown
  BY DEF Schema!Migrations
<1> QED
  BY <1>1, <1>2, <1>3, <1>4, <1>5, <1>6, <1>7, <1>8, <1>9, <1>10, <1>11, <1>12, <1>13, <1>14,
     <1>15, <1>16, <1>17, <1>18, <1>19, <1>20, <1>21, <1>22, <1>23, <1>24, <1>25, <1>26, <1>27

(* The other four scripts, and how many migrations there are. *)
LEMMA Scripts ==
  /\ Len(Schema!Migrations) = 11
  /\ Schema!Migrations[4]["up"] = << Schema!LinkGames >>
  /\ Schema!Migrations[4]["down"] = << Schema!UnlinkGames >>
  /\ Schema!Migrations[3]["down"] = Schema!GamesDown
  /\ Schema!Migrations[1]["up"] = Schema!InitialSchemaUp
  /\ Schema!Migrations[1]["down"] = Schema!InitialSchemaDown
BY DEF Schema!Migrations

(* What the statements do to the rows of Tournaments. *)
LEMMA RowsAfterOthers ==
  ASSUME NEW stmt, Harmless(stmt)
  PROVE  Schema!RowsAfter(stmt) \in {tournaments, << >>}
BY Zenon DEF Schema!RowsAfter, Harmless, IsRemoval

LEMMA RowsAfterExchange ==
  ASSUME NEW stmt
  PROVE  /\ stmt.op = "linkGames" =>
              Schema!RowsAfter(stmt) = [r \in DOMAIN tournaments |-> Schema!Linked(tournaments[r])]
         /\ stmt.op = "unlinkGames" =>
              Schema!RowsAfter(stmt) = [r \in DOMAIN tournaments |-> Schema!Unlinked(tournaments[r])]
<1>1. stmt = Schema!DropTable("Tournaments") => stmt.op = "dropTable"
  BY DEF Schema!DropTable
<1>2. IsRemoval(stmt) => stmt.op = "removeColumn"
  BY DEF IsRemoval, Schema!RemoveColumn
<1>3. "linkGames" # "unlinkGames" /\ "linkGames" # "dropTable" /\ "linkGames" # "removeColumn"
      /\ "unlinkGames" # "dropTable" /\ "unlinkGames" # "removeColumn"
  OBVIOUS
<1>4. stmt.op = "linkGames" =>
        Schema!RowsAfter(stmt) = [r \in DOMAIN tournaments |-> Schema!Linked(tournaments[r])]
  BY <1>1, <1>2, <1>3, Zenon DEF Schema!RowsAfter, IsRemoval
<1>5. stmt.op = "unlinkGames" =>
        Schema!RowsAfter(stmt) = [r \in DOMAIN tournaments |-> Schema!Unlinked(tournaments[r])]
  BY <1>1, <1>2, <1>3, Zenon DEF Schema!RowsAfter, IsRemoval
<1> QED BY <1>4, <1>5

LEMMA RowsAfterRemoval ==
  ASSUME NEW stmt, IsRemoval(stmt)
  PROVE  Schema!RowsAfter(stmt) = [r \in DOMAIN tournaments |-> Schema!Row(tournaments[r].type, NoName)]
<1>1. stmt.op = "removeColumn" /\ Schema!DropTable("Tournaments").op = "dropTable"
  BY DEF IsRemoval, Schema!RemoveColumn, Schema!DropTable
<1>2. "removeColumn" # "linkGames" /\ "removeColumn" # "unlinkGames" /\ "removeColumn" # "dropTable"
  OBVIOUS
<1>3. stmt # Schema!DropTable("Tournaments")
  BY <1>1, <1>2
<1> QED BY <1>1, <1>2, <1>3, Zenon DEF Schema!RowsAfter, IsRemoval

(* The undoing of 20250706182654 does not exchange anything. *)
LEMMA UndoneGames ==
  ASSUME NEW i \in Nat, i # 0, i <= Len(Schema!GamesDown)
  PROVE  Harmless(Schema!GamesDown[i]) \/ IsRemoval(Schema!GamesDown[i])
<1> DEFINE removal == Schema!RemoveColumn("Tournaments", "gameId")
<1>1. Len(Schema!GamesDown) = 6 /\ Schema!GamesDown[4] = removal
  BY DEF Schema!GamesDown
<1>2. /\ Harmless(Schema!GamesDown[1]) /\ Harmless(Schema!GamesDown[2])
      /\ Harmless(Schema!GamesDown[3]) /\ Harmless(Schema!GamesDown[5])
  BY KindsOfStatements DEF Schema!GamesDown
<1>3. Harmless(Schema!GamesDown[6])
  BY KindsOfStatements DEF Schema!GamesDown, Harmless, IsRemoval, Schema!RemoveColumn
<1>4. i \in {1, 2, 3, 4, 5, 6}
  BY <1>1
<1> QED BY <1>1, <1>2, <1>3, <1>4 DEF IsRemoval

-----------------------------------------------------------------------------
(* What the runs tell of the rows. *)
Runs == [migration : 0 .. 11, direction : {"up", "down"}, next : Nat \ {0}]

(* A run is of the migration after the last one recorded, or undoes that one. *)
RunOK ==
  /\ applied \in 0 .. 11 /\ run \in Runs
  /\ \/ run = Schema!Idle
     \/ run.direction = "up" /\ run.migration = applied + 1
     \/ run.direction = "down" /\ run.migration = applied /\ applied > 0

(* Whether the games are where 20250708000000 puts them, as the runs tell. *)
Exchanged ==
  IF run.migration = 4
  THEN IF run.direction = "up" THEN run.next > 1 ELSE run.next = 1
  ELSE applied >= 4

\* A row's gameId tells no more than its gameType.
NothingToLose == \A r \in DOMAIN tournaments : tournaments[r].game \in {NoName, tournaments[r].type}

(* As long as the exchange has not taken place, or a run of it that died has left it
   unrecorded, nothing is in gameId that is not in gameType too. *)
MInv == RunOK /\ (Exchanged \/ <<4, "up">> \in dead \/ NothingToLose)

\* What a step does to the games of tournaments.
Keeps ==
  \A r \in DOMAIN tournaments \cap DOMAIN tournaments' :
    (<<4, "up">> \notin dead /\ Schema!GameOf(tournaments[r]) \in games \cap games')
      => Schema!GameOf(tournaments'[r]) = Schema!GameOf(tournaments[r])

LEMMA MigrationsBegin == ASSUME Schema!Init PROVE MInv
BY DEF Schema!Init, MInv, RunOK, Runs, Exchanged, NothingToLose, Schema!Idle

(* A run ends where it began or where it recorded its migration. *)
LEMMA RunsGoOn ==
  ASSUME MInv, Schema!Next
  PROVE  RunOK'
<1> USE DEF MInv, RunOK, Runs, Schema!Idle
<1>1. CASE Schema!Migrate
  BY <1>1, Scripts DEF Schema!Migrate, Schema!Resting
<1>2. CASE Schema!Undo
  BY <1>2 DEF Schema!Undo, Schema!Resting
<1>3. CASE Schema!Execute
  BY <1>3 DEF Schema!Execute, Schema!Resting, Schema!history
<1>4. CASE Schema!Record
  BY <1>4 DEF Schema!Record, Schema!Resting
<1>5. CASE Schema!Refuse
  BY <1>5 DEF Schema!Refuse
<1>6. CASE Schema!Die
  BY <1>6 DEF Schema!Die
<1>7. ASSUME NEW n \in Names, Schema!AddGame(n) \/ Schema!DeleteGame(n) PROVE RunOK'
  BY <1>7 DEF Schema!AddGame, Schema!DeleteGame
<1>8. ASSUME NEW r \in Tournaments, NEW n \in Names, Schema!AddTournament(r, n) PROVE RunOK'
  BY <1>8 DEF Schema!AddTournament
<1> QED BY <1>1, <1>2, <1>3, <1>4, <1>5, <1>6, <1>7, <1>8 DEF Schema!Next

(* Filling gameId from gameType, and gameType from gameId, keeps the game, and tells
   whether the exchange has taken place. *)
LEMMA ExchangeKeeps ==
  ASSUME MInv, Schema!Execute, run.migration = 4
  PROVE  MInv' /\ Keeps
<1>1. RunOK' /\ RunOK
  BY RunsGoOn DEF Schema!Next, MInv
<1>2. /\ run' = [run EXCEPT !.next = @ + 1]
      /\ UNCHANGED <<applied, dead>>
      /\ run.next \in Nat \ {0} /\ run.direction \in {"up", "down"}
  BY <1>1 DEF Schema!Execute, Schema!history, RunOK, Runs
<1>3. run'.migration = 4 /\ run'.direction = run.direction /\ run'.next = run.next + 1
  BY <1>1, <1>2 DEF RunOK, Runs
<1>4. CASE run.direction = "up"
  <2>1. Schema!Statements(run) = << Schema!LinkGames >>
    BY <1>4, Scripts DEF Schema!Statements
  <2>2. run.next = 1
    BY <2>1, <1>2 DEF Schema!Execute
  <2>3. tournaments' = Schema!RowsAfter(Schema!LinkGames)
    BY <2>1, <2>2 DEF Schema!Execute
  <2>4. tournaments' = [r \in DOMAIN tournaments |-> Schema!Linked(tournaments[r])]
    BY <2>3, RowsAfterExchange DEF Schema!LinkGames
  <2>5. Exchanged'
    BY <1>2, <1>3, <1>4 DEF Exchanged
  <2>6. Keeps
    BY <2>4 DEF Keeps, Schema!Linked, Schema!GameOf, Schema!Row
  <2> QED BY <1>1, <2>5, <2>6 DEF MInv
<1>5. CASE run.direction = "down"
  <2>1. Schema!Statements(run) = << Schema!UnlinkGames >>
    BY <1>5, Scripts DEF Schema!Statements
  <2>2. run.next = 1
    BY <2>1, <1>2 DEF Schema!Execute
  <2>3. tournaments' = Schema!RowsAfter(Schema!UnlinkGames)
    BY <2>1, <2>2 DEF Schema!Execute
  <2>4. tournaments' = [r \in DOMAIN tournaments |-> Schema!Unlinked(tournaments[r])]
    BY <2>3, RowsAfterExchange DEF Schema!UnlinkGames
  <2>5. NothingToLose'
    BY <2>4 DEF NothingToLose, Schema!Unlinked, Schema!Row
  <2>6. Keeps
    BY <2>4 DEF Keeps, Schema!Unlinked, Schema!GameOf, Schema!Row
  <2> QED BY <1>1, <2>5, <2>6 DEF MInv
<1> QED BY <1>2, <1>4, <1>5

(* gameId is removed only while the exchange is not recorded: what it holds is in
   gameType too.  Every other statement leaves the rows alone or drops them all. *)
LEMMA OtherStatementsKeep ==
  ASSUME MInv, Schema!Execute, run.migration # 4
  PROVE  MInv' /\ Keeps
<1>1. RunOK' /\ RunOK
  BY RunsGoOn DEF Schema!Next, MInv
<1>2. /\ run' = [run EXCEPT !.next = @ + 1] /\ run # Schema!Idle
      /\ UNCHANGED <<applied, dead>>
      /\ run.next \in Nat /\ run.next # 0 /\ run.direction \in {"up", "down"}
      /\ run.migration \in 1 .. 11 /\ run.next <= Len(Schema!Statements(run))
  BY <1>1 DEF Schema!Execute, Schema!history, RunOK, Runs, Schema!Resting
<1>3. run'.migration = run.migration /\ (Exchanged' <=> Exchanged)
  BY <1>1, <1>2 DEF RunOK, Runs, Exchanged
<1> DEFINE stmt == Schema!Statements(run)[run.next]
<1>4. tournaments' = Schema!RowsAfter(stmt)
  BY DEF Schema!Execute
<1>5. CASE Harmless(stmt)
  <2>1. tournaments' \in {tournaments, << >>}
    BY <1>4, <1>5, RowsAfterOthers
  <2>2. DOMAIN << >> = {}
    OBVIOUS
  <2>3. Keeps
    BY <2>1, <2>2 DEF Keeps
  <2>4. NothingToLose => NothingToLose'
    BY <2>1, <2>2 DEF NothingToLose
  <2> QED BY <1>1, <1>2, <1>3, <2>3, <2>4 DEF MInv
<1>6. CASE ~Harmless(stmt)
  <2>1. run.migration = 3 /\ run.direction = "down"
    <3> SUFFICES ASSUME ~(run.migration = 3 /\ run.direction = "down") PROVE FALSE
      OBVIOUS
    <3>1. HarmlessScript(Schema!Statements(run))
      BY <1>2, Scripts, InitialSchemaIsHarmless, OtherScriptsAreHarmless DEF Schema!Statements
    <3> QED BY <1>2, <1>6, <3>1, StatementsOfHarmless
  <2>2. Schema!Statements(run) = Schema!GamesDown
    BY <2>1, Scripts DEF Schema!Statements
  <2>3. IsRemoval(stmt)
    BY <1>2, <1>6, <2>2, UndoneGames
  <2>4. tournaments' = [r \in DOMAIN tournaments |-> Schema!Row(tournaments[r].type, NoName)]
    BY <1>4, <2>3, RowsAfterRemoval
  <2>5. applied = 3 /\ ~Exchanged
    BY <1>1, <1>2, <2>1 DEF RunOK, Exchanged
  <2>6. <<4, "up">> \in dead \/ NothingToLose
    BY <2>5 DEF MInv
  <2>7. NothingToLose'
    BY <2>4 DEF NothingToLose, Schema!Row
  <2>8. Keeps
    BY <2>4, <2>6 DEF Keeps, NothingToLose, Schema!Row, Schema!GameOf
  <2> QED BY <1>1, <2>7, <2>8 DEF MInv
<1> QED BY <1>5, <1>6

(* Every step keeps the invariant and the games. *)
LEMMA MigrationsGoOn ==
  ASSUME MInv, [Schema!Next]_Schema!vars
  PROVE  MInv' /\ (Keeps \/ UNCHANGED Schema!vars)
<1>1. CASE UNCHANGED Schema!vars
  BY <1>1 DEF Schema!vars, Schema!history, MInv, RunOK, Runs, Exchanged, NothingToLose, Schema!Idle
<1>2. CASE Schema!Next
  <2>1. RunOK' /\ RunOK
    BY <1>2, RunsGoOn DEF MInv
  <2>2. ASSUME tournaments' = tournaments PROVE Keeps /\ (NothingToLose => NothingToLose')
    BY <2>2 DEF Keeps, NothingToLose
  <2>3. CASE Schema!Migrate \/ Schema!Undo
    <3>1. tournaments' = tournaments /\ dead' = dead /\ run.migration = 0
      BY <2>3 DEF Schema!Migrate, Schema!Undo, Schema!history, Schema!Resting, Schema!Idle
    <3>2. Exchanged => Exchanged'
      BY <2>1, <2>3 DEF Exchanged, Schema!Migrate, Schema!Undo, Schema!Resting, Schema!Idle, RunOK
    <3> QED BY <2>1, <2>2, <3>1, <3>2 DEF MInv
  <2>4. CASE Schema!Execute
    BY <2>4, ExchangeKeeps, OtherStatementsKeep
  <2>5. CASE Schema!Record
    <3>1. tournaments' = tournaments /\ dead' = dead
      BY <2>5 DEF Schema!Record, Schema!history
    <3>2. run.migration = 4 /\ run.direction = "down" => run.next > 1
      <4> SUFFICES ASSUME run.migration = 4, run.direction = "down" PROVE run.next > 1
        OBVIOUS
      <4>1. Len(Schema!Statements(run)) = 1
        BY Scripts DEF Schema!Statements
      <4> QED BY <2>5, <4>1 DEF Schema!Record
    <3>3. Exchanged => Exchanged'
      BY <2>1, <2>5, <3>2 DEF Exchanged, Schema!Record, Schema!Resting, Schema!Idle, RunOK, Runs
    <3> QED BY <2>1, <2>2, <3>1, <3>3 DEF MInv
  <2>6. CASE Schema!Refuse
    <3>1. tournaments' = tournaments /\ dead' = dead
      BY <2>6 DEF Schema!Refuse, Schema!history
    <3>2. run.migration = 4 /\ run.direction = "up" => run.next = 1
      <4> SUFFICES ASSUME run.migration = 4, run.direction = "up" PROVE run.next = 1
        OBVIOUS
      <4>1. Len(Schema!Statements(run)) = 1
        BY Scripts DEF Schema!Statements
      <4> QED BY <2>1, <2>6, <4>1 DEF Schema!Refuse, RunOK, Runs
    <3>3. Exchanged => Exchanged'
      BY <2>1, <2>6, <3>2 DEF Exchanged, Schema!Refuse, Schema!Resting, Schema!Idle, RunOK, Runs
    <3> QED BY <2>1, <2>2, <3>1, <3>3 DEF MInv
  <2>7. CASE Schema!Die
    <3>1. tournaments' = tournaments /\ dead' = dead \cup {<<run.migration, run.direction>>}
      BY <2>7 DEF Schema!Die
    <3>2. Exchanged => Exchanged' \/ <<4, "up">> \in dead'
      BY <2>1, <2>7, <3>1 DEF Exchanged, Schema!Die, Schema!Resting, Schema!Idle, RunOK, Runs
    <3> QED BY <2>1, <2>2, <3>1, <3>2 DEF MInv
  <2>8. ASSUME NEW n \in Names, Schema!AddGame(n) PROVE MInv' /\ Keeps
    <3>1. tournaments' = tournaments /\ dead' = dead /\ UNCHANGED <<run, applied>>
      BY <2>8 DEF Schema!AddGame, Schema!history
    <3> QED BY <2>1, <2>2, <3>1 DEF MInv, Exchanged
  <2>9. ASSUME NEW n \in Names, Schema!DeleteGame(n) PROVE MInv' /\ Keeps
    <3>1. /\ tournaments' = [r \in DOMAIN tournaments |->
                        IF tournaments[r].game = n THEN Schema!Row(tournaments[r].type, NoName)
                        ELSE tournaments[r]]
          /\ n \notin games' /\ dead' = dead /\ UNCHANGED <<run, applied>>
      BY <2>9 DEF Schema!DeleteGame, Schema!history
    <3>2. NothingToLose => NothingToLose'
      BY <3>1 DEF NothingToLose, Schema!Row
    <3>3. Keeps
      BY <3>1 DEF Keeps, Schema!GameOf, Schema!Row
    <3> QED BY <2>1, <3>1, <3>2, <3>3 DEF MInv, Exchanged
  <2>10. ASSUME NEW r \in Tournaments, NEW n \in Names, Schema!AddTournament(r, n)
         PROVE MInv' /\ Keeps
    <3>1. /\ dead' = dead /\ UNCHANGED <<run, applied>>
          /\ tournaments' = [s \in DOMAIN tournaments \cup {r} |->
                        IF s = r THEN Schema!Row(n, NoName) ELSE tournaments[s]]
          /\ r \notin DOMAIN tournaments
      BY <2>10 DEF Schema!AddTournament, Schema!history
    <3>2. /\ DOMAIN tournaments' = DOMAIN tournaments \cup {r}
          /\ tournaments'[r] = Schema!Row(n, NoName)
          /\ \A s \in DOMAIN tournaments : tournaments'[s] = tournaments[s]
      BY <3>1
    <3>3. NothingToLose => NothingToLose'
      BY <3>2 DEF NothingToLose, Schema!Row
    <3>4. Keeps
      BY <3>2 DEF Keeps
    <3> QED BY <2>1, <3>1, <3>3, <3>4 DEF MInv, Exchanged
  <2> QED
    BY <1>2, <2>3, <2>4, <2>5, <2>6, <2>7, <2>8, <2>9, <2>10, Zenon DEF Schema!Next
<1> QED BY <1>1, <1>2

(* TournamentsKeepTheirGame: exchanging gameType for gameId and back, in whatever
   order migrations are run, undone, refused or die, loses no tournament's game while
   a game of that name is there; unless a run of 20250708000000 died after its commit. *)
THEOREM TournamentsAreKept == Schema!Spec => TournamentsKeepTheirGame
<1>1. ASSUME MInv, [Schema!Next]_Schema!vars
      PROVE  [\A r \in DOMAIN tournaments \cap DOMAIN tournaments' :
                (<<Schema!Exchange, "up">> \notin dead /\ Schema!GameOf(tournaments[r]) \in games \cap games')
                  => Schema!GameOf(tournaments'[r]) = Schema!GameOf(tournaments[r])]_Schema!vars
  BY <1>1, MigrationsGoOn DEF Keeps, Schema!Exchange
<1> QED BY <1>1, MigrationsBegin, MigrationsGoOn, PTL
        DEF Schema!Spec, TournamentsKeepTheirGame, Schema!TournamentsKeepTheirGame

=============================================================================
