---------------------- MODULE MessagingAdapter_proofs ----------------------
(***************************************************************************)
(* Theorems about the RabbitMQ adapter, for every number of runs, helpers, *)
(* connections, retries and queues.                                        *)
(***************************************************************************)
EXTENDS MessagingAdapter, FiniteSetTheorems, TLAPS

(* The adapter is closing from the call of close() on: no later connect() makes a
   stale reference or promise, allowed while closing, visible again. *)
ClosingFromShutdown == isClosing <=> closers[Shutdown].pc # "idle"

(* What a run waits for: an attempt that may be repeated, a connection, a queue. *)
RunsAwait ==
  \A r \in Runs :
    /\ runs[r].pc = "waiting" => runs[r].attempt < MaxRetries
    /\ runs[r].pc \in {"creating_channel", "asserting"} => runs[r].conn \in Conns
    /\ runs[r].pc = "asserting" => runs[r].left # 0

IInv ==
  /\ TypeOK /\ RunsAwait
  /\ ClosingFromShutdown /\ PromiseIsPending /\ NoDeadReference

USE NullsAreNoMembers, CountsArePositive

-----------------------------------------------------------------------------
(* What the parts of a step write has its type. *)

RunRecords ==
  [pc : RunPcs, attempt : 0..MaxRetries, conn : Conns \cup {NoConn}, left : 0..Queues]

CloserRecords ==
  [pc : CloserPcs, conn : Conns \cup {NoConn}, run : Runs \cup {NoRun}]

LEMMA RecordsTyped ==
  /\ Ended \in RunRecords /\ Begun \in RunRecords /\ Begun # Ended
  /\ Ended.pc = "idle" /\ Begun.pc = "connecting" /\ Begun.attempt = 1
  /\ \A pc \in CloserPcs, c \in Conns \cup {NoConn} :
       /\ At(pc, c) \in CloserRecords
       /\ At(pc, c).pc = pc /\ At(pc, c).conn = c
<1>1. 0 \in 0..MaxRetries /\ 1 \in 0..MaxRetries /\ 0 \in 0..Queues
  OBVIOUS
<1>2. Ended \in RunRecords
  BY <1>1 DEF Ended, Await, RunRecords, RunPcs
<1>4. Begun \in RunRecords
  BY <1>1 DEF Begun, Attempt, Await, RunRecords, RunPcs
<1>5. Begun.pc = "connecting" /\ Begun.attempt = 1 /\ Ended.pc = "idle"
  BY DEF Begun, Attempt, Await, Ended
<1>6. ASSUME NEW pc \in CloserPcs, NEW c \in Conns \cup {NoConn}
      PROVE  At(pc, c) \in CloserRecords /\ At(pc, c).pc = pc /\ At(pc, c).conn = c
  BY DEF At, CloserRecords
<1>7. QED
  BY <1>2, <1>4, <1>5, <1>6

(* Every run goes on as it was, or is a new call of connectWithRetry. *)
Restarted ==
  /\ runs' \in [Runs -> RunRecords]
  /\ \A r \in Runs : runs'[r] \in {runs[r], Begun}

LEMMA ReconnectRestarts ==
  ASSUME TypeOK, NEW n, Reconnect(n) \/ UNCHANGED runs
  PROVE  Restarted
<1>1. runs \in [Runs -> RunRecords] /\ Begun \in RunRecords
  BY RecordsTyped DEF TypeOK, RunRecords
<1>2. CASE UNCHANGED runs
  BY <1>1, <1>2 DEF Restarted
<1>3. CASE Reconnect(n)
  BY <1>1, <1>3 DEF Restarted, Reconnect
<1>4. QED
  BY <1>2, <1>3

LEMMA RestartedKeeps ==
  ASSUME TypeOK, RunsAwait, Restarted
  PROVE  /\ RunsAwait'
         /\ PromiseIsPending /\ UNCHANGED isClosing
              /\ connectionPromise' \in {connectionPromise, NoRun} => PromiseIsPending'
<1>1. RunsAwait'
  <2>1. SUFFICES ASSUME NEW r \in Runs
                 PROVE  /\ runs'[r].pc = "waiting" => runs'[r].attempt < MaxRetries
                        /\ runs'[r].pc \in {"creating_channel", "asserting"}
                             => runs'[r].conn \in Conns
                        /\ runs'[r].pc = "asserting" => runs'[r].left # 0
    BY DEF RunsAwait
  <2>2. CASE runs'[r] = runs[r]
    BY <2>2 DEF RunsAwait
  <2>3. CASE runs'[r] = Begun
    BY <2>3, RecordsTyped
  <2>4. QED
    BY <2>2, <2>3 DEF Restarted
<1>2. ASSUME PromiseIsPending, UNCHANGED isClosing,
             connectionPromise' \in {connectionPromise, NoRun}
      PROVE  PromiseIsPending'
  BY <1>2, RecordsTyped DEF PromiseIsPending, Restarted, TypeOK
<1>3. QED
  BY <1>1, <1>2

LEMMA StrandTyped ==
  ASSUME TypeOK, NEW c, NEW pcs, "idle" \notin pcs
  PROVE  /\ Strand(c, pcs) \in [Closers -> CloserRecords]
         /\ \A k \in Closers : Strand(c, pcs)[k].pc = "idle" <=> closers[k].pc = "idle"
<1>1. /\ At("stuck", NoConn) \in CloserRecords
      /\ At("stuck", NoConn).pc = "stuck"
  BY RecordsTyped DEF CloserPcs
<1>2. closers \in [Closers -> CloserRecords]
  BY DEF TypeOK, CloserRecords
<1>3. Strand(c, pcs) \in [Closers -> CloserRecords]
  BY <1>1, <1>2 DEF Strand
<1>4. ASSUME NEW k \in Closers
      PROVE  Strand(c, pcs)[k].pc = "idle" <=> closers[k].pc = "idle"
  <2>1. CASE closers[k].conn = c /\ closers[k].pc \in pcs
    <3>1. Strand(c, pcs)[k] = At("stuck", NoConn)
      BY <2>1 DEF Strand
    <3>2. QED
      BY <3>1, <2>1, <1>1
  <2>2. CASE ~(closers[k].conn = c /\ closers[k].pc \in pcs)
    BY <2>2 DEF Strand
  <2>3. QED
    BY <2>1, <2>2
<1>5. QED
  BY <1>3, <1>4

-----------------------------------------------------------------------------
(* The ends of close() and closeConnectionAndReconnect. *)

(* Activation k goes on; only a Shutdown ever leaves idle at Shutdown, and the
   promise is p or cleared. *)
GoesOn(k, p) ==
  /\ closers' \in [Closers -> CloserRecords]
  /\ closers'[Shutdown].pc = "idle" <=> closers[Shutdown].pc = "idle" /\ k # Shutdown
  /\ connectionPromise' \in {p, NoRun}
  /\ Restarted

(* No connection or channel closes for good. *)
Kept(state, next) ==
  /\ next \in [Conns -> LinkStates]
  /\ \A c \in Conns : state[c] # "closed" => next[c] # "closed"

LEMMA MovesOn ==
  ASSUME TypeOK, NEW k \in Closers, NEW pc \in CloserPcs, pc # "idle" \/ k # Shutdown,
         NEW c \in Conns \cup {NoConn}, closers' = [closers EXCEPT ![k] = At(pc, c)]
  PROVE  /\ closers' \in [Closers -> CloserRecords]
         /\ closers'[Shutdown].pc = "idle" <=> closers[Shutdown].pc = "idle" /\ k # Shutdown
<1>1. At(pc, c) \in CloserRecords /\ At(pc, c).pc = pc
  BY RecordsTyped
<1>2. closers \in [Closers -> CloserRecords] /\ Shutdown \in Closers
  BY DEF TypeOK, CloserRecords, Closers
<1>3. closers' \in [Closers -> CloserRecords]
  BY <1>1, <1>2
<1>4. closers'[k] = At(pc, c) /\ (k # Shutdown => closers'[Shutdown] = closers[Shutdown])
  BY <1>2
<1>5. QED
  BY <1>1, <1>3, <1>4

LEMMA FinishGoesOn ==
  ASSUME TypeOK, NEW k \in Closers, NEW p, Finish(k, p)
  PROVE  GoesOn(k, p)
<1>1. "done" \in CloserPcs /\ "idle" \in CloserPcs
  BY DEF CloserPcs
<1>2. CASE k = Shutdown
  <2>1. closers' = [closers EXCEPT ![k] = At("done", NoConn)]
    BY <1>2 DEF Finish
  <2>2. connectionPromise' = p /\ Restarted
    BY <1>2, ReconnectRestarts DEF Finish
  <2>3. QED
    BY <1>1, <2>1, <2>2, MovesOn DEF GoesOn
<1>3. CASE k # Shutdown
  <2>1. closers' = [closers EXCEPT ![k] = At("idle", NoConn)]
    BY <1>3 DEF Finish
  <2>2. connectionPromise' = NoRun /\ Restarted
    BY <1>3, ReconnectRestarts DEF Finish
  <2>3. QED
    BY <1>1, <1>3, <2>1, <2>2, MovesOn DEF GoesOn
<1>4. QED
  BY <1>2, <1>3

LEMMA CloseConnectionGoesOn ==
  ASSUME TypeOK, NEW k \in Closers, NEW p, CloseConnection(k, p)
  PROVE  GoesOn(k, p) /\ Kept(link, link')
<1>1. link \in [Conns -> LinkStates] /\ connection \in Conns \cup {NoConn}
  BY DEF TypeOK
<1>2. CASE connection = NoConn
  BY <1>1, <1>2, FinishGoesOn DEF CloseConnection, Kept
<1>3. CASE connection # NoConn
  <2>1. connectionPromise' = p /\ Restarted
    BY <1>3, ReconnectRestarts DEF CloseConnection
  <2>2. \E pc \in CloserPcs, c \in Conns \cup {NoConn} :
          pc # "idle" /\ closers' = [closers EXCEPT ![k] = At(pc, c)]
    BY <1>1, <1>3 DEF CloseConnection, CloserPcs
  <2>3. Kept(link, link')
    BY <1>1, <1>3 DEF CloseConnection, Kept, LinkStates
  <2>4. QED
    BY <2>1, <2>2, <2>3, MovesOn DEF GoesOn
<1>4. QED
  BY <1>2, <1>3

LEMMA CloseChannelGoesOn ==
  ASSUME TypeOK, NEW k \in Closers, NEW p, CloseChannel(k, p)
  PROVE  GoesOn(k, p) /\ Kept(link, link') /\ Kept(chan, chan')
<1>1. /\ link \in [Conns -> LinkStates] /\ chan \in [Conns -> LinkStates]
      /\ channel \in Conns \cup {NoConn}
  BY DEF TypeOK
<1>2. CASE channel = NoConn
  BY <1>1, <1>2, CloseConnectionGoesOn DEF CloseChannel, Kept
<1>3. CASE channel # NoConn
  <2>1. connectionPromise' = p /\ Restarted
    BY <1>3, ReconnectRestarts DEF CloseChannel
  <2>2. \E pc \in CloserPcs, c \in Conns \cup {NoConn} :
          pc # "idle" /\ closers' = [closers EXCEPT ![k] = At(pc, c)]
    BY <1>1, <1>3 DEF CloseChannel, CloserPcs
  <2>3. Kept(chan, chan') /\ Kept(link, link')
    BY <1>1, <1>3 DEF CloseChannel, Kept, LinkStates
  <2>4. QED
    BY <2>1, <2>2, <2>3, MovesOn DEF GoesOn
<1>4. QED
  BY <1>2, <1>3

-----------------------------------------------------------------------------
(* One lemma per action, or per group of actions that write the same variables. *)

LEMMA InitInv == Init => IInv
<1>1. SUFFICES ASSUME Init PROVE IInv
  OBVIOUS
<1>2. Ended \in RunRecords /\ Ended.pc = "idle"
  BY RecordsTyped
<1>3. At("idle", NoConn) \in CloserRecords /\ At("idle", NoConn).pc = "idle"
  BY RecordsTyped DEF CloserPcs
<1>4. /\ runs \in [Runs -> RunRecords]
      /\ \A r \in Runs : runs[r].pc = "idle"
  BY <1>1, <1>2 DEF Init
<1>5. /\ closers \in [Closers -> CloserRecords]
      /\ closers[Shutdown].pc = "idle"
  BY <1>1, <1>3 DEF Init, Closers
<1>6. link \in [Conns -> LinkStates] /\ chan \in [Conns -> LinkStates]
  BY <1>1 DEF Init, LinkStates
<1>7. TypeOK
  BY <1>1, <1>4, <1>5, <1>6 DEF Init, TypeOK, RunRecords, CloserRecords
<1>8. RunsAwait
  BY <1>4 DEF RunsAwait
<1>9. ClosingFromShutdown /\ PromiseIsPending /\ NoDeadReference
  BY <1>1, <1>5 DEF Init, ClosingFromShutdown, PromiseIsPending, NoDeadReference
<1>10. QED
  BY <1>7, <1>8, <1>9 DEF IInv

LEMMA ConnectInv ==
  ASSUME IInv, NEW r \in Runs, Connect(r)
  PROVE  IInv'
<1>1. TypeOK /\ runs \in [Runs -> RunRecords]
  BY DEF IInv, TypeOK, RunRecords
<1>2. ~isClosing /\ isClosing' = FALSE /\ closers[Shutdown].pc = "idle" /\ UNCHANGED closers
  BY DEF IInv, ClosingFromShutdown, Connect
<1>3. Restarted
  BY <1>1, RecordsTyped DEF Connect, Restarted
<1>4. TypeOK'
  <2>1. runs' \in [Runs -> RunRecords] /\ calls' \in Nat
    BY <1>1, <1>3 DEF Connect, TypeOK, Restarted
  <2>2. /\ connectionPromise' \in Runs \cup {NoRun} /\ isClosing' \in BOOLEAN
        /\ UNCHANGED <<connection, channel, closers, link, chan, gaveUp, losses>>
    BY DEF Connect, broker
  <2>3. QED
    BY <1>1, <2>1, <2>2 DEF TypeOK, RunRecords
<1>5. RunsAwait'
  BY <1>3, RestartedKeeps DEF IInv
<1>6. ClosingFromShutdown'
  BY <1>2 DEF ClosingFromShutdown
<1>7. PromiseIsPending'
  BY <1>1, RecordsTyped DEF Connect, PromiseIsPending
<1>8. NoDeadReference'
  BY <1>2 DEF IInv, Connect, NoDeadReference, broker
<1>9. QED
  BY <1>4, <1>5, <1>6, <1>7, <1>8 DEF IInv

(* What a run changes about itself keeps the other runs' part of the invariant. *)
LEMMA RunMoves ==
  ASSUME IInv, NEW r \in Runs, NEW new \in RunRecords,
         runs' = [runs EXCEPT ![r] = new], UNCHANGED isClosing,
         connectionPromise' \in {connectionPromise, NoRun},
         new.pc = "waiting" => new.attempt < MaxRetries,
         new.pc \in {"creating_channel", "asserting"} => new.conn \in Conns,
         new.pc = "asserting" => new.left # 0,
         new.pc # "idle" \/ isClosing \/ connectionPromise' = NoRun
  PROVE  /\ runs' \in [Runs -> RunRecords]
         /\ RunsAwait' /\ PromiseIsPending'
<1>1. runs \in [Runs -> RunRecords] /\ connectionPromise \in Runs \cup {NoRun}
  BY DEF IInv, TypeOK, RunRecords
<1>2. runs' \in [Runs -> RunRecords]
  BY <1>1
<1>3. RunsAwait'
  BY <1>1 DEF IInv, RunsAwait
<1>4. new.pc # "idle" => new # Ended
  BY RecordsTyped
<1>5. PromiseIsPending'
  BY <1>1, <1>4 DEF IInv, PromiseIsPending
<1>6. QED
  BY <1>2, <1>3, <1>5

LEMMA FailAttemptMoves ==
  ASSUME IInv, NEW r \in Runs, FailAttempt(r), UNCHANGED isClosing
  PROVE  /\ runs' \in [Runs -> RunRecords]
         /\ RunsAwait' /\ PromiseIsPending'
         /\ connectionPromise' \in {connectionPromise, NoRun}
         /\ gaveUp' \in BOOLEAN
<1>1. Ended \in RunRecords /\ Ended.pc = "idle"
  BY RecordsTyped DEF Ended
<1>2. runs \in [Runs -> RunRecords] /\ gaveUp \in BOOLEAN
  BY DEF IInv, TypeOK, RunRecords
<1>3. /\ connectionPromise' \in {connectionPromise, NoRun}
      /\ gaveUp' \in BOOLEAN
  BY <1>2 DEF FailAttempt, GiveUp
<1>4. CASE isClosing \/ ~(runs[r].attempt < MaxRetries)
  <2>1. /\ runs' = [runs EXCEPT ![r] = Ended]
        /\ isClosing \/ connectionPromise' = NoRun
    BY <1>4 DEF FailAttempt, GiveUp
  <2>2. QED
    BY <1>1, <1>3, <2>1, RunMoves
<1>5. CASE ~isClosing /\ runs[r].attempt < MaxRetries
  <2> DEFINE new == Await("waiting", runs[r].attempt, NoConn, 0)
  <2>1. runs' = [runs EXCEPT ![r] = new]
    BY <1>5 DEF FailAttempt
  <2>2. new \in RunRecords /\ new.pc = "waiting" /\ new.attempt < MaxRetries
    BY <1>2, <1>5 DEF RunRecords, RunPcs, Await
  <2> HIDE DEF new
  <2>3. QED
    BY <1>3, <2>1, <2>2, RunMoves
<1>6. QED
  BY <1>3, <1>4, <1>5

(* Steps of a run that leave connections and the closing alone. *)
LEMMA FailingRunInv ==
  ASSUME IInv, NEW r \in Runs, FailAttempt(r),
         UNCHANGED <<connection, channel, isClosing, closers, broker, calls, losses>>
  PROVE  IInv'
<1>1. /\ connectionPromise' \in Runs \cup {NoRun}
      /\ runs' \in [Runs -> RunRecords] /\ gaveUp' \in BOOLEAN
      /\ RunsAwait' /\ PromiseIsPending'
  BY FailAttemptMoves DEF IInv, TypeOK
<1>2. UNCHANGED <<connection, channel, isClosing, closers, link, chan, calls, losses>>
  BY DEF broker
<1>3. TypeOK'
  BY <1>1, <1>2 DEF IInv, TypeOK, RunRecords
<1>4. ClosingFromShutdown' /\ NoDeadReference'
  BY <1>2 DEF IInv, ClosingFromShutdown, NoDeadReference
<1>5. QED
  BY <1>1, <1>3, <1>4 DEF IInv

LEMMA ConnectSucceedsInv ==
  ASSUME IInv, NEW r \in Runs, ConnectSucceeds(r)
  PROVE  IInv'
<1>1. PICK c \in FreeConns :
        /\ link' = [link EXCEPT ![c] = "open"]
        /\ connection' = c
        /\ runs' = [runs EXCEPT ![r] = Await("creating_channel", @.attempt, c, 0)]
  BY DEF ConnectSucceeds
<1>2. UNCHANGED <<channel, connectionPromise, isClosing, closers, chan, gaveUp, calls, losses>>
  BY DEF ConnectSucceeds, counters
<1>3. c \in Conns
  BY DEF FreeConns
<1> DEFINE new == Await("creating_channel", runs[r].attempt, c, 0)
<1>4. runs \in [Runs -> RunRecords]
  BY DEF IInv, TypeOK, RunRecords
<1>5. new \in RunRecords /\ new.pc = "creating_channel" /\ new.conn = c
  BY <1>3, <1>4 DEF RunRecords, RunPcs, Await
<1>6. runs' = [runs EXCEPT ![r] = new]
  BY <1>1
<1> HIDE DEF new
<1>7. runs' \in [Runs -> RunRecords] /\ RunsAwait' /\ PromiseIsPending'
  BY <1>2, <1>3, <1>5, <1>6, RunMoves
<1>8. TypeOK'
  BY <1>1, <1>2, <1>3, <1>7 DEF IInv, TypeOK, RunRecords, LinkStates
<1>9. ClosingFromShutdown' /\ NoDeadReference'
  BY <1>1, <1>2, <1>3 DEF IInv, TypeOK, ClosingFromShutdown, NoDeadReference
<1>10. QED
  BY <1>7, <1>8, <1>9 DEF IInv

LEMMA CreateChannelSucceedsInv ==
  ASSUME IInv, NEW r \in Runs, CreateChannelSucceeds(r)
  PROVE  IInv'
<1> DEFINE c == runs[r].conn
           new == Await("asserting", runs[r].attempt, c, Queues)
<1>1. /\ runs' = [runs EXCEPT ![r] = new]
      /\ chan' = [chan EXCEPT ![c] = "open"] /\ channel' = c
      /\ UNCHANGED <<connection, connectionPromise, isClosing, closers, link>>
      /\ UNCHANGED <<gaveUp, calls, losses>>
  BY DEF CreateChannelSucceeds, counters
<1>2. c \in Conns
  BY DEF CreateChannelSucceeds, IInv, RunsAwait
<1>3. runs \in [Runs -> RunRecords]
  BY DEF IInv, TypeOK, RunRecords
<1>4. Queues \in 0..Queues /\ Queues # 0
  OBVIOUS
<1>5. /\ new \in RunRecords /\ new.pc = "asserting"
      /\ new.conn = c /\ new.left = Queues
  BY <1>2, <1>3, <1>4 DEF RunRecords, RunPcs, Await
<1> HIDE DEF c, new
<1>6. runs' \in [Runs -> RunRecords] /\ RunsAwait' /\ PromiseIsPending'
  BY <1>1, <1>2, <1>4, <1>5, RunMoves
<1>7. TypeOK'
  BY <1>1, <1>2, <1>6 DEF IInv, TypeOK, RunRecords, LinkStates
<1>8. ClosingFromShutdown' /\ NoDeadReference'
  BY <1>1, <1>2 DEF IInv, TypeOK, ClosingFromShutdown, NoDeadReference
<1>9. QED
  BY <1>6, <1>7, <1>8 DEF IInv

LEMMA AssertSucceedsInv ==
  ASSUME IInv, NEW r \in Runs, AssertSucceeds(r)
  PROVE  IInv'
<1>1. UNCHANGED <<connection, channel, isClosing, closers, link, chan, calls, losses>>
  BY DEF AssertSucceeds, broker
<1>2. runs \in [Runs -> RunRecords]
  BY DEF IInv, TypeOK, RunRecords
<1>3. CASE runs[r].left = 1
  <2>1. /\ runs' = [runs EXCEPT ![r] = Ended]
        /\ connectionPromise' = NoRun /\ gaveUp' = gaveUp
    BY <1>3 DEF AssertSucceeds
  <2>2. runs' \in [Runs -> RunRecords] /\ RunsAwait' /\ PromiseIsPending'
    BY <1>1, <2>1, RecordsTyped, RunMoves
  <2>3. TypeOK'
    BY <1>1, <2>1, <2>2 DEF IInv, TypeOK, RunRecords
  <2>4. ClosingFromShutdown' /\ NoDeadReference'
    BY <1>1 DEF IInv, ClosingFromShutdown, NoDeadReference
  <2>5. QED
    BY <2>2, <2>3, <2>4 DEF IInv
<1>4. CASE runs[r].left # 1 /\ ChanOpen(channel)
  <2> DEFINE new == Await("asserting", runs[r].attempt, channel, runs[r].left - 1)
  <2>1. runs' = [runs EXCEPT ![r] = new] /\ UNCHANGED <<connectionPromise, gaveUp>>
    BY <1>4 DEF AssertSucceeds
  <2>2. channel \in Conns
    BY <1>4 DEF IInv, TypeOK, ChanOpen
  <2>3. runs[r].left \in 0..Queues /\ runs[r].left # 0
    BY <1>2 DEF IInv, RunsAwait, AssertSucceeds, RunRecords
  <2>4. runs[r].left - 1 \in 0..Queues /\ runs[r].left - 1 # 0
    BY <1>4, <2>3
  <2>5. /\ new \in RunRecords /\ new.pc = "asserting"
        /\ new.conn = channel /\ new.left # 0
    BY <1>2, <2>2, <2>4 DEF RunRecords, RunPcs, Await
  <2> HIDE DEF new
  <2>6. runs' \in [Runs -> RunRecords] /\ RunsAwait' /\ PromiseIsPending'
    BY <1>1, <2>1, <2>2, <2>5, RunMoves
  <2>7. TypeOK'
    BY <1>1, <2>1, <2>6 DEF IInv, TypeOK, RunRecords
  <2>8. ClosingFromShutdown' /\ NoDeadReference'
    BY <1>1 DEF IInv, ClosingFromShutdown, NoDeadReference
  <2>9. QED
    BY <2>6, <2>7, <2>8 DEF IInv
<1>5. CASE runs[r].left # 1 /\ ~ChanOpen(channel)
  BY <1>5, FailingRunInv DEF AssertSucceeds
<1>6. QED
  BY <1>3, <1>4, <1>5

LEMMA RetryDelayEndsInv ==
  ASSUME IInv, NEW r \in Runs, RetryDelayEnds(r)
  PROVE  IInv'
<1> DEFINE new == IF isClosing THEN Ended ELSE Attempt(runs[r].attempt + 1)
<1>1. /\ runs' = [runs EXCEPT ![r] = new]
      /\ UNCHANGED <<connection, channel, connectionPromise, isClosing, closers>>
      /\ UNCHANGED <<link, chan, gaveUp, calls, losses>>
  BY DEF RetryDelayEnds, module, broker, counters
<1>2. runs[r].attempt \in 0..MaxRetries /\ runs[r].attempt < MaxRetries
  BY DEF IInv, TypeOK, RunsAwait, RetryDelayEnds
<1>3. runs[r].attempt + 1 \in 0..MaxRetries /\ 0 \in 0..Queues
  BY <1>2
<1>4. ~isClosing => new \in RunRecords /\ new.pc = "connecting"
  BY <1>3 DEF Attempt, Await, RunRecords, RunPcs
<1>5. isClosing => new \in RunRecords /\ new.pc = "idle"
  BY RecordsTyped
<1> HIDE DEF new
<1>6. runs' \in [Runs -> RunRecords] /\ RunsAwait' /\ PromiseIsPending'
  BY <1>1, <1>4, <1>5, RunMoves
<1>7. TypeOK'
  BY <1>1, <1>6 DEF IInv, TypeOK, RunRecords
<1>8. ClosingFromShutdown' /\ NoDeadReference'
  BY <1>1 DEF IInv, ClosingFromShutdown, NoDeadReference
<1>9. QED
  BY <1>6, <1>7, <1>8 DEF IInv

(* The part of the invariant that the steps of closers and of losses share. *)
LEMMA TypesKept ==
  ASSUME IInv, Restarted,
         closers' \in [Closers -> CloserRecords],
         connectionPromise' \in {connectionPromise, NoRun},
         connection' \in Conns \cup {NoConn}, channel' \in Conns \cup {NoConn},
         link' \in [Conns -> LinkStates], chan' \in [Conns -> LinkStates],
         isClosing' \in BOOLEAN, gaveUp' \in BOOLEAN,
         calls' \in Nat, losses' \in Nat
  PROVE  TypeOK' /\ RunsAwait'
<1>1. TypeOK'
  BY DEF IInv, TypeOK, Restarted, RunRecords, CloserRecords
<1>2. RunsAwait'
  BY RestartedKeeps DEF IInv
<1>3. QED
  BY <1>1, <1>2

LEMMA TypesKnown ==
  ASSUME IInv
  PROVE  /\ connection \in Conns \cup {NoConn} /\ channel \in Conns \cup {NoConn}
         /\ connectionPromise \in Runs \cup {NoRun}
         /\ link \in [Conns -> LinkStates] /\ chan \in [Conns -> LinkStates]
         /\ closers \in [Closers -> CloserRecords]
         /\ isClosing \in BOOLEAN /\ gaveUp \in BOOLEAN
         /\ calls \in Nat /\ losses \in Nat
         /\ Shutdown \in Closers
BY DEF IInv, TypeOK, CloserRecords, Closers

LEMMA StartCloseInv == IInv /\ StartClose => IInv'
<1>1. SUFFICES ASSUME IInv, StartClose PROVE IInv'
  OBVIOUS
<1>2. /\ isClosing' = TRUE
      /\ UNCHANGED <<connection, channel, gaveUp, calls, losses>>
  BY <1>1 DEF StartClose, counters
<1>3. /\ Restarted /\ connectionPromise' \in {connectionPromise, NoRun}
      /\ closers' \in [Closers -> CloserRecords]
      /\ closers'[Shutdown].pc # "idle"
      /\ link' \in [Conns -> LinkStates] /\ chan' \in [Conns -> LinkStates]
  <2>1. CASE connectionPromise = NoRun
    <3>1. CloseChannel(Shutdown, NoRun)
      BY <1>1, <2>1 DEF StartClose
    <3>2. QED
      BY <1>1, <3>1, TypesKnown, CloseChannelGoesOn DEF IInv, GoesOn, Kept
  <2>2. CASE connectionPromise # NoRun
    <3> DEFINE new == [At("promise", NoConn) EXCEPT !.run = connectionPromise]
    <3>1. /\ closers' = [closers EXCEPT ![Shutdown] = new]
          /\ UNCHANGED <<connectionPromise, runs, link, chan>>
      BY <1>1, <2>2 DEF StartClose, broker
    <3>2. new \in CloserRecords /\ new.pc = "promise"
      BY <1>1, TypesKnown DEF At, CloserRecords, CloserPcs
    <3> HIDE DEF new
    <3>3. Restarted
      BY <1>1, <3>1, ReconnectRestarts DEF IInv
    <3>4. QED
      BY <1>1, <3>1, <3>2, <3>3, TypesKnown
  <2>3. QED
    BY <2>1, <2>2
<1>4. TypeOK' /\ RunsAwait'
  BY <1>1, <1>2, <1>3, TypesKnown, TypesKept
<1>5. ClosingFromShutdown' /\ PromiseIsPending' /\ NoDeadReference'
  BY <1>2, <1>3 DEF ClosingFromShutdown, PromiseIsPending, NoDeadReference
<1>6. QED
  BY <1>4, <1>5 DEF IInv

LEMMA PromiseSettlesInv == IInv /\ PromiseSettles => IInv'
<1>1. SUFFICES ASSUME IInv, PromiseSettles PROVE IInv'
  OBVIOUS
<1>2. UNCHANGED <<connection, channel, isClosing, gaveUp, calls, losses>>
  BY <1>1 DEF PromiseSettles, counters
<1>3. isClosing
  BY <1>1 DEF PromiseSettles, IInv, ClosingFromShutdown
<1>4. GoesOn(Shutdown, NoRun) /\ Kept(link, link') /\ Kept(chan, chan')
  BY <1>1, TypesKnown, CloseChannelGoesOn DEF PromiseSettles, IInv
<1>5. TypeOK' /\ RunsAwait'
  BY <1>1, <1>2, <1>4, TypesKnown, TypesKept DEF GoesOn, Kept
<1>6. ClosingFromShutdown' /\ PromiseIsPending' /\ NoDeadReference'
  BY <1>2, <1>3, <1>4 DEF GoesOn, ClosingFromShutdown, PromiseIsPending, NoDeadReference
<1>7. QED
  BY <1>5, <1>6 DEF IInv

LEMMA ChannelClosedInv ==
  ASSUME IInv, NEW k \in Closers, ChannelClosed(k)
  PROVE  IInv'
<1>1. /\ UNCHANGED <<connection, isClosing, gaveUp, calls, losses>>
      /\ channel' = NoConn
      /\ closers[k].pc # "idle"
  BY DEF ChannelClosed, counters
<1>2. GoesOn(k, connectionPromise) /\ Kept(link, link')
  BY CloseConnectionGoesOn DEF ChannelClosed, IInv
<1>3. chan' \in [Conns -> LinkStates]
  BY TypesKnown DEF ChannelClosed, LinkStates
<1>4. TypeOK' /\ RunsAwait'
  BY <1>1, <1>2, <1>3, TypesKnown, TypesKept DEF GoesOn, Kept
<1>5. ClosingFromShutdown'
  BY <1>1, <1>2 DEF IInv, GoesOn, ClosingFromShutdown
<1>6. PromiseIsPending'
  BY <1>1, <1>2, RestartedKeeps DEF IInv, GoesOn
<1>7. NoDeadReference'
  BY <1>1, <1>2, TypesKnown DEF IInv, Kept, NoDeadReference
<1>8. QED
  BY <1>4, <1>5, <1>6, <1>7 DEF IInv

LEMMA ConnectionRefusedInv ==
  ASSUME IInv, NEW k \in Closers, ConnectionRefused(k)
  PROVE  IInv'
<1>1. /\ UNCHANGED <<channel, isClosing, link, chan, gaveUp, calls, losses>>
      /\ connection' = NoConn
      /\ closers[k].pc # "idle"
  BY DEF ConnectionRefused, broker, counters
<1>2. GoesOn(k, connectionPromise)
  BY FinishGoesOn DEF ConnectionRefused, IInv
<1>3. TypeOK' /\ RunsAwait'
  BY <1>1, <1>2, TypesKnown, TypesKept DEF GoesOn
<1>4. ClosingFromShutdown'
  BY <1>1, <1>2 DEF IInv, GoesOn, ClosingFromShutdown
<1>5. PromiseIsPending'
  BY <1>1, <1>2, RestartedKeeps DEF IInv, GoesOn
<1>6. NoDeadReference'
  BY <1>1 DEF IInv, NoDeadReference
<1>7. QED
  BY <1>3, <1>4, <1>5, <1>6 DEF IInv

LEMMA ConnectionClosedInv ==
  ASSUME IInv, NEW k \in Closers, ConnectionClosed(k)
  PROVE  IInv'
<1> DEFINE c == closers[k].conn
           new == At(IF k = Shutdown THEN "done" ELSE "idle", NoConn)
<1>1. /\ closers[k].pc # "idle"
      /\ link' = [link EXCEPT ![c] = "closed"] /\ chan' = [chan EXCEPT ![c] = "closed"]
      /\ connection' = NoConn
      /\ channel' = IF isClosing THEN channel ELSE NoConn
      /\ connectionPromise' \in {connectionPromise, NoRun}
      /\ closers' = [Strand(c, {"channel"}) EXCEPT ![k] = new]
      /\ UNCHANGED <<isClosing, gaveUp, calls, losses>>
  BY DEF ConnectionClosed, counters
<1>2. Restarted
  BY ReconnectRestarts DEF ConnectionClosed, IInv
<1>3. /\ Strand(c, {"channel"}) \in [Closers -> CloserRecords]
      /\ \A j \in Closers : Strand(c, {"channel"})[j].pc = "idle" <=> closers[j].pc = "idle"
  BY StrandTyped DEF IInv
<1>4. new \in CloserRecords /\ (k = Shutdown => new.pc = "done")
  BY RecordsTyped DEF CloserPcs
<1> HIDE DEF c, new
<1>5. link' \in [Conns -> LinkStates] /\ chan' \in [Conns -> LinkStates]
  BY <1>1, TypesKnown DEF LinkStates
<1>6. /\ closers' \in [Closers -> CloserRecords]
      /\ closers'[Shutdown].pc = "idle" <=> closers[Shutdown].pc = "idle"
  BY <1>1, <1>3, <1>4, TypesKnown
<1>7. TypeOK' /\ RunsAwait'
  BY <1>1, <1>2, <1>5, <1>6, TypesKnown, TypesKept
<1>8. ClosingFromShutdown'
  BY <1>1, <1>6 DEF IInv, ClosingFromShutdown
<1>9. PromiseIsPending'
  BY <1>1, <1>2, RestartedKeeps DEF IInv
<1>10. NoDeadReference'
  BY <1>1 DEF NoDeadReference
<1>11. QED
  BY <1>7, <1>8, <1>9, <1>10 DEF IInv

(* A connection is lost: unless the adapter is closing, everything is forgotten. *)
LEMMA LossInv ==
  ASSUME IInv, Restarted,
         isClosing' = isClosing, gaveUp' \in BOOLEAN, UNCHANGED calls, losses' = losses + 1,
         closers' \in [Closers -> CloserRecords],
         closers'[Shutdown].pc = "idle" <=> closers[Shutdown].pc = "idle",
         link' \in [Conns -> LinkStates], chan' \in [Conns -> LinkStates],
         \/ isClosing /\ UNCHANGED <<connection, channel, connectionPromise>>
         \/ connection' = NoConn /\ channel' = NoConn /\ connectionPromise' = NoRun
  PROVE  IInv'
<1>1. /\ connection' \in Conns \cup {NoConn} /\ channel' \in Conns \cup {NoConn}
      /\ connectionPromise' \in {connectionPromise, NoRun}
      /\ calls' \in Nat /\ losses' \in Nat /\ isClosing' \in BOOLEAN
  BY TypesKnown
<1>2. TypeOK' /\ RunsAwait'
  BY <1>1, TypesKept
<1>3. ClosingFromShutdown'
  BY DEF IInv, ClosingFromShutdown
<1>4. PromiseIsPending' /\ NoDeadReference'
  BY DEF PromiseIsPending, NoDeadReference
<1>5. QED
  BY <1>2, <1>3, <1>4 DEF IInv

LEMMA HelperStartsTyped ==
  ASSUME IInv
  PROVE  HelperStarts \in CloserRecords
<1>1. {"channel", "channel_gone", "connection", "connection_gone", "idle"} \subseteq CloserPcs
  BY DEF CloserPcs
<1>2. connection \in Conns \cup {NoConn} /\ channel \in Conns \cup {NoConn}
  BY TypesKnown
<1>3. \E pc \in CloserPcs, c \in Conns \cup {NoConn} : HelperStarts = At(pc, c)
  BY <1>1, <1>2 DEF HelperStarts
<1>4. QED
  BY <1>3, RecordsTyped

LEMMA ConnectionFailsInv ==
  ASSUME IInv, NEW c \in Conns, ConnectionFails(c)
  PROVE  IInv'
<1> DEFINE pending == Strand(c, {"channel", "connection"})
<1>1. /\ pending \in [Closers -> CloserRecords]
      /\ \A k \in Closers : pending[k].pc = "idle" <=> closers[k].pc = "idle"
  BY StrandTyped DEF IInv
<1> HIDE DEF pending
<1>2. losses' = losses + 1 /\ UNCHANGED calls
  BY DEF ConnectionFails
<1>3. CASE isClosing
  <2>1. /\ closers' = pending
        /\ link' = [link EXCEPT ![c] = "closed"] /\ chan' = [chan EXCEPT ![c] = "closed"]
        /\ UNCHANGED <<connection, channel, connectionPromise, isClosing, runs, gaveUp>>
    BY <1>3 DEF ConnectionFails, module, pending
  <2>2. link' \in [Conns -> LinkStates] /\ chan' \in [Conns -> LinkStates]
    BY <2>1, TypesKnown DEF LinkStates
  <2>3. Restarted
    BY <2>1, ReconnectRestarts DEF IInv
  <2>4. QED
    BY <1>1, <1>2, <1>3, <2>1, <2>2, <2>3, TypesKnown, LossInv
<1>4. CASE ~isClosing
  <2>1. PICK h \in FreeHelpers : LosePending(c, h, HelperStarts)
    BY <1>4 DEF ConnectionFails
  <2>2. /\ AfterLoss(c, HelperStarts)
        /\ connection' = NoConn /\ channel' = NoConn /\ connectionPromise' = NoRun
        /\ gaveUp' \in BOOLEAN /\ isClosing' = isClosing
    BY <1>4 DEF ConnectionFails, Forget
  <2>3. Restarted
    BY <1>4, ReconnectRestarts DEF ConnectionFails, IInv
  <2>4. link' \in [Conns -> LinkStates] /\ chan' \in [Conns -> LinkStates]
    BY <2>2, TypesKnown DEF AfterLoss, LinkStates
  <2>5. h \in Closers /\ h # Shutdown
    BY DEF FreeHelpers, Closers
  <2> DEFINE new == IF HelperStarts.conn = c THEN At("stuck", NoConn) ELSE HelperStarts
  <2>6. new \in CloserRecords
    BY HelperStartsTyped, RecordsTyped DEF CloserPcs
  <2>7. closers' = [pending EXCEPT ![h] = new]
    BY <2>1 DEF LosePending, pending
  <2> HIDE DEF new
  <2>8. /\ closers' \in [Closers -> CloserRecords]
        /\ closers'[Shutdown].pc = "idle" <=> closers[Shutdown].pc = "idle"
    BY <1>1, <2>5, <2>6, <2>7, TypesKnown
  <2>9. QED
    BY <1>2, <2>2, <2>3, <2>4, <2>8, LossInv
<1>5. QED
  BY <1>3, <1>4

LEMMA ConnectionClosedByBrokerInv ==
  ASSUME IInv, NEW c \in Conns, ConnectionClosedByBroker(c)
  PROVE  IInv'
<1>1. /\ closers' = Strand(c, {"channel", "connection"})
      /\ link' = [link EXCEPT ![c] = "closed"] /\ chan' = [chan EXCEPT ![c] = "closed"]
      /\ losses' = losses + 1 /\ UNCHANGED <<isClosing, calls>>
  BY DEF ConnectionClosedByBroker
<1>2. /\ closers' \in [Closers -> CloserRecords]
      /\ closers'[Shutdown].pc = "idle" <=> closers[Shutdown].pc = "idle"
  BY <1>1, StrandTyped, TypesKnown DEF IInv
<1>3. link' \in [Conns -> LinkStates] /\ chan' \in [Conns -> LinkStates]
  BY <1>1, TypesKnown DEF LinkStates
<1>4. /\ \/ isClosing /\ UNCHANGED <<connection, channel, connectionPromise>>
         \/ connection' = NoConn /\ channel' = NoConn /\ connectionPromise' = NoRun
      /\ gaveUp' \in BOOLEAN
  BY TypesKnown DEF ConnectionClosedByBroker, HandleClosure, Forget
<1>5. Restarted
  BY ReconnectRestarts DEF ConnectionClosedByBroker, HandleClosure, IInv
<1>6. QED
  BY <1>1, <1>2, <1>3, <1>4, <1>5, LossInv

LEMMA StutterInv == IInv /\ UNCHANGED vars => IInv'
BY DEF vars, module, broker, counters, IInv, TypeOK, RunsAwait, ClosingFromShutdown,
       PromiseIsPending, NoDeadReference

LEMMA NextInv == IInv /\ [Next]_vars => IInv'
<1>1. SUFFICES ASSUME IInv, [Next]_vars PROVE IInv'
  OBVIOUS
<1>2. ASSUME NEW r \in Runs, Connect(r) PROVE IInv'
  BY <1>1, <1>2, ConnectInv
<1>3. ASSUME NEW r \in Runs, RunStep(r) PROVE IInv'
  <2>1. CASE ConnectFails(r)
    BY <1>1, <2>1, FailingRunInv DEF ConnectFails
  <2>2. CASE SetupRejected(r)
    BY <1>1, <2>2, FailingRunInv DEF SetupRejected
  <2>3. QED
    BY <1>1, <1>3, <2>1, <2>2, ConnectSucceedsInv, CreateChannelSucceedsInv,
       AssertSucceedsInv, RetryDelayEndsInv DEF RunStep
<1>4. CASE StartClose \/ PromiseSettles
  BY <1>1, <1>4, StartCloseInv, PromiseSettlesInv
<1>5. ASSUME NEW k \in Closers, CloserStep(k) PROVE IInv'
  BY <1>1, <1>5, ChannelClosedInv, ConnectionRefusedInv, ConnectionClosedInv DEF CloserStep
<1>6. ASSUME NEW c \in Conns, ConnectionFails(c) \/ ConnectionClosedByBroker(c) PROVE IInv'
  BY <1>1, <1>6, ConnectionFailsInv, ConnectionClosedByBrokerInv
<1>7. CASE Rest \/ UNCHANGED vars
  BY <1>1, <1>7, StutterInv DEF Rest
<1>8. QED
  BY <1>1, <1>2, <1>3, <1>4, <1>5, <1>6, <1>7 DEF Next

LEMMA Inductive == Spec => []IInv
<1>1. QED
  BY InitInv, NextInv, PTL DEF Spec

-----------------------------------------------------------------------------
(* Why no loss goes unnoticed: while the adapter has no open channel, somebody is on the
   way to one.  A run that asserts queues is not counted: the channel it had may have been
   forgotten, and then whoever forgot it has started another. *)

Setting == {"connecting", "creating_channel", "waiting"}

Closing == {"channel", "channel_gone", "connection", "connection_gone"}

Tended ==
  \/ ChanOpen(channel)
  \/ \E r \in Runs : runs[r].pc \in Setting
  \/ \E h \in Helpers : closers[h].pc \in Closing

TendedInv == calls > 0 /\ ~isClosing /\ ~gaveUp => Tended

LEMMA ReconnectBegins ==
  ASSUME NEW n \in Nat \ {0}, Reconnect(n)
  PROVE  Tended'
<1>1. PICK new \in SUBSET FreeRuns :
        /\ Cardinality(new) = n
        /\ runs' = [r \in Runs |-> IF r \in new THEN Begun ELSE runs[r]]
  BY DEF Reconnect
<1>2. new # {}
  BY <1>1, FS_EmptySet
<1>3. PICK r \in Runs : r \in new
  BY <1>2 DEF FreeRuns
<1>4. runs'[r] = Begun
  BY <1>1, <1>3
<1>5. runs'[r].pc \in Setting
  BY <1>4, RecordsTyped DEF Setting
<1> QED BY <1>5 DEF Tended

(* A failed attempt is repeated, or it was the last one. *)
LEMMA FailAttemptTends ==
  ASSUME IInv, NEW r \in Runs, FailAttempt(r), ~isClosing, ~gaveUp'
  PROVE  Tended'
<1>1. runs \in [Runs -> RunRecords]
  BY DEF IInv, TypeOK, RunRecords
<1>2. runs' = [runs EXCEPT ![r] = Await("waiting", runs[r].attempt, NoConn, 0)]
  BY DEF FailAttempt, GiveUp
<1>3. runs'[r].pc = "waiting"
  BY <1>1, <1>2 DEF Await
<1> QED BY <1>3 DEF Tended, Setting

(* The helper goes on to its next await, or ends with a new run. *)
LEMMA FinishTends ==
  ASSUME NEW k \in Helpers, NEW p, Finish(k, p), ~isClosing
  PROVE  Tended'
<1>1. Reconnect(1)
  BY NullsAreNoMembers DEF Finish
<1> QED BY <1>1, ReconnectBegins

LEMMA CloseConnectionTends ==
  ASSUME IInv, NEW k \in Helpers, NEW p, CloseConnection(k, p), ~isClosing
  PROVE  Tended'
<1>1. CASE connection = NoConn
  BY <1>1, FinishTends DEF CloseConnection
<1>2. CASE connection # NoConn
  <2>1. DOMAIN closers = Closers /\ k \in Closers
    BY DEF IInv, TypeOK, Closers
  <2>2. closers'[k].pc \in Closing
    BY <1>2, <2>1 DEF CloseConnection, At, Closing
  <2> QED BY <2>2 DEF Tended
<1> QED BY <1>1, <1>2

(* The steps of a run: it goes on towards a channel, or has made one. *)
LEMMA RunTends ==
  ASSUME IInv, TendedInv, NEW r \in Runs, RunStep(r)
  PROVE  TendedInv'
<1>1. SUFFICES ASSUME calls' > 0, ~isClosing', ~gaveUp' PROVE Tended'
  BY DEF TendedInv
<1>2. /\ runs \in [Runs -> RunRecords]
      /\ ~isClosing
      /\ UNCHANGED <<calls, closers>>
  BY <1>1 DEF IInv, TypeOK, RunRecords, RunStep, ConnectFails, ConnectSucceeds, CreateChannelSucceeds,
     AssertSucceeds, SetupRejected, RetryDelayEnds, module, counters
<1>3. CASE FailAttempt(r)
  BY <1>1, <1>2, <1>3, FailAttemptTends
<1>4. CASE ConnectSucceeds(r)
  <2>1. runs'[r].pc = "creating_channel"
    BY <1>2, <1>4 DEF ConnectSucceeds, Await
  <2> QED BY <2>1 DEF Tended, Setting
<1>5. CASE CreateChannelSucceeds(r)
  <2>1. channel' = runs[r].conn /\ runs[r].conn \in Conns
    BY <1>5 DEF CreateChannelSucceeds, IInv, RunsAwait
  <2>2. link'[runs[r].conn] = "open" /\ chan'[runs[r].conn] = "open"
    BY <1>5, <2>1 DEF CreateChannelSucceeds, IInv, TypeOK
  <2> QED BY <2>1, <2>2, NullsAreNoMembers DEF Tended, ChanOpen
<1>6. CASE AssertSucceeds(r) /\ ~FailAttempt(r)
  <2>1. UNCHANGED <<channel, link, chan, closers, gaveUp>> /\ runs[r].pc = "asserting"
    BY <1>6 DEF AssertSucceeds, broker
  <2>2. \A q \in Runs \ {r} : runs'[q] = runs[q]
    BY <1>2, <1>6 DEF AssertSucceeds
  <2>3. Tended
    BY <1>1, <1>2, <2>1 DEF TendedInv
  <2>4. ASSUME NEW q \in Runs, runs[q].pc \in Setting PROVE runs'[q].pc \in Setting
    <3>1. q # r
      BY <2>1, <2>4 DEF Setting
    <3> QED BY <2>2, <2>4, <3>1
  <2> QED BY <2>1, <2>3, <2>4 DEF Tended, ChanOpen
<1>7. CASE RetryDelayEnds(r)
  <2>1. runs'[r].pc = "connecting"
    BY <1>2, <1>7 DEF RetryDelayEnds, Attempt, Await
  <2> QED BY <2>1 DEF Tended, Setting
<1>8. CASE ConnectFails(r) \/ SetupRejected(r)
  BY <1>3, <1>8 DEF ConnectFails, SetupRejected
<1> QED BY <1>3, <1>4, <1>5, <1>6, <1>7, <1>8 DEF RunStep

(* The steps of a helper: it has taken the connection down, and reconnects. *)
LEMMA CloserTends ==
  ASSUME IInv, NEW k \in Closers, CloserStep(k)
  PROVE  TendedInv'
<1>1. SUFFICES ASSUME ~isClosing' PROVE Tended'
  BY DEF TendedInv
<1>2. ~isClosing /\ closers[k].pc # "idle"
  BY <1>1 DEF CloserStep, ChannelClosed, ConnectionRefused, ConnectionClosed
<1>3. k \in Helpers
  BY <1>2 DEF IInv, ClosingFromShutdown, Closers
<1>4. CASE ChannelClosed(k)
  BY <1>2, <1>3, <1>4, CloseConnectionTends DEF ChannelClosed
<1>5. CASE ConnectionRefused(k)
  BY <1>2, <1>3, <1>5, FinishTends DEF ConnectionRefused
<1>6. CASE ConnectionClosed(k)
  <2>1. Reconnect(2)
    BY <1>2, <1>6 DEF ConnectionClosed
  <2> QED BY <2>1, ReconnectBegins
<1> QED BY <1>4, <1>5, <1>6 DEF CloserStep

LEMMA TendedStep == IInv /\ TendedInv /\ [Next]_vars => TendedInv'
<1>1. SUFFICES ASSUME IInv, TendedInv, [Next]_vars PROVE TendedInv'
  OBVIOUS
<1>2. ASSUME NEW r \in Runs, Connect(r) PROVE TendedInv'
  <2>1. runs'[r] = Begun
    BY <1>1, <1>2 DEF Connect, IInv, TypeOK
  <2> QED BY <2>1, RecordsTyped DEF TendedInv, Tended, Setting
<1>3. ASSUME NEW c \in Conns, ConnectionFails(c) \/ ConnectionClosedByBroker(c) PROVE TendedInv'
  <2>1. isClosing' \/ Reconnect(1) \/ Reconnect(2)
    BY <1>3 DEF ConnectionFails, ConnectionClosedByBroker, HandleClosure, module
  <2> QED BY <2>1, ReconnectBegins DEF TendedInv
<1>4. CASE StartClose \/ PromiseSettles
  <2>1. isClosing'
    BY <1>1, <1>4 DEF StartClose, PromiseSettles, IInv, ClosingFromShutdown
  <2> QED BY <2>1 DEF TendedInv
<1>5. CASE UNCHANGED vars
  BY <1>1, <1>5 DEF vars, module, broker, counters, TendedInv, Tended, ChanOpen
<1> QED
  BY <1>1, <1>2, <1>3, <1>4, <1>5, RunTends, CloserTends DEF Next, Rest

LEMMA TendedAlways == Spec => []TendedInv
<1>1. Init => TendedInv
  BY DEF Init, TendedInv
<1> QED BY <1>1, TendedStep, Inductive, PTL DEF Spec

-----------------------------------------------------------------------------
(* No variable leaves its type: no run of connectWithRetry makes more than MAX_RETRIES
   attempts, whatever fails and whenever. *)
THEOREM AdapterTypeCorrect == Spec => []TypeOK
<1>1. IInv => TypeOK
  BY DEF IInv
<1>2. QED
  BY <1>1, Inductive, PTL

(* connect() never waits for an attempt that is over. *)
THEOREM AdapterPromiseIsPending == Spec => []PromiseIsPending
<1>1. IInv => PromiseIsPending
  BY DEF IInv
<1>2. QED
  BY <1>1, Inductive, PTL

(* Until it is closed the adapter refers to no dead connection or channel, however many
   runs, helpers and losses overlap. *)
THEOREM AdapterNoDeadReference == Spec => []NoDeadReference
<1>1. IInv => NoDeadReference
  BY DEF IInv
<1>2. QED
  BY <1>1, Inductive, PTL

(* Whenever nothing is under way, the adapter that was asked to connect has an open channel
   or has used up its attempts, for any number of connections lost in any order. *)
THEOREM AdapterNeverSilentlyDown == Spec => []NeverSilentlyDown
<1>1. TendedInv => NeverSilentlyDown
  BY DEF TendedInv, NeverSilentlyDown, Tended, AtRest, Ended, Await, Setting, Closing, Closers
<1>2. QED
  BY <1>1, TendedAlways, PTL

=============================================================================
