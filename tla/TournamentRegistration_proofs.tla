--------------------- MODULE TournamentRegistration_proofs ---------------------
(***************************************************************************)
(* Proofs about TournamentRegistration and TournamentTurns, for any finite *)
(* number of players and of requests in progress, and any sizes and fees.  *)
(***************************************************************************)
EXTENDS TournamentTurns, FiniteSetTheorems, TLAPS

\* Request h moved, and nothing else did, as far as handlers go.
Moved(h) == \A g \in Handlers \ {h} : handlers'[g] = handlers[g]

(* The sets that are counted are finite, before and after a step. *)
LEMMA CountedSetsAreFinite ==
  /\ IsFiniteSet(Counting) /\ IsFiniteSet(Registered)
  /\ IsFiniteSet(Counting') /\ IsFiniteSet(Registered')
<1>1. Counting \subseteq Handlers /\ Counting' \subseteq Handlers
  BY DEF Counting
<1>2. Registered \subseteq Users /\ Registered' \subseteq Users
  BY DEF Registered
<1> QED
  BY <1>1, <1>2, FinitelyMany, FS_Subset

(* A request that is not at its increment after its step is not counted any more. *)
LEMMA LeavesCounting ==
  ASSUME NEW h \in Handlers, Moved(h), handlers'[h].pc # "increment"
  PROVE  /\ Cardinality(Counting') \in Nat /\ Cardinality(Counting) \in Nat
         /\ Cardinality(Counting') =
              IF handlers[h].pc = "increment" THEN Cardinality(Counting) - 1
                                              ELSE Cardinality(Counting)
<1>1. Counting' = Counting \ {h}
  BY DEF Counting, Moved
<1>2. h \in Counting <=> handlers[h].pc = "increment"
  BY DEF Counting
<1> QED
  BY <1>1, <1>2, CountedSetsAreFinite, FS_RemoveElement, FS_CardinalityType

(* A request that arrives at its increment is counted from then on. *)
LEMMA JoinsCounting ==
  ASSUME NEW h \in Handlers, Moved(h), handlers'[h].pc = "increment",
         handlers[h].pc # "increment"
  PROVE  /\ Cardinality(Counting') \in Nat /\ Cardinality(Counting) \in Nat
         /\ Cardinality(Counting') = Cardinality(Counting) + 1
<1>1. Counting' = Counting \cup {h}
  BY DEF Counting, Moved
<1>2. h \notin Counting
  BY DEF Counting
<1> QED
  BY <1>1, <1>2, CountedSetsAreFinite, FS_AddElement, FS_CardinalityType

(* Storing the registration of a player who has none adds one registration. *)
LEMMA StoringRegisters ==
  ASSUME NEW u \in Users, NEW e \in EntryIds, TypeOK, entry[u] = NoEntry,
         entry' = [entry EXCEPT ![u] = e]
  PROVE  /\ Cardinality(Registered) \in Nat
         /\ Cardinality(Registered') = Cardinality(Registered) + 1
<1>1. Registered' = Registered \cup {u} /\ u \notin Registered
  BY NullsAreNotValues DEF Registered, TypeOK
<1> QED
  BY <1>1, CountedSetsAreFinite, FS_AddElement, FS_CardinalityType

(* Deleting the registration of a player takes away one registration at most. *)
LEMMA DeletingUnregisters ==
  ASSUME NEW u \in Users, TypeOK,
         \A v \in Users \ {u} : entry'[v] = entry[v]
  PROVE  /\ Cardinality(Registered) \in Nat /\ Cardinality(Registered') \in Nat
         /\ Cardinality(Registered') >= Cardinality(Registered) - 1
<1>1. Registered \ {u} \subseteq Registered'
  BY DEF Registered
<1>2. Cardinality(Registered) \in Nat /\ Cardinality(Registered') \in Nat
  BY CountedSetsAreFinite, FS_CardinalityType
<1>3. Cardinality(Registered \ {u}) \in {Cardinality(Registered), Cardinality(Registered) - 1}
  BY CountedSetsAreFinite, FS_RemoveElement
<1>4. Cardinality(Registered \ {u}) <= Cardinality(Registered')
  BY <1>1, CountedSetsAreFinite, FS_Subset
<1> QED
  BY <1>2, <1>3, <1>4

-----------------------------------------------------------------------------
(* The initial state satisfies the inductive invariant. *)
LEMMA InitRegistrationInv == Init => RegistrationInv
<1> SUFFICES ASSUME Init PROVE RegistrationInv
  OBVIOUS
<1> USE DEF Init, Idle, NoRow, NewTournament
<1>1. TypeOK
  BY ParametersTyped DEF TypeOK, Row, Statuses, HandlerPcs
<1>2. Registered = {} /\ Counting = {}
  BY DEF Registered, Counting
<1>3. \A h \in Handlers : handlers[h].pc \notin WithUser
  BY DEF WithUser
<1> QED
  BY <1>1, <1>2, <1>3, FS_EmptySet DEF RegistrationInv

(* A request begins with a user where it acts for one, never in the middle of a
   registration, and changes nothing else. *)
LEMMA StartBegins ==
  ASSUME TypeOK, NEW h \in Handlers, Start(h)
  PROVE  \E pc \in HandlerPcs, u \in Users \cup {NoUser}, seen \in Row :
           /\ Begin(h, pc, u, seen)
           /\ pc # "increment"
           /\ pc \in WithUser => u \in Users
           /\ UNCHANGED <<tournament, entry, balance, due, failures>>
<1> USE DEF HandlerPcs, WithUser, Row
<1>0. /\ tournament \in Row
      /\ \A to \in Statuses, fee \in Nat :
           [NoRow EXCEPT !.status = to] \in Row /\ [NoRow EXCEPT !.fee = fee] \in Row
  BY DEF TypeOK, NoRow, NewTournament, Statuses
<1>1. CASE \E u \in Users : StartRegistration(h, u)
  BY <1>0, <1>1 DEF StartRegistration
<1>2. CASE \E u \in Users : StartRemoval(h, u)
  BY <1>0, <1>2 DEF StartRemoval
<1>3. CASE \E to \in Statuses : ChangeStatus(h, to)
  BY <1>0, <1>3 DEF ChangeStatus
<1>4. CASE \E max \in Sizes, fee \in Fees : UpdateDetails(h, max, fee)
  <2>1. PICK max \in Sizes, fee \in Fees : UpdateDetails(h, max, fee)
    BY <1>4
  <2>2. max \in Nat /\ fee \in Nat
    BY ParametersTyped
  <2>3. [tournament EXCEPT !.max = max, !.fee = fee] \in Row
    BY <1>0, <2>2
  <2> QED BY <2>1, <2>3 DEF UpdateDetails
<1> QED BY <1>1, <1>2, <1>3, <1>4 DEF Start

(* Every step keeps every variable in its type; in particular no wallet is debited
   below zero. *)
LEMMA StepTypeOK ==
  ASSUME RegistrationInv, [Next]_vars
  PROVE  TypeOK'
<1> USE ParametersTyped DEF TypeOK, Row
<1> TypeOK BY DEF RegistrationInv
<1> DEFINE Rec == [pc : HandlerPcs, user : Users \cup {NoUser},
                   entry : EntryIds \cup {NoEntry}, seen : Row]
<1>1. Idle \in Rec
  BY DEF Idle, NoRow, NewTournament, Statuses, HandlerPcs
<1>2. ASSUME NEW h \in Handlers, NEW u \in Users \cup {NoUser}, NEW seen \in Row,
             NEW pc \in HandlerPcs, Begin(h, pc, u, seen)
      PROVE  handlers' \in [Handlers -> Rec]
  BY <1>2 DEF Begin
<1>3. CASE UNCHANGED vars
  BY <1>3 DEF vars
<1>4. ASSUME NEW h \in Handlers, Start(h)
      PROVE  TypeOK'
  <2>1. PICK pc \in HandlerPcs, u \in Users \cup {NoUser}, seen \in Row :
          /\ Begin(h, pc, u, seen)
          /\ UNCHANGED <<tournament, entry, balance, due, failures>>
    BY <1>4, StartBegins
  <2> QED BY <1>2, <2>1
<1>5. ASSUME NEW h \in Handlers, Continue(h)
      PROVE  TypeOK'
  <2> USE DEF HandlerPcs, Goto, Finish
  <2>0. /\ handlers[h] \in Rec
        /\ handlers[h].pc \in WithUser => handlers[h].user \in Users
    BY DEF RegistrationInv
  <2>1. CASE CheckEntry(h)
    BY <1>1, <2>0, <2>1 DEF CheckEntry
  <2>2. CASE CheckFunds(h)
    BY <1>1, <2>0, <2>2 DEF CheckFunds
  <2>3. CASE Debit(h)
    <3>1. handlers[h].user \in Users /\ handlers[h].seen.fee \in Nat
      BY <2>0, <2>3 DEF Debit, WithUser
    <3>2. balance' \in [Users -> Nat]
      BY <2>3, <3>1 DEF Debit
    <3> QED BY <1>1, <2>0, <2>3, <3>2 DEF Debit
  <2>4. CASE CreateEntry(h)
    <3>1. handlers[h].user \in Users /\ handlers[h].seen.fee \in Nat
      BY <2>0, <2>4 DEF CreateEntry, WithUser
    <3>2. due' \in [Users -> Nat] /\ entry' \in [Users -> EntryIds \cup {NoEntry}]
      BY <2>4, <3>1 DEF CreateEntry, FreshEntries
    <3> QED BY <1>1, <2>0, <2>4, <3>2 DEF CreateEntry
  <2>5. CASE IncrementCount(h)
    BY <1>1, <2>5 DEF IncrementCount
  <2>6. CASE FindEntry(h)
    <3>1. handlers[h].user \in Users
      BY <2>0, <2>6 DEF FindEntry, WithUser
    <3> QED BY <1>1, <2>0, <2>6, <3>1 DEF FindEntry
  <2>7. CASE ReadEntry(h)
    BY <1>1, <2>0, <2>7 DEF ReadEntry
  <2>8. CASE DeleteEntry(h)
    <3>1. tournament' \in Row
      BY <2>8 DEF DeleteEntry, DecrementCount
    <3>2. entry' \in [Users -> EntryIds \cup {NoEntry}]
      BY <2>8 DEF DeleteEntry
    <3>3. handlers' \in [Handlers -> Rec]
      BY <1>1, <2>8 DEF DeleteEntry
    <3>4. balance' \in [Users -> Nat] /\ due' \in [Users -> Nat] /\ failures' \in Nat
      BY <2>8 DEF DeleteEntry
    <3> QED BY <3>1, <3>2, <3>3, <3>4
  <2>9. CASE WriteStatus(h)
    BY <1>1, <2>0, <2>9 DEF WriteStatus
  <2>10. CASE WriteDetails(h)
    BY <1>1, <2>0, <2>10 DEF WriteDetails
  <2> QED
    BY <1>5, <2>1, <2>2, <2>3, <2>4, <2>5, <2>6, <2>7, <2>8, <2>9, <2>10 DEF Continue
<1>6. ASSUME NEW h \in Handlers, RequestFails(h)
      PROVE  TypeOK'
  BY <1>1, <1>6 DEF RequestFails, Finish
<1> QED
  BY <1>3, <1>4, <1>5, <1>6 DEF Next, Quiescent

(* Every step leaves a request that acts for a player with that player. *)
LEMMA StepHasUser ==
  ASSUME RegistrationInv, [Next]_vars
  PROVE  \A h \in Handlers : handlers'[h].pc \in WithUser => handlers'[h].user \in Users
<1> USE DEF WithUser, Idle
<1> TypeOK BY DEF RegistrationInv
<1> SUFFICES ASSUME NEW g \in Handlers, handlers'[g].pc \in WithUser
             PROVE  handlers'[g].user \in Users
  OBVIOUS
<1>0. /\ handlers \in [Handlers -> [pc : HandlerPcs, user : Users \cup {NoUser},
                                    entry : EntryIds \cup {NoEntry}, seen : Row]]
      /\ handlers[g].pc \in WithUser => handlers[g].user \in Users
  BY DEF RegistrationInv, TypeOK
<1>1. CASE UNCHANGED vars
  BY <1>0, <1>1 DEF vars
<1>2. ASSUME NEW h \in Handlers, Start(h)
      PROVE  handlers'[g].user \in Users
  <2>1. PICK pc \in HandlerPcs, u \in Users \cup {NoUser}, seen \in Row :
          Begin(h, pc, u, seen) /\ (pc \in WithUser => u \in Users)
    BY <1>2, StartBegins
  <2> QED BY <1>0, <2>1 DEF Begin
<1>3. ASSUME NEW h \in Handlers, Continue(h)
      PROVE  handlers'[g].user \in Users
  <2> USE DEF Goto, Finish
  <2>1. CASE CheckEntry(h) \/ CheckFunds(h)
    BY <1>0, <2>1 DEF CheckEntry, CheckFunds
  <2>2. CASE Debit(h) \/ CreateEntry(h)
    BY <1>0, <2>2 DEF Debit, CreateEntry
  <2>3. CASE FindEntry(h)
    BY <1>0, <2>3 DEF FindEntry
  <2>4. CASE ReadEntry(h)
    BY <1>0, <2>4 DEF ReadEntry
  <2>5. CASE IncrementCount(h) \/ DeleteEntry(h) \/ WriteStatus(h) \/ WriteDetails(h)
    <3>1. handlers' = [handlers EXCEPT ![h] = Idle]
      BY <2>5 DEF IncrementCount, DeleteEntry, WriteStatus, WriteDetails
    <3> QED BY <1>0, <3>1
  <2> QED
    BY <1>3, <2>1, <2>2, <2>3, <2>4, <2>5 DEF Continue
<1>4. ASSUME NEW h \in Handlers, RequestFails(h)
      PROVE  handlers'[g].user \in Users
  BY <1>0, <1>4 DEF RequestFails, Finish
<1> QED
  BY <1>0, <1>1, <1>2, <1>3, <1>4 DEF Next, Quiescent

(* Every step keeps the count, with the increments to come, behind the registrations. *)
LEMMA StepDistance ==
  ASSUME RegistrationInv, [Next]_vars
  PROVE  (tournament.current + Cardinality(Counting) <= Cardinality(Registered))'
<1> TypeOK BY DEF RegistrationInv
<1>0. /\ tournament \in Row /\ tournament.current \in Int
      /\ handlers \in [Handlers -> [pc : HandlerPcs, user : Users \cup {NoUser},
                                    entry : EntryIds \cup {NoEntry}, seen : Row]]
      /\ tournament.current + Cardinality(Counting) <= Cardinality(Registered)
      /\ Cardinality(Registered) \in Nat
  BY CountedSetsAreFinite, FS_CardinalityType DEF RegistrationInv, TypeOK, Row
<1>1. CASE UNCHANGED vars
  <2>1. Counting' = Counting /\ Registered' = Registered
    BY <1>1 DEF vars, Counting, Registered
  <2> QED BY <1>0, <1>1, <2>1 DEF vars
<1>2. ASSUME NEW h \in Handlers, Moved(h), handlers'[h].pc # "increment",
             tournament'.current = tournament.current, entry' = entry
      PROVE  (tournament.current + Cardinality(Counting) <= Cardinality(Registered))'
  <2>1. Registered' = Registered
    BY <1>2 DEF Registered
  <2> QED BY <1>0, <1>2, <2>1, LeavesCounting
<1>3. ASSUME NEW h \in Handlers, Start(h)
      PROVE  (tournament.current + Cardinality(Counting) <= Cardinality(Registered))'
  <2>1. /\ Moved(h) /\ handlers'[h].pc # "increment"
        /\ tournament' = tournament /\ entry' = entry
    <3>1. PICK pc \in HandlerPcs, u \in Users \cup {NoUser}, seen \in Row :
            /\ Begin(h, pc, u, seen)
            /\ pc # "increment"
            /\ UNCHANGED <<tournament, entry, balance, due, failures>>
      BY <1>3, StartBegins
    <3> QED BY <1>0, <3>1 DEF Begin, Moved
  <2> QED BY <1>2, <2>1
<1>4. ASSUME NEW h \in Handlers, Continue(h)
      PROVE  (tournament.current + Cardinality(Counting) <= Cardinality(Registered))'
  <2> USE DEF Goto, Finish, Idle, Moved
  <2>1. CASE \/ CheckEntry(h) \/ CheckFunds(h) \/ Debit(h) \/ FindEntry(h) \/ ReadEntry(h)
             \/ WriteStatus(h) \/ WriteDetails(h)
    <3>1. tournament'.current = tournament.current /\ entry' = entry
      <4>1. CASE CheckEntry(h) \/ CheckFunds(h) \/ Debit(h) \/ FindEntry(h) \/ ReadEntry(h)
        BY <4>1 DEF CheckEntry, CheckFunds, Debit, FindEntry, ReadEntry
      <4>2. CASE WriteStatus(h)
        BY <1>0, <4>2 DEF WriteStatus, Row
      <4>3. CASE WriteDetails(h)
        BY <1>0, <4>3 DEF WriteDetails, Row
      <4> QED BY <2>1, <4>1, <4>2, <4>3
    <3>2. Moved(h) /\ handlers'[h].pc # "increment"
      <4>1. CASE CheckEntry(h) \/ CheckFunds(h) \/ ReadEntry(h)
        BY <1>0, <4>1 DEF CheckEntry, CheckFunds, ReadEntry
      <4>2. CASE Debit(h)
        BY <1>0, <4>2 DEF Debit
      <4>3. CASE FindEntry(h)
        BY <1>0, <4>3 DEF FindEntry
      <4>4. CASE WriteStatus(h) \/ WriteDetails(h)
        BY <1>0, <4>4 DEF WriteStatus, WriteDetails
      <4> QED BY <2>1, <4>1, <4>2, <4>3, <4>4
    <3> QED BY <1>2, <3>1, <3>2
  <2>2. CASE CreateEntry(h) /\ entry[handlers[h].user] = NoEntry
    <3>1. handlers[h].user \in Users
      BY <2>2 DEF CreateEntry, RegistrationInv, WithUser
    <3>2. PICK e \in EntryIds : entry' = [entry EXCEPT ![handlers[h].user] = e]
      BY <2>2 DEF CreateEntry, FreshEntries
    <3>3. Cardinality(Registered') = Cardinality(Registered) + 1
      BY <2>2, <3>1, <3>2, StoringRegisters
    <3>4. /\ Moved(h) /\ handlers'[h].pc = "increment" /\ handlers[h].pc # "increment"
          /\ tournament' = tournament
      BY <1>0, <2>2 DEF CreateEntry
    <3>5. /\ Cardinality(Counting) \in Nat
          /\ Cardinality(Counting') = Cardinality(Counting) + 1
      BY <3>4, JoinsCounting
    <3> QED BY <1>0, <3>3, <3>4, <3>5
  <2>3. CASE CreateEntry(h) /\ entry[handlers[h].user] # NoEntry
    <3>1. /\ Moved(h) /\ handlers'[h].pc # "increment"
          /\ tournament' = tournament /\ entry' = entry
      BY <1>0, <2>3 DEF CreateEntry
    <3> QED BY <1>2, <3>1
  <2>4. CASE IncrementCount(h)
    <3>1. /\ Moved(h) /\ handlers'[h].pc # "increment" /\ handlers[h].pc = "increment"
          /\ tournament'.current = tournament.current + 1 /\ entry' = entry
      BY <1>0, <2>4 DEF IncrementCount, Row
    <3>2. Registered' = Registered
      BY <3>1 DEF Registered
    <3> QED BY <1>0, <3>1, <3>2, LeavesCounting
  <2>5. CASE DeleteEntry(h)
    <3>1. handlers[h].user \in Users
      BY <2>5 DEF DeleteEntry, RegistrationInv, WithUser
    <3>2. /\ Moved(h) /\ handlers'[h].pc # "increment" /\ handlers[h].pc # "increment"
          /\ tournament'.current = tournament.current - 1
      BY <1>0, <2>5 DEF DeleteEntry, DecrementCount, Row
    <3>3. \A v \in Users \ {handlers[h].user} : entry'[v] = entry[v]
      BY <2>5 DEF DeleteEntry, TypeOK
    <3>4. /\ Cardinality(Registered') \in Nat
          /\ Cardinality(Registered') >= Cardinality(Registered) - 1
      BY <3>1, <3>3, DeletingUnregisters
    <3> QED BY <1>0, <3>2, <3>4, LeavesCounting
  <2> QED
    BY <1>4, <2>1, <2>2, <2>3, <2>4, <2>5 DEF Continue
<1>5. ASSUME NEW h \in Handlers, RequestFails(h)
      PROVE  (tournament.current + Cardinality(Counting) <= Cardinality(Registered))'
  <2>1. /\ Moved(h) /\ handlers'[h].pc # "increment"
        /\ tournament' = tournament /\ entry' = entry
    BY <1>0, <1>5 DEF RequestFails, Finish, Idle, Moved
  <2> QED BY <1>2, <2>1
<1> QED
  BY <1>1, <1>3, <1>4, <1>5 DEF Next, Quiescent

-----------------------------------------------------------------------------
(* The inductive invariant holds in every reachable state. *)
THEOREM RegistrationInvariant == Spec => []RegistrationInv
<1>1. RegistrationInv /\ [Next]_vars => RegistrationInv'
  BY StepTypeOK, StepHasUser, StepDistance DEF RegistrationInv
<1> QED
  BY InitRegistrationInv, <1>1, PTL DEF Spec

(* The participant count never runs ahead of the stored registrations, whatever
   interleaves or fails half-way. *)
THEOREM CountStaysBehind == Spec => []CountNeverAhead
<1>1. RegistrationInv => CountNeverAhead
  <2>1. /\ Cardinality(Counting) \in Nat /\ Cardinality(Registered) \in Nat
    BY CountedSetsAreFinite, FS_CardinalityType
  <2> QED BY <2>1 DEF RegistrationInv, CountNeverAhead, TypeOK, Row
<1> QED
  BY <1>1, RegistrationInvariant, PTL

-----------------------------------------------------------------------------
(* Fees.  A request between its debit and its registration holds the fee it took: one
   coin for each unit of it, so that the fees held are counted like a set. *)
Held(r, u) == IF r.pc = "create" /\ r.user = u THEN r.seen.fee ELSE 0

Coins(u) == {c \in Handlers \X Nat : c[2] \in 1 .. Held(handlers[c[1]], u)}

Stored(u) == due[u] + Cardinality(Coins(u))

Taken(u) == InitialBalance - balance[u]

FeesInv == \A u \in Users : IsFiniteSet(Coins(u)) /\ Stored(u) <= Taken(u)

LEMMA HeldTyped ==
  ASSUME TypeOK, NEW h \in Handlers, NEW u \in Users
  PROVE  Held(handlers[h], u) \in Nat
BY DEF TypeOK, Row, Held

LEMMA CoinsOfOne ==
  ASSUME NEW h, NEW n \in Nat
  PROVE  IsFiniteSet({h} \X (1 .. n)) /\ Cardinality({h} \X (1 .. n)) = n
<1>1. IsFiniteSet(1 .. n) /\ Cardinality(1 .. n) = IF 1 > n THEN 0 ELSE n - 1 + 1
  BY FS_Interval
<1>2. IsFiniteSet({h}) /\ Cardinality({h}) = 1
  BY FS_Singleton
<1>3. /\ IsFiniteSet({h} \X (1 .. n))
      /\ Cardinality({h} \X (1 .. n)) = Cardinality({h}) * Cardinality(1 .. n)
  BY <1>1, <1>2, FS_Product
<1> QED BY <1>1, <1>2, <1>3

(* Only the coins of the request that moved come and go. *)
LEMMA CoinsMove ==
  ASSUME NEW h \in Handlers, NEW u \in Users, Moved(h), TypeOK, TypeOK', IsFiniteSet(Coins(u))
  PROVE  /\ IsFiniteSet(Coins(u)') /\ Cardinality(Coins(u)) \in Nat
         /\ Cardinality(Coins(u)') =
              Cardinality(Coins(u)) - Held(handlers[h], u) + Held(handlers'[h], u)
<1> DEFINE n == Held(handlers[h], u)
           m == Held(handlers'[h], u)
           Old == {h} \X (1 .. n)
           New == {h} \X (1 .. m)
           Rest == Coins(u) \ Old
<1>1. n \in Nat /\ m \in Nat
  BY HeldTyped DEF TypeOK, Row, Held
<1>2. Coins(u)' = Rest \cup New /\ Coins(u) \cap Old = Old /\ Rest \cap New = {}
  <2>1. \A g \in Handlers \ {h} : Held(handlers'[g], u) = Held(handlers[g], u)
    BY DEF Moved
  <2> HIDE DEF n, m
  <2>2. /\ Coins(u) = {c \in Handlers \X Nat : c[2] \in 1 .. Held(handlers[c[1]], u)}
        /\ Coins(u)' = {c \in Handlers \X Nat : c[2] \in 1 .. Held(handlers'[c[1]], u)}
    BY DEF Coins, Held
  <2>3. Held(handlers[h], u) = n /\ Held(handlers'[h], u) = m
    BY DEF n, m
  <2> QED BY <1>1, <2>1, <2>2, <2>3
<1> HIDE DEF n, m
<1>3. /\ IsFiniteSet(Old) /\ Cardinality(Old) = n
      /\ IsFiniteSet(New) /\ Cardinality(New) = m
  BY <1>1, CoinsOfOne
<1> HIDE DEF Old, New
<1>4. IsFiniteSet(Rest) /\ Cardinality(Rest) = Cardinality(Coins(u)) - n
  BY <1>2, <1>3, FS_Difference
<1> HIDE DEF Rest
<1>5. IsFiniteSet(Rest \cup New) /\ Cardinality(Rest \cup New) = Cardinality(Rest) + m
  <2>1. Cardinality(Rest \cap New) = 0
    BY <1>2, FS_EmptySet
  <2>2. Cardinality(Rest) \in Nat
    BY <1>4, FS_CardinalityType
  <2>3. /\ IsFiniteSet(Rest \cup New)
        /\ Cardinality(Rest \cup New)
             = Cardinality(Rest) + Cardinality(New) - Cardinality(Rest \cap New)
    BY <1>3, <1>4, FS_Union
  <2> QED BY <1>1, <1>3, <2>1, <2>2, <2>3
<1>6. Cardinality(Coins(u)) \in Nat
  BY FS_CardinalityType
<1> QED BY <1>1, <1>2, <1>4, <1>5, <1>6 DEF n, m

(* What a step does to the fee its request holds, to what is stored and what was taken. *)
LEMMA FeeStep ==
  ASSUME RegistrationInv, NEW h \in Handlers, Start(h) \/ Continue(h) \/ RequestFails(h),
         NEW u \in Users
  PROVE  /\ Moved(h)
         /\ due'[u] + Held(handlers'[h], u) + balance'[u]
              <= due[u] + Held(handlers[h], u) + balance[u]
         /\ ~RequestFails(h) /\ (handlers[h].pc = "create" => entry[handlers[h].user] = NoEntry) =>
              due'[u] + Held(handlers'[h], u) + balance'[u]
                = due[u] + Held(handlers[h], u) + balance[u]
<1> DEFINE r == handlers[h]
<1>0. /\ r.pc \in HandlerPcs /\ r.seen.fee \in Nat
      /\ r \in [pc : HandlerPcs, user : Users \cup {NoUser},
                entry : EntryIds \cup {NoEntry}, seen : Row]
      /\ r.pc \in WithUser => r.user \in Users
      /\ DOMAIN handlers = Handlers
      /\ balance \in [Users -> Nat] /\ due \in [Users -> Nat]
      /\ Held(Idle, u) = 0 /\ Held(r, u) \in Nat
  BY HeldTyped DEF RegistrationInv, TypeOK, Row, Held, Idle
<1>1. CASE Start(h)
  <2>1. PICK pc \in HandlerPcs, v \in Users \cup {NoUser}, seen \in Row :
          Begin(h, pc, v, seen) /\ UNCHANGED <<balance, due>>
    BY <1>1, StartBegins DEF RegistrationInv
  <2>2. pc # "create"
    BY <1>1, <2>1, <1>0 DEF Start, StartRegistration, StartRemoval, ChangeStatus, UpdateDetails, Begin
  <2> QED BY <1>0, <2>1, <2>2 DEF Begin, Moved, Held
<1>2. CASE RequestFails(h)
  BY <1>0, <1>2 DEF RequestFails, Finish, Moved
<1>3. CASE CheckEntry(h)
  <2>1. CASE Finish(h)
    BY <1>0, <1>3, <2>1 DEF CheckEntry, Finish, Held, Moved
  <2>2. CASE Goto(h, IF r.seen.fee > 0 THEN "check_funds" ELSE "create")
    BY <1>0, <1>3, <2>2 DEF CheckEntry, Goto, Held, Moved
  <2> QED BY <1>3, <2>1, <2>2 DEF CheckEntry
<1>4. CASE CheckFunds(h)
  BY <1>0, <1>4 DEF CheckFunds, Goto, Finish, Held, Moved
<1>5. CASE Debit(h)
  BY <1>0, <1>5 DEF Debit, Goto, Finish, Held, Moved, WithUser
<1>6. CASE CreateEntry(h)
  BY <1>0, <1>6 DEF CreateEntry, Goto, Finish, Held, Moved, WithUser
<1>7. CASE IncrementCount(h) \/ DeleteEntry(h) \/ WriteStatus(h) \/ WriteDetails(h)
  BY <1>0, <1>7 DEF IncrementCount, DeleteEntry, WriteStatus, WriteDetails, Finish, Held, Moved
<1>8. CASE FindEntry(h) \/ ReadEntry(h)
  BY <1>0, <1>8 DEF FindEntry, ReadEntry, Goto, Finish, Held, Moved
<1> QED BY <1>1, <1>2, <1>3, <1>4, <1>5, <1>6, <1>7, <1>8 DEF Continue

LEMMA InitCoins == ASSUME Init, NEW u \in Users PROVE Coins(u) = {}
<1>1. \A h \in Handlers : Held(handlers[h], u) = 0
  BY DEF Init, Idle, Held
<1> QED BY <1>1 DEF Coins

LEMMA InitFees == Init => FeesInv
<1> SUFFICES ASSUME Init, NEW u \in Users PROVE IsFiniteSet(Coins(u)) /\ Stored(u) <= Taken(u)
  BY DEF FeesInv
<1> QED BY InitCoins, FS_EmptySet, ParametersTyped DEF Init, Stored, Taken

LEMMA StepFees ==
  ASSUME RegistrationInv, FeesInv, TypeOK', [Next]_vars
  PROVE  FeesInv'
<1>. TypeOK BY DEF RegistrationInv
<1>. SUFFICES ASSUME NEW u \in Users PROVE (IsFiniteSet(Coins(u)) /\ Stored(u) <= Taken(u))'
  BY DEF FeesInv
<1>1. CASE UNCHANGED vars
  BY <1>1 DEF vars, FeesInv, Coins, Held, Stored, Taken
<1>2. ASSUME NEW h \in Handlers, Start(h) \/ Continue(h) \/ RequestFails(h)
      PROVE  (IsFiniteSet(Coins(u)) /\ Stored(u) <= Taken(u))'
  <2>1. /\ IsFiniteSet(Coins(u)') /\ Cardinality(Coins(u)) \in Nat
        /\ Cardinality(Coins(u)') =
             Cardinality(Coins(u)) - Held(handlers[h], u) + Held(handlers'[h], u)
    BY <1>2, FeeStep, CoinsMove DEF FeesInv
  <2>2. /\ Held(handlers[h], u) \in Nat /\ Held(handlers'[h], u) \in Nat
        /\ due[u] \in Nat /\ balance[u] \in Nat /\ due'[u] \in Nat /\ balance'[u] \in Nat
    BY HeldTyped DEF TypeOK, Held, Row
  <2>3. due'[u] + Held(handlers'[h], u) + balance'[u]
          <= due[u] + Held(handlers[h], u) + balance[u]
    BY <1>2, FeeStep
  <2>4. due[u] + Cardinality(Coins(u)) <= InitialBalance - balance[u]
    BY DEF FeesInv, Stored, Taken
  <2>5. due'[u] + Cardinality(Coins(u)') <= InitialBalance - balance'[u]
    BY <2>1, <2>2, <2>3, <2>4, ParametersTyped
  <2> QED BY <2>1, <2>5 DEF Stored, Taken
<1> QED BY <1>1, <1>2 DEF Next, Quiescent

(* Every registration that is stored was paid for, whatever interleaves or fails: for any
   number of players and requests, any fees and any balance. *)
THEOREM NoEntryIsFree == Spec => []NoFreeEntry
<1>1. RegistrationInv /\ FeesInv /\ [Next]_vars => (RegistrationInv /\ FeesInv)'
  BY StepTypeOK, StepHasUser, StepDistance, StepFees DEF RegistrationInv
<1>2. RegistrationInv /\ FeesInv => NoFreeEntry
  <2> SUFFICES ASSUME RegistrationInv, FeesInv, NEW u \in Users
               PROVE  due[u] <= InitialBalance - balance[u]
    BY DEF NoFreeEntry
  <2>1. Cardinality(Coins(u)) \in Nat
    BY FS_CardinalityType DEF FeesInv
  <2> QED BY <2>1, ParametersTyped DEF FeesInv, Stored, Taken, RegistrationInv, TypeOK
<1> QED
  BY InitRegistrationInv, InitFees, <1>1, <1>2, PTL DEF Spec

-----------------------------------------------------------------------------
(* Requests that take turns.  What a request knows of the tournament once it has judged
   it stays true, because nobody else is at work. *)
Over == {"ONGOING", "COMPLETED", "CANCELED"}

Knows(r) ==
  /\ r.pc \in {"check_entry", "check_funds", "debit", "create"} =>
       /\ tournament.status = "REGISTRATION_OPEN"
       /\ Cardinality(Registered) < tournament.max
  /\ r.pc \in {"check_funds", "debit", "create"} => entry[r.user] = NoEntry
  /\ r.pc = "find_entry" => r.seen.status = tournament.status
  /\ r.pc \in {"read_entry", "delete"} => tournament.status \notin Over /\ r.entry # NoEntry
  /\ r.pc = "delete" => entry[r.user] = r.entry
  /\ r.pc = "write_status" => Allowed(tournament.status, r.seen.status)
  /\ r.pc = "write_details" =>
       r.seen.status = tournament.status /\ Cardinality(Registered) <= r.seen.max

OneAtATime == \A g, h \in Handlers : handlers[g] # Idle /\ handlers[h] # Idle => g = h

Undisturbed ==
  /\ OneAtATime
  /\ tournament.current + Cardinality(Counting) = Cardinality(Registered)
  /\ Cardinality(Registered) <= tournament.max
  /\ \A u \in Users : Stored(u) = Taken(u)
  /\ \A h \in Handlers : Knows(handlers[h])

TurnsInv == RegistrationInv /\ FeesInv /\ (~disturbed => Undisturbed)

LEMMA OneBusy ==
  ASSUME TypeOK', Cardinality({h \in Handlers : handlers'[h] # Idle}) <= 1
  PROVE  OneAtATime'
<1> DEFINE Busy == {h \in Handlers : handlers'[h] # Idle}
<1>1. SUFFICES ASSUME NEW g \in Busy, NEW h \in Busy, g # h PROVE FALSE
  BY DEF OneAtATime, Idle, NoRow
<1>2. IsFiniteSet(Busy)
  <2>1. Busy \subseteq Handlers
    OBVIOUS
  <2> QED BY <2>1, FinitelyMany, FS_Subset
<1>3. IsFiniteSet({g}) /\ Cardinality({g}) = 1
  BY FS_Singleton
<1>4. Cardinality({g} \cup {h}) = 1 + 1
  BY <1>1, <1>3, FS_AddElement
<1>5. {g} \cup {h} \in SUBSET Busy
  OBVIOUS
<1>6. Cardinality({g} \cup {h}) <= Cardinality(Busy)
  BY <1>2, <1>5, FS_Subset
<1>7. Cardinality(Busy) \in Nat /\ Cardinality(Busy) <= 1
  BY <1>2, FS_CardinalityType
<1> QED BY <1>4, <1>6, <1>7

(* A request that takes its turn finds and leaves the others idle. *)
LEMMA Alone ==
  ASSUME RegistrationInv, OneAtATime, OneAtATime', NEW h \in Handlers, Moved(h),
         handlers[h] # Idle \/ handlers'[h] # Idle
  PROVE  \A g \in Handlers \ {h} : handlers[g] = Idle /\ handlers'[g] = Idle
BY DEF OneAtATime, Moved, Idle, NoRow

LEMMA IdleKnows == ASSUME NEW r, r.pc = "idle" PROVE Knows(r)
BY DEF Knows

LEMMA CountedAlone ==
  ASSUME NEW h \in Handlers, \A g \in Handlers \ {h} : handlers[g] = Idle
  PROVE  Cardinality(Counting) = IF handlers[h].pc = "increment" THEN 1 ELSE 0
<1>1. Counting = IF handlers[h].pc = "increment" THEN {h} ELSE {}
  BY DEF Counting, Idle
<1> QED BY <1>1, FS_EmptySet, FS_Singleton

(* The fees stored stay the fees taken. *)
LEMMA FeesStayEven ==
  ASSUME RegistrationInv, FeesInv, TypeOK', NEW h \in Handlers, Start(h) \/ Continue(h),
         handlers[h].pc = "create" => entry[handlers[h].user] = NoEntry,
         ~RequestFails(h), \A u \in Users : Stored(u) = Taken(u)
  PROVE  \A u \in Users : (Stored(u) = Taken(u))'
<1>. TypeOK BY DEF RegistrationInv
<1>. SUFFICES ASSUME NEW u \in Users PROVE Stored(u)' = Taken(u)'
  OBVIOUS
<1>1. /\ Cardinality(Coins(u)) \in Nat
      /\ Cardinality(Coins(u)') =
           Cardinality(Coins(u)) - Held(handlers[h], u) + Held(handlers'[h], u)
  BY FeeStep, CoinsMove DEF FeesInv
<1>2. /\ Held(handlers[h], u) \in Nat /\ Held(handlers'[h], u) \in Nat
      /\ due[u] \in Nat /\ balance[u] \in Nat /\ due'[u] \in Nat /\ balance'[u] \in Nat
  BY HeldTyped DEF TypeOK, Held, Row
<1>3. due'[u] + Held(handlers'[h], u) + balance'[u]
        = due[u] + Held(handlers[h], u) + balance[u]
  BY FeeStep
<1>4. due[u] + Cardinality(Coins(u)) = InitialBalance - balance[u]
  BY DEF Stored, Taken
<1>5. due'[u] + Cardinality(Coins(u)') = InitialBalance - balance'[u]
  BY <1>1, <1>2, <1>3, <1>4, ParametersTyped
<1> QED BY <1>5 DEF Stored, Taken

(* What a turn of request h has to leave behind for the next one. *)
TurnDone(h) ==
  /\ tournament'.current + (IF handlers'[h].pc = "increment" THEN 1 ELSE 0)
       = Cardinality(Registered')
  /\ Cardinality(Registered') <= tournament'.max
  /\ Knows(handlers[h])'
  /\ tournament.status = "ONGOING" => tournament'.status \in Over
  /\ tournament.status \in Over => entry' = entry

(* What a request finds when it is alone. *)
Found(h) ==
  /\ handlers[h] \in [pc : HandlerPcs, user : Users \cup {NoUser},
                      entry : EntryIds \cup {NoEntry}, seen : Row]
  /\ handlers[h].pc \in WithUser => handlers[h].user \in Users
  /\ DOMAIN handlers = Handlers
  /\ tournament \in Row /\ Cardinality(Registered) \in Nat
  /\ tournament.current + (IF handlers[h].pc = "increment" THEN 1 ELSE 0)
       = Cardinality(Registered)
  /\ Cardinality(Registered) <= tournament.max
  /\ Knows(handlers[h])

LEMMA TurnFinds ==
  ASSUME TurnsInv, ~disturbed, NEW h \in Handlers,
         \A g \in Handlers \ {h} : handlers[g] = Idle
  PROVE  Found(h)
<1>1. Cardinality(Registered) \in Nat
  BY CountedSetsAreFinite, FS_CardinalityType
<1> QED BY <1>1, CountedAlone DEF TurnsInv, Undisturbed, Found, RegistrationInv, TypeOK

LEMMA StartTurn ==
  ASSUME TypeOK, NEW h \in Handlers, Found(h), Start(h)
  PROVE  TurnDone(h)
<1>1. UNCHANGED <<tournament, entry>> /\ Registered' = Registered /\ handlers[h] = Idle
  BY DEF Start, StartRegistration, StartRemoval, ChangeStatus, UpdateDetails, Begin, Registered
<1>2. /\ handlers[h].pc = "idle" /\ tournament.current = Cardinality(Registered)
      /\ tournament.current \in Int /\ tournament.max \in Nat
      /\ DOMAIN handlers = Handlers
  BY <1>1 DEF Found, Idle, Row
<1>3. /\ \A fee : [NoRow EXCEPT !.fee = fee].fee = fee
      /\ \A to : [NoRow EXCEPT !.status = to].status = to
      /\ \A max, fee : /\ [tournament EXCEPT !.max = max, !.fee = fee].max = max
                       /\ [tournament EXCEPT !.max = max, !.fee = fee].status = tournament.status
  BY DEF NoRow, NewTournament, Found, Row
<1>4. Knows(handlers[h])' /\ handlers'[h].pc # "increment"
  <2>1. ASSUME NEW u \in Users, StartRegistration(h, u)
        PROVE  Knows(handlers[h])' /\ handlers'[h].pc # "increment"
    BY <1>1, <1>2, <2>1 DEF StartRegistration, CanRegister, Begin, Knows
  <2>2. ASSUME NEW u \in Users, StartRemoval(h, u)
        PROVE  Knows(handlers[h])' /\ handlers'[h].pc # "increment"
    BY <1>1, <1>2, <1>3, <2>2 DEF StartRemoval, Begin, Knows
  <2>3. ASSUME NEW to \in Statuses, ChangeStatus(h, to)
        PROVE  Knows(handlers[h])' /\ handlers'[h].pc # "increment"
    BY <1>1, <1>2, <1>3, <2>3 DEF ChangeStatus, Begin, Knows
  <2>4. ASSUME NEW max \in Sizes, NEW fee \in Fees, UpdateDetails(h, max, fee)
        PROVE  Knows(handlers[h])' /\ handlers'[h].pc # "increment"
    BY <1>1, <1>2, <1>3, <2>4 DEF UpdateDetails, Fits, Begin, Knows
  <2> QED BY <2>1, <2>2, <2>3, <2>4 DEF Start
<1> QED BY <1>1, <1>2, <1>4 DEF TurnDone, Found, Over

LEMMA RegisterTurn ==
  ASSUME TypeOK, NEW h \in Handlers, Found(h),
         CheckEntry(h) \/ CheckFunds(h) \/ Debit(h) \/ CreateEntry(h) \/ IncrementCount(h)
  PROVE  TurnDone(h)
<1> DEFINE r == handlers[h]
<1>0. tournament.current \in Int /\ tournament.max \in Nat /\ Idle.pc = "idle"
  BY DEF Found, Row, Idle
<1>1. CASE CheckEntry(h) \/ CheckFunds(h) \/ Debit(h)
  <2>1. UNCHANGED <<tournament, entry>> /\ Registered' = Registered
    BY <1>1 DEF CheckEntry, CheckFunds, Debit, Registered
  <2>2. r.pc \in {"check_entry", "check_funds", "debit"}
    BY <1>1 DEF CheckEntry, CheckFunds, Debit
  <2>3. \/ handlers'[h] = Idle
        \/ /\ handlers'[h].pc \in {"check_funds", "debit", "create"}
           /\ handlers'[h].user = r.user /\ entry[r.user] = NoEntry
    <3>1. CASE CheckEntry(h)
      BY <3>1 DEF CheckEntry, Goto, Finish, Found
    <3>2. CASE CheckFunds(h)
      BY <3>2 DEF CheckFunds, Goto, Finish, Found, Knows
    <3>3. CASE Debit(h)
      BY <3>3 DEF Debit, Goto, Finish, Found, Knows
    <3> QED BY <1>1, <3>1, <3>2, <3>3
  <2>4. Knows(handlers[h])'
    BY <1>0, <2>1, <2>2, <2>3 DEF Knows, Found
  <2> QED BY <1>0, <2>1, <2>2, <2>3, <2>4 DEF TurnDone, Found, Over
<1>2. CASE CreateEntry(h)
  <2>1. /\ r.user \in Users /\ entry[r.user] = NoEntry /\ tournament' = tournament
        /\ tournament.status = "REGISTRATION_OPEN"
        /\ Cardinality(Registered) < tournament.max
        /\ r.pc = "create"
    BY <1>2 DEF CreateEntry, Found, Knows, WithUser
  <2>2. PICK e \in EntryIds : entry' = [entry EXCEPT ![r.user] = e]
    BY <1>2, <2>1 DEF CreateEntry, FreshEntries
  <2>3. Cardinality(Registered') = Cardinality(Registered) + 1
    BY <2>1, <2>2, StoringRegisters
  <2>4. handlers'[h].pc = "increment"
    BY <1>2, <2>1 DEF CreateEntry, Goto, Found
  <2>5. Knows(handlers[h])'
    BY <2>4 DEF Knows
  <2> QED BY <1>0, <2>1, <2>3, <2>4, <2>5 DEF TurnDone, Found, Over
<1>3. CASE IncrementCount(h)
  <2>1. /\ tournament' = [tournament EXCEPT !.current = @ + 1] /\ entry' = entry
        /\ Registered' = Registered /\ handlers'[h] = Idle /\ r.pc = "increment"
    BY <1>3 DEF IncrementCount, Finish, Found, Registered
  <2>2. /\ tournament'.current = tournament.current + 1 /\ tournament'.max = tournament.max
        /\ tournament'.status = tournament.status
    BY <2>1 DEF Found, Row
  <2>3. Knows(handlers[h])'
    BY <1>0, <2>1 DEF Knows
  <2> QED BY <1>0, <2>1, <2>2, <2>3 DEF TurnDone, Found, Over
<1> QED BY <1>1, <1>2, <1>3

LEMMA RemoveTurn ==
  ASSUME TypeOK, NEW h \in Handlers, Found(h),
         FindEntry(h) \/ ReadEntry(h) \/ DeleteEntry(h)
  PROVE  TurnDone(h)
<1> DEFINE r == handlers[h]
<1>0. tournament.current \in Int /\ tournament.max \in Nat /\ Idle.pc = "idle"
  BY DEF Found, Row, Idle
<1>1. CASE FindEntry(h) \/ ReadEntry(h)
  <2>1. UNCHANGED <<tournament, entry>> /\ Registered' = Registered /\ r.pc # "increment"
    BY <1>1 DEF FindEntry, ReadEntry, Registered
  <2>2. \/ handlers'[h] = Idle
        \/ /\ handlers'[h].pc = "read_entry" \/ (handlers'[h].pc = "delete" /\ entry[r.user] = r.entry)
           /\ handlers'[h].user = r.user /\ handlers'[h].entry # NoEntry
           /\ handlers'[h].pc = "delete" => handlers'[h].entry = r.entry
           /\ tournament.status \notin Over
    <3>1. CASE FindEntry(h)
      BY <3>1 DEF FindEntry, Finish, Found, Knows, Removable, Over
    <3>2. CASE ReadEntry(h)
      BY <3>2 DEF ReadEntry, Goto, Finish, Found, Knows
    <3> QED BY <1>1, <3>1, <3>2
  <2>3. Knows(handlers[h])'
    BY <1>0, <2>1, <2>2 DEF Knows, Found
  <2> QED BY <1>0, <2>1, <2>2, <2>3 DEF TurnDone, Found, Over
<1>2. CASE DeleteEntry(h)
  <2>1. /\ r.user \in Users /\ entry[r.user] # NoEntry /\ entry[r.user] = r.entry
        /\ tournament.status \notin Over /\ r.pc = "delete"
    BY <1>2 DEF DeleteEntry, Found, Knows, WithUser
  <2>2. /\ tournament' = [tournament EXCEPT !.current = @ - 1]
        /\ entry' = [entry EXCEPT ![r.user] = NoEntry] /\ handlers'[h] = Idle
    BY <1>2, <2>1 DEF DeleteEntry, DecrementCount, Finish, Found, TypeOK
  <2>3. Registered' = Registered \ {r.user} /\ r.user \in Registered
    BY <2>1, <2>2 DEF Registered, TypeOK
  <2>4. Cardinality(Registered') = Cardinality(Registered) - 1
    BY <2>3, CountedSetsAreFinite, FS_RemoveElement
  <2>5. /\ tournament'.current = tournament.current - 1 /\ tournament'.max = tournament.max
        /\ tournament'.status = tournament.status
    BY <2>2 DEF Found, Row
  <2>6. Knows(handlers[h])'
    BY <1>0, <2>2 DEF Knows
  <2> QED BY <1>0, <2>1, <2>2, <2>4, <2>5, <2>6 DEF TurnDone, Found, Over
<1> QED BY <1>1, <1>2

LEMMA WriteTurn ==
  ASSUME TypeOK, NEW h \in Handlers, Found(h), WriteStatus(h) \/ WriteDetails(h)
  PROVE  TurnDone(h)
<1> DEFINE r == handlers[h]
<1>1. /\ entry' = entry /\ Registered' = Registered /\ handlers'[h] = Idle
      /\ r.pc \in {"write_status", "write_details"} /\ Idle.pc = "idle"
  BY DEF WriteStatus, WriteDetails, Finish, Found, Registered, Idle
<1>2. Knows(handlers[h])'
  BY <1>1 DEF Knows
<1>3. /\ tournament'.current = tournament.current
      /\ Cardinality(Registered) <= tournament'.max
      /\ tournament'.status \in {tournament.status, r.seen.status}
      /\ tournament'.status # tournament.status => Allowed(tournament.status, tournament'.status)
  <2>1. CASE WriteStatus(h)
    BY <2>1 DEF WriteStatus, Found, Knows, Row
  <2>2. CASE WriteDetails(h)
    BY <2>2 DEF WriteDetails, Found, Knows, Row
  <2> QED BY <2>1, <2>2
<1>4. tournament.status = "ONGOING" => tournament'.status \in Over
  BY <1>3 DEF Allowed, Over
<1> QED BY <1>1, <1>2, <1>3, <1>4 DEF TurnDone, Found

(* A request moves alone; while it works it is not idle, and only a failure is one. *)
LEMMA TurnTaken ==
  ASSUME TypeOK, NEW h \in Handlers, Start(h) \/ Continue(h)
  PROVE  /\ Moved(h) /\ failures' = failures
         /\ handlers[h] # Idle \/ handlers'[h] # Idle
<1>0. DOMAIN handlers = Handlers /\ Idle.pc = "idle"
  BY DEF TypeOK, Idle
<1>1. CASE Start(h)
  <2>1. \E u, seen : \E pc \in HandlerPcs \ {"idle"} : Begin(h, pc, u, seen) /\ failures' = failures
    <3> USE DEF HandlerPcs
    <3>1. CASE \E u \in Users : StartRegistration(h, u) \/ StartRemoval(h, u)
      BY <3>1 DEF StartRegistration, StartRemoval
    <3>2. CASE \E to \in Statuses : ChangeStatus(h, to)
      BY <3>2 DEF ChangeStatus
    <3>3. CASE \E max \in Sizes, fee \in Fees : UpdateDetails(h, max, fee)
      BY <3>3 DEF UpdateDetails
    <3> QED BY <1>1, <3>1, <3>2, <3>3 DEF Start
  <2> QED BY <1>0, <2>1 DEF Begin, Moved
<1>2. CASE Continue(h)
  <2>1. handlers[h].pc # "idle" /\ failures' = failures
    BY <1>2 DEF Continue, CheckEntry, CheckFunds, Debit, CreateEntry, IncrementCount,
       FindEntry, ReadEntry, DeleteEntry, WriteStatus, WriteDetails
  <2>2. Moved(h)
    BY <1>0, <1>2 DEF Continue, CheckEntry, CheckFunds, Debit, CreateEntry, IncrementCount,
       FindEntry, ReadEntry, DeleteEntry, WriteStatus, WriteDetails, Goto, Finish, Moved
  <2> QED BY <1>0, <2>1, <2>2
<1> QED BY <1>1, <1>2

LEMMA TurnKeeps ==
  ASSUME TurnsInv, ~disturbed, TypeOK', NEW h \in Handlers, Start(h) \/ Continue(h), OneAtATime'
  PROVE  Undisturbed' /\ TurnDone(h)
<1>. TypeOK BY DEF TurnsInv, RegistrationInv
<1>0. ~RequestFails(h)
  BY TurnTaken DEF RequestFails, TypeOK
<1>1. Moved(h) /\ (handlers[h] # Idle \/ handlers'[h] # Idle)
  BY TurnTaken
<1>2. \A g \in Handlers \ {h} : handlers[g] = Idle /\ handlers'[g] = Idle
  BY <1>1, Alone DEF TurnsInv, Undisturbed
<1>3. Found(h)
  BY <1>2, TurnFinds
<1>4. TurnDone(h)
  BY <1>3, StartTurn, RegisterTurn, RemoveTurn, WriteTurn DEF Continue
<1>5. (tournament.current + Cardinality(Counting) = Cardinality(Registered))'
  <2>1. Cardinality(Counting)' = IF handlers'[h].pc = "increment" THEN 1 ELSE 0
    <3>1. Counting' = IF handlers'[h].pc = "increment" THEN {h} ELSE {}
      BY <1>2 DEF Counting, Idle
    <3> QED BY <3>1, FS_EmptySet, FS_Singleton
  <2> QED BY <1>4, <2>1 DEF TurnDone
<1>6. \A u \in Users : (Stored(u) = Taken(u))'
  <2>1. handlers[h].pc = "create" => entry[handlers[h].user] = NoEntry
    BY <1>3 DEF Found, Knows
  <2> QED BY <1>0, <2>1, FeesStayEven DEF TurnsInv, Undisturbed
<1>7. \A g \in Handlers : Knows(handlers[g])'
  <2>1. ASSUME NEW g \in Handlers \ {h} PROVE Knows(handlers[g])'
    BY <1>2 DEF Knows, Idle
  <2> QED BY <1>4, <2>1 DEF TurnDone
<1> QED BY <1>4, <1>5, <1>6, <1>7 DEF Undisturbed, TurnDone

(* As long as nobody disturbs, a step leaves the books in agreement. *)
LEMMA TurnsStep ==
  ASSUME TurnsInv, [TurnsNext]_<<vars, disturbed, edits>>
  PROVE  /\ TurnsInv'
         /\ ~disturbed' /\ tournament.status = "ONGOING" => tournament'.status \in Over
         /\ ~disturbed' /\ tournament.status \in Over => entry' = entry
<1>1. [Next]_vars
  BY DEF TurnsNext, vars
<1>2. RegistrationInv' /\ FeesInv'
  BY <1>1, StepTypeOK, StepHasUser, StepDistance, StepFees DEF TurnsInv, RegistrationInv
<1>3. SUFFICES ASSUME ~disturbed'
      PROVE  /\ Undisturbed'
             /\ tournament.status = "ONGOING" => tournament'.status \in Over
             /\ tournament.status \in Over => entry' = entry
  BY <1>2 DEF TurnsInv
<1>4. CASE UNCHANGED vars
  <2>1. Undisturbed
    BY <1>3, <1>4 DEF TurnsNext, TurnsInv
  <2>2. Undisturbed'
    BY <1>4, <2>1 DEF vars, Undisturbed, OneAtATime, Counting, Registered, Stored, Taken, Coins,
       Held, Knows
  <2> QED BY <1>4, <2>2 DEF vars, Over
<1>5. ASSUME ~(UNCHANGED vars)
      PROVE  /\ Undisturbed'
             /\ tournament.status = "ONGOING" => tournament'.status \in Over
             /\ tournament.status \in Over => entry' = entry
  <2>1. PICK h \in Handlers : Start(h) \/ Continue(h) \/ RequestFails(h)
    BY <1>1, <1>5 DEF Next, Quiescent
  <2>2. /\ ~disturbed /\ ~(failures' > 0)
        /\ ~(Cardinality({g \in Handlers : handlers'[g] # Idle}) > 1)
    BY <1>3, <1>5 DEF TurnsNext, vars
  <2>3. ~RequestFails(h)
    BY <2>2 DEF RequestFails, TurnsInv, RegistrationInv, TypeOK
  <2>4. OneAtATime'
    <3>1. TypeOK'
      BY <1>2 DEF RegistrationInv
    <3>2. IsFiniteSet({g \in Handlers : handlers'[g] # Idle})
      BY FinitelyMany, FS_Subset
    <3>3. Cardinality({g \in Handlers : handlers'[g] # Idle}) <= 1
      BY <2>2, <3>2, FS_CardinalityType
    <3> QED BY <3>1, <3>3, OneBusy
  <2>5. Undisturbed' /\ TurnDone(h)
    BY <1>2, <2>1, <2>2, <2>3, <2>4, TurnKeeps DEF RegistrationInv
  <2> QED BY <2>5 DEF TurnDone
<1> QED BY <1>4, <1>5

LEMMA InitTurns == TurnsInit => TurnsInv
<1> SUFFICES ASSUME TurnsInit PROVE TurnsInv
  OBVIOUS
<1>1. RegistrationInv /\ FeesInv
  BY InitRegistrationInv, InitFees DEF TurnsInit
<1>2. Registered = {} /\ Counting = {}
  BY DEF TurnsInit, Init, Registered, Counting, Idle
<1>3. /\ Cardinality(Registered) = 0 /\ Cardinality(Counting) = 0
      /\ \A u \in Users : Cardinality(Coins(u)) = 0
  BY <1>2, InitCoins, FS_EmptySet DEF TurnsInit
<1>4. tournament.current = 0 /\ tournament.max \in Nat
  BY ParametersTyped DEF TurnsInit, Init, NewTournament
<1>5. \A h \in Handlers : handlers[h] = Idle /\ Knows(handlers[h])
  BY DEF TurnsInit, Init, Knows, Idle
<1>6. \A u \in Users : Stored(u) = Taken(u)
  BY <1>3, ParametersTyped DEF TurnsInit, Init, Stored, Taken
<1> QED BY <1>1, <1>3, <1>4, <1>5, <1>6 DEF TurnsInv, Undisturbed, OneAtATime

LEMMA TurnsAlways == TurnsSpec => []TurnsInv
<1>1. TurnsInv /\ [TurnsNext]_<<vars, disturbed, edits>> => TurnsInv'
  BY TurnsStep
<1> QED BY InitTurns, <1>1, PTL DEF TurnsSpec

LEMMA BooksOfTurns == TurnsInv => BooksAgreeInTurns
<1> SUFFICES ASSUME TurnsInv, ~disturbed PROVE CountMatches /\ NotOverbooked /\ FeesMatchEntries
  BY DEF BooksAgreeInTurns
<1>1. NotOverbooked
  BY DEF TurnsInv, Undisturbed, NotOverbooked
<1>2. CountMatches
  <2>1. Quiet => Cardinality(Counting) = 0
    <3>1. Quiet => Counting = {}
      BY DEF Quiet, Counting, Idle
    <3> QED BY <3>1, FS_EmptySet
  <2>2. /\ tournament.current \in Int
        /\ tournament.current + Cardinality(Counting) = Cardinality(Registered)
    BY DEF TurnsInv, Undisturbed, RegistrationInv, TypeOK, Row
  <2> QED BY <2>1, <2>2 DEF CountMatches
<1>3. FeesMatchEntries
  <2>1. ASSUME Quiet, NEW u \in Users PROVE due[u] = InitialBalance - balance[u]
    <3>1. Coins(u) = {}
      BY <2>1 DEF Quiet, Coins, Held, Idle
    <3>2. Stored(u) = Taken(u) /\ due[u] \in Nat
      BY DEF TurnsInv, Undisturbed, RegistrationInv, TypeOK
    <3> QED BY <3>1, <3>2, FS_EmptySet DEF Stored, Taken
  <2> QED BY <2>1 DEF FeesMatchEntries
<1> QED BY <1>1, <1>2, <1>3

(* Requests that take turns and do not fail leave count, registrations, places and fees in
   agreement, however many there are: the disagreements the code allows all need two
   requests at once or a failure. *)
THEOREM TurnsKeepTheBooks == TurnsSpec => []BooksAgreeInTurns
BY TurnsAlways, BooksOfTurns, PTL

(* Requests that take turns never bring a tournament that is under way back. *)
THEOREM TurnsOnlyEndOngoing == TurnsSpec => OngoingOnlyEndsInTurns
<1>1. TurnsInv /\ [TurnsNext]_<<vars, disturbed, edits>> =>
        [disturbed' \/ (tournament.status = "ONGOING" =>
           tournament'.status \in {"ONGOING", "COMPLETED", "CANCELED"})]_vars
  BY TurnsStep DEF Over
<1> QED BY <1>1, TurnsAlways, PTL DEF TurnsSpec, OngoingOnlyEndsInTurns

(* Requests that take turns never change the line-up of a tournament under way or over. *)
THEOREM TurnsFixTheLineUp == TurnsSpec => LineUpIsFixedInTurns
<1>1. TurnsInv /\ [TurnsNext]_<<vars, disturbed, edits>> =>
        [disturbed' \/ (tournament.status \in {"ONGOING", "COMPLETED", "CANCELED"} =>
           entry' = entry)]_vars
  BY TurnsStep DEF Over
<1> QED BY <1>1, TurnsAlways, PTL DEF TurnsSpec, LineUpIsFixedInTurns

=============================================================================
