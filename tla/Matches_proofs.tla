--------------------------- MODULE Matches_proofs ---------------------------
(***************************************************************************)
(* For every set of bracket sizes, every number of submissions and every   *)
(* bound on what is played: a result has a winner who plays in the match,  *)
(* a decision stands until it is disputed, the generated bracket is a      *)
(* knock-out tournament, and the shuffle is fair.                          *)
(*                                                                         *)
(* The life of a match.  The strengthening is what a submission knows: the *)
(* row it carries was open for a result, and its winner plays in that row. *)
(* When the submission writes, either the row is still that one, or        *)
(* overwrote becomes TRUE.                                                 *)
(*                                                                         *)
(* The bracket.  Counted from the final, the matches are numbered like the *)
(* nodes of a binary heap: the round is the level of the node, and the     *)
(* winner of node d goes to node d \div 2.  Byes fill the first round up   *)
(* to a power of two, so that this holds for every number of players.      *)
(*                                                                         *)
(* The shuffle.  From the last index down, every swap settles one place of *)
(* the order, and the order tells which index was chosen for it.           *)
(***************************************************************************)
EXTENDS Matches, WellFoundedInduction, FiniteSetTheorems, SequenceTheorems, TLAPS

Carries(r) ==
  \/ r = NotSubmitting
  \/ /\ r.match \in DOMAIN matches
     /\ OpenForResult(r.copy)
     /\ r.winner \in Participants(r.copy)

HasWinner(match) ==
  match.status \in {"AWAITING_CONFIRMATION", "DISPUTED", "COMPLETED"} =>
    match.winner \in Participants(match)

IInv ==
  /\ size <= MaxPlayed => played \in DOMAIN matches
  /\ DOMAIN submission = Submissions
  /\ \A s \in Submissions : Carries(submission[s])
  /\ ResultHasWinner

\* what any method of the entity may do to a decision
Stands(match, new) ==
  match.status \in {"COMPLETED", "CANCELED"} =>
    new = match \/ (match.status = "COMPLETED" /\ new = Disputed(match))

-----------------------------------------------------------------------------
(* The generator's matches have winners where they need one: a bye is over, and was won
   by its only player. *)
LEMMA GeneratedHaveWinners ==
  ASSUME NEW type, NEW n, NEW m \in DOMAIN Generate(type, n)
  PROVE  HasWinner(Generate(type, n)[m])
<1>1. CASE type = "SINGLE_MATCH"
  BY <1>1 DEF Generate, SingleMatch, Match, HasWinner
<1>2. CASE type # "SINGLE_MATCH"
  <2>1. /\ Generate(type, n) = SingleElimination(n)
        /\ m \in 1 .. Before(n, LastRound(n) + 1)
    BY <1>2 DEF Generate, SingleElimination
  <2>2. CASE m <= NumByes(n)
    <3>1. SingleElimination(n)[m] = ByeMatch(n, m)
      BY <2>1, <2>2 DEF SingleElimination
    <3>2. m # 0
      BY <2>1
    <3> QED BY <2>1, <3>1, <3>2 DEF ByeMatch, Match, HasWinner, Participants, Null
  <2>3. CASE ~(m <= NumByes(n)) /\ m <= FirstRoundSize(n)
    <3>1. SingleElimination(n)[m] = PairedMatch(n, m)
      BY <2>1, <2>3 DEF SingleElimination
    <3> QED BY <2>1, <3>1 DEF PairedMatch, Match, HasWinner
  <2>4. CASE ~(m <= NumByes(n)) /\ ~(m <= FirstRoundSize(n))
    <3>1. SingleElimination(n)[m] = LaterMatch(n, m)
      BY <2>1, <2>4 DEF SingleElimination
    <3> QED BY <2>1, <3>1 DEF LaterMatch, Match, HasWinner
  <2> QED BY <2>2, <2>3, <2>4
<1> QED BY <1>1, <1>2

LEMMA InitIInv == Init => IInv
<1> SUFFICES ASSUME Init PROVE IInv
  OBVIOUS
<1>1. PICK type \in BracketTypes : matches = Generate(type, size)
  BY DEF Init
<1>2. ResultHasWinner
  BY <1>1, GeneratedHaveWinners DEF ResultHasWinner, HasWinner
<1>3. size <= MaxPlayed => played \in DOMAIN matches
  BY DEF Init
<1>4. DOMAIN submission = Submissions /\ \A s \in Submissions : Carries(submission[s])
  BY DEF Init, Carries
<1> QED BY <1>2, <1>3, <1>4 DEF IInv

-----------------------------------------------------------------------------
(* A step that saves one match keeps the invariant and the decisions if the new row is
   one with a winner where it needs one, and respects a decision. *)
Kept == IInv' /\ \A m \in DOMAIN matches : ~overwrote' => Stands(matches[m], matches'[m])

LEMMA SaveKeeps ==
  ASSUME IInv, NEW m \in DOMAIN matches, NEW new, Save(m, new),
         UNCHANGED <<size, played, submission, overwrote>>,
         HasWinner(matches[m]) => HasWinner(new), Stands(matches[m], new)
  PROVE  Kept
<1>1. /\ DOMAIN matches' = DOMAIN matches
      /\ matches'[m] = new
      /\ \A k \in DOMAIN matches : k # m => matches'[k] = matches[k]
  BY DEF Save
<1>2. \A s \in Submissions : Carries(submission[s])'
  BY <1>1 DEF IInv, Carries
<1>3. overwrote \/ \A k \in DOMAIN matches : HasWinner(matches[k])
  BY DEF IInv, ResultHasWinner, HasWinner
<1>4. overwrote \/ \A k \in DOMAIN matches' : HasWinner(matches'[k])
  BY <1>1, <1>3
<1>5. ResultHasWinner'
  BY <1>4 DEF ResultHasWinner, HasWinner
<1>6. \A k \in DOMAIN matches : ~overwrote' => Stands(matches[k], matches'[k])
  BY <1>1, <1>3 DEF Stands
<1> QED BY <1>1, <1>2, <1>5, <1>6 DEF IInv, Kept

LEMMA SameMatchesKept ==
  ASSUME IInv, UNCHANGED <<size, matches, played, overwrote>>,
         DOMAIN submission' = Submissions, \A s \in Submissions : Carries(submission'[s])
  PROVE  Kept
<1>1. \A s \in Submissions : Carries(submission[s])'
  BY DEF Carries
<1>2. ResultHasWinner'
  BY DEF IInv, ResultHasWinner
<1> QED BY <1>1, <1>2 DEF IInv, Kept, Stands

(* One lemma per method of the entity. *)
LEMMA OrganizeKeeps == IInv /\ size <= MaxPlayed /\ Organize(played) => Kept
<1> SUFFICES ASSUME IInv, size <= MaxPlayed, Organize(played) PROVE Kept
  OBVIOUS
<1> DEFINE old == matches[played]
<1>1. played \in DOMAIN matches /\ UNCHANGED <<size, played, submission, overwrote>>
  BY DEF IInv, Organize
<1>2. CASE Start(played)
  <2>1. Save(played, Started(old)) /\ old.status = "SCHEDULED"
    BY <1>2 DEF Start
  <2>2. HasWinner(Started(old)) /\ Stands(old, Started(old))
    BY <2>1 DEF Started, With, HasWinner, Stands
  <2> QED BY <1>1, <2>1, <2>2, SaveKeeps
<1>3. CASE Confirm(played)
  <2>1. Save(played, Confirmed(old)) /\ old.status \in {"AWAITING_CONFIRMATION", "DISPUTED"}
    BY <1>3 DEF Confirm
  <2>2. HasWinner(old) => HasWinner(Confirmed(old))
    BY <2>1 DEF Confirmed, With, HasWinner, Participants
  <2>3. Stands(old, Confirmed(old))
    BY <2>1 DEF Stands
  <2> QED BY <1>1, <2>1, <2>2, <2>3, SaveKeeps
<1>4. CASE Dispute(played)
  <2>1. Save(played, Disputed(old)) /\ old.status \in {"AWAITING_CONFIRMATION", "COMPLETED"}
    BY <1>4 DEF Dispute
  <2>2. HasWinner(old) => HasWinner(Disputed(old))
    BY <2>1 DEF Disputed, With, HasWinner, Participants
  <2>3. Stands(old, Disputed(old))
    BY <2>1 DEF Stands
  <2> QED BY <1>1, <2>1, <2>2, <2>3, SaveKeeps
<1>5. CASE Resolve(played)
  <2>1. PICK winner \in Participants(old), status \in {"COMPLETED", "CANCELED", "SCHEDULED"} :
          Save(played, Resolved(old, winner, status)) /\ old.status = "DISPUTED"
    BY <1>5 DEF Resolve
  <2>2. HasWinner(Resolved(old, winner, status))
    BY <2>1 DEF Resolved, With, HasWinner, Participants
  <2>3. Stands(old, Resolved(old, winner, status))
    BY <2>1 DEF Stands
  <2> QED BY <1>1, <2>1, <2>2, <2>3, SaveKeeps
<1>6. CASE SetParticipants(played)
  <2>1. PICK p, q \in {Null} \cup 1 .. size :
          Save(played, WithParticipants(old, p, q)) /\ Open(old)
    BY <1>6 DEF SetParticipants
  <2>2. WithParticipants(old, p, q).status \in {"SCHEDULED", "PENDING", "BYE"}
    BY <2>1 DEF Open, WithParticipants, AsBye, With
  <2>3. HasWinner(WithParticipants(old, p, q))
    BY <2>2 DEF HasWinner
  <2>4. Stands(old, WithParticipants(old, p, q))
    BY <2>1 DEF Open, Stands
  <2> QED BY <1>1, <2>1, <2>3, <2>4, SaveKeeps
<1>7. CASE Cancel(played)
  <2>1. Save(played, Canceled(old)) /\ Cancelable(old)
    BY <1>7 DEF Cancel
  <2>2. HasWinner(Canceled(old)) /\ Stands(old, Canceled(old))
    BY <2>1 DEF Canceled, Cancelable, With, HasWinner, Stands
  <2> QED BY <1>1, <2>1, <2>2, SaveKeeps
<1> QED BY <1>2, <1>3, <1>4, <1>5, <1>6, <1>7 DEF Organize

LEMMA ReadMatchKeeps ==
  ASSUME IInv, size <= MaxPlayed, NEW s \in Submissions, NEW user, NEW winner,
         ReadMatch(s, played, user, winner)
  PROVE  Kept
<1>1. played \in DOMAIN matches
  BY DEF IInv
<1>2. Carries(Waiting(played, matches[played], winner))
  BY <1>1 DEF ReadMatch, Carries, Waiting
<1>3. /\ DOMAIN submission' = Submissions
      /\ \A t \in Submissions : Carries(submission'[t])
  BY <1>2 DEF IInv, ReadMatch
<1>4. UNCHANGED <<size, matches, played, overwrote>>
  BY DEF ReadMatch
<1> QED BY <1>3, <1>4, SameMatchesKept

LEMMA WriteResultKeeps ==
  ASSUME IInv, NEW s \in Submissions, WriteResult(s)
  PROVE  Kept
<1> DEFINE r == submission[s]
           old == matches[r.match]
           new == Reported(old, r.winner)
<1>1. /\ r.match \in DOMAIN matches
      /\ OpenForResult(r.copy)
      /\ r.winner \in Participants(r.copy)
  BY DEF IInv, Carries, WriteResult
<1>2. /\ DOMAIN matches' = DOMAIN matches
      /\ matches'[r.match] = new
      /\ \A k \in DOMAIN matches : k # r.match => matches'[k] = matches[k]
  BY <1>1 DEF WriteResult, Save
<1>3. ~overwrote' => ~overwrote /\ old = r.copy
  BY DEF WriteResult
<1>4. ~overwrote' => HasWinner(new) /\ Stands(old, new)
  BY <1>1, <1>3 DEF Reported, With, HasWinner, Participants, OpenForResult, Stands
<1>5. ~overwrote => \A k \in DOMAIN matches : HasWinner(matches[k])
  BY DEF IInv, ResultHasWinner, HasWinner
<1>6. ~overwrote' => \A k \in DOMAIN matches' : HasWinner(matches'[k])
  BY <1>2, <1>3, <1>4, <1>5
<1>7. ResultHasWinner'
  BY <1>6 DEF ResultHasWinner, HasWinner
<1>8. /\ DOMAIN submission' = Submissions
      /\ \A t \in Submissions : submission'[t] = submission[t] \/ submission'[t] = NotSubmitting
      /\ UNCHANGED <<size, played>>
  BY DEF IInv, WriteResult
<1>9. \A t \in Submissions : Carries(submission[t])'
  BY <1>2, <1>8 DEF IInv, Carries
<1>10. \A k \in DOMAIN matches : ~overwrote' => Stands(matches[k], matches'[k])
  BY <1>2, <1>4 DEF Stands
<1> QED BY <1>2, <1>7, <1>8, <1>9, <1>10 DEF IInv, Kept

LEMMA SubmissionFailsKeeps ==
  ASSUME IInv, NEW s \in Submissions, SubmissionFails(s)
  PROVE  Kept
<1>1. /\ DOMAIN submission' = Submissions
      /\ \A t \in Submissions : Carries(submission'[t])
  BY DEF IInv, SubmissionFails, Carries
<1> QED BY <1>1, SameMatchesKept DEF SubmissionFails

LEMMA NextKeeps == IInv /\ [Next]_vars => Kept
<1> SUFFICES ASSUME IInv, [Next]_vars PROVE Kept
  OBVIOUS
<1>1. CASE size <= MaxPlayed /\ Organize(played)
  BY <1>1, OrganizeKeeps
<1>2. ASSUME NEW s \in Submissions, NEW user \in 1 .. size, NEW winner \in 1 .. size,
             size <= MaxPlayed, ReadMatch(s, played, user, winner)
      PROVE  Kept
  BY <1>2, ReadMatchKeeps
<1>3. ASSUME NEW s \in Submissions, WriteResult(s) PROVE Kept
  BY <1>3, WriteResultKeeps
<1>4. ASSUME NEW s \in Submissions, SubmissionFails(s) PROVE Kept
  BY <1>4, SubmissionFailsKeeps
<1>5. CASE UNCHANGED vars
  <2>1. \A s \in Submissions : Carries(submission'[s])
    BY <1>5 DEF IInv, Carries, vars
  <2> QED BY <1>5, <2>1, SameMatchesKept DEF vars, IInv
<1> QED BY <1>1, <1>2, <1>3, <1>4, <1>5 DEF Next

-----------------------------------------------------------------------------
THEOREM IInvariant == Spec => []IInv
<1>1. IInv /\ [Next]_vars => IInv'
  BY NextKeeps DEF Kept
<1> QED BY InitIInv, <1>1, PTL DEF Spec

(* Whoever organizes and whoever submits: a match with a result has a winner who plays
   in it, as long as no submission wrote over what it had not read
   (submit-match-result.usecase.js, match.entity.js). *)
THEOREM ResultsHaveWinners == Spec => []ResultHasWinner
<1>1. IInv => ResultHasWinner
  BY DEF IInv
<1> QED BY <1>1, IInvariant, PTL

(* A match that is over stays as it is until it is disputed, by the status checks of
   the entity and of the submission (match.entity.js, submit-match-result.usecase.js). *)
THEOREM DecisionsAreKept == Spec => DecisionsStand
<1>1. IInv /\ [Next]_vars =>
        [\A m \in DOMAIN matches :
           matches[m].status \in {"COMPLETED", "CANCELED"} /\ ~overwrote' =>
             \/ matches'[m] = matches[m]
             \/ matches[m].status = "COMPLETED" /\ matches'[m] = Disputed(matches[m])]_vars
  BY NextKeeps DEF Kept, Stands
<1> QED BY <1>1, IInvariant, PTL DEF Spec, DecisionsStand

-----------------------------------------------------------------------------

(* Induction, as the provers can use it: over a set of numbers, from the least element
   of its complement. *)

LEMMA LeastElement ==
  ASSUME NEW S \in SUBSET Nat, S # {}
  PROVE  \E n \in S : \A m \in S : n <= m
<1> DEFINE R == OpToRel(<, Nat)
<1>1. IsWellFoundedOn(R, Nat)
  BY NatLessThanWellFounded
<1>2. \A x, y \in Nat : x < y => <<x, y>> \in R
  BY DEF OpToRel
<1> HIDE DEF R
<1>3. PICK x \in S : \A y \in S : <<y, x>> \notin R
  BY <1>1, WFMin
<1>4. \A y \in S : ~(y < x)
  BY <1>2, <1>3
<1> QED BY <1>4

(* What holds of 0 and passes on holds of every number. *)
LEMMA Induction ==
  ASSUME NEW S, 0 \in S, \A n \in Nat : n \in S => n + 1 \in S
  PROVE  \A n \in Nat : n \in S
<1> SUFFICES ASSUME Nat \ S # {} PROVE FALSE
  OBVIOUS
<1>1. PICK n \in Nat \ S : \A m \in Nat \ S : n <= m
  BY LeastElement
<1>2. n - 1 \in S
  BY <1>1
<1> QED BY <1>1, <1>2

(* The same over an interval, from its lower end up, *)
LEMMA Upwards ==
  ASSUME NEW a \in Int, NEW b \in Int, NEW S, a \in S,
         \A n \in Int : a <= n /\ n < b /\ n \in S => n + 1 \in S
  PROVE  \A n \in a .. b : n \in S
<1> DEFINE T == {n \in Nat : a + n <= b => a + n \in S}
<1>1. 0 \in T
  OBVIOUS
<1>2. \A n \in Nat : n \in T => n + 1 \in T
  <2> SUFFICES ASSUME NEW n \in Nat, n \in T, a + (n + 1) <= b PROVE a + (n + 1) \in S
    OBVIOUS
  <2>1. a + n \in S /\ a + n < b /\ a <= a + n
    OBVIOUS
  <2>2. (a + n) + 1 \in S
    BY <2>1
  <2> QED BY <2>2
<1> HIDE DEF T
<1>3. \A n \in Nat : n \in T
  BY <1>1, <1>2, Induction
<1> SUFFICES ASSUME NEW n \in a .. b PROVE n \in S
  OBVIOUS
<1>4. n - a \in T
  BY <1>3
<1> QED BY <1>4 DEF T

(* and from its upper end down. *)
LEMMA Downwards ==
  ASSUME NEW a \in Int, NEW b \in Int, NEW S, b \in S,
         \A n \in Int : a < n /\ n <= b /\ n \in S => n - 1 \in S
  PROVE  \A n \in a .. b : n \in S
<1> DEFINE T == {n \in Int : b - n + a \in S}
<1>1. a \in T
  OBVIOUS
<1>2. \A n \in Int : a <= n /\ n < b /\ n \in T => n + 1 \in T
  <2> SUFFICES ASSUME NEW n \in Int, a <= n, n < b, n \in T PROVE b - (n + 1) + a \in S
    OBVIOUS
  <2>1. b - n + a \in S /\ a < b - n + a /\ b - n + a <= b
    OBVIOUS
  <2>2. (b - n + a) - 1 \in S
    BY <2>1
  <2> QED BY <2>2
<1> HIDE DEF T
<1>3. \A n \in a .. b : n \in T
  BY <1>1, <1>2, Upwards
<1> SUFFICES ASSUME NEW n \in a .. b PROVE n \in S
  OBVIOUS
<1>4. b - n + a \in T
  BY <1>3
<1>5. b - (b - n + a) + a = n
  OBVIOUS
<1> QED BY <1>4, <1>5 DEF T

(* A recursive definition over 0 .. n has a solution; step is a function of the index and
   of the value before it. *)
Runs(V, v0, step, n) ==
  {g \in [0 .. n -> V] : g[0] = v0 /\ \A k \in 0 .. n - 1 : g[k + 1] = step[<<k, g[k]>>]}

LEMMA Iteration ==
  ASSUME NEW V, NEW v0 \in V, NEW step \in [Nat \X V -> V], NEW N \in Nat
  PROVE  \E g : g \in Runs(V, v0, step, N)
<1> USE DEF Runs
<1> DEFINE Run(n) == Runs(V, v0, step, n)
           S == {n \in Nat : Run(n) # {}}
<1>1. 0 \in S
  <2> DEFINE g == [k \in 0 .. 0 |-> v0]
  <2>1. g \in Run(0)
    OBVIOUS
  <2> QED BY <2>1
<1>2. ASSUME NEW n \in Nat, n \in S PROVE n + 1 \in S
  <2>1. PICK g : g \in Run(n)
    BY <1>2
  <2> DEFINE h == [k \in 0 .. n + 1 |-> IF k = n + 1 THEN step[<<n, g[n]>>] ELSE g[k]]
  <2>2. g \in [0 .. n -> V] /\ g[n] \in V /\ g[0] = v0
    BY <2>1
  <2>3. step[<<n, g[n]>>] \in V
    BY <2>2
  <2>4. h \in [0 .. n + 1 -> V] /\ h[0] = v0
    BY <2>2, <2>3
  <2>5. ASSUME NEW k \in 0 .. (n + 1) - 1 PROVE h[k + 1] = step[<<k, h[k]>>]
    <3>1. CASE k = n
      <4>1. h[n + 1] = step[<<n, g[n]>>] /\ h[n] = g[n]
        OBVIOUS
      <4> HIDE DEF h
      <4> QED BY <3>1, <4>1
    <3>2. CASE k # n
      <4>1. /\ k \in 0 .. n - 1 /\ k + 1 # n + 1 /\ k # n + 1
            /\ k + 1 \in 0 .. n + 1 /\ k \in 0 .. n + 1
        BY <3>2
      <4>2. h[k + 1] = g[k + 1] /\ h[k] = g[k]
        BY <4>1
      <4> QED BY <2>1, <4>1, <4>2
    <3> QED BY <3>1, <3>2
  <2>6. h \in Run(n + 1)
    <3> HIDE DEF h
    <3> QED BY <2>4, <2>5
  <2> QED BY <2>6
<1> HIDE DEF S
<1>3. N \in S
  BY <1>1, <1>2, Induction
<1> QED BY <1>3 DEF S

Follows(V, v0, step, f) ==
  /\ f \in [Nat -> V]
  /\ f[0] = v0 /\ \A n \in Nat : f[n + 1] = step[<<n, f[n]>>]

(* The same over all numbers. *)
LEMMA Recursion ==
  ASSUME NEW V, NEW v0 \in V, NEW step \in [Nat \X V -> V]
  PROVE  \E f : Follows(V, v0, step, f)
<1> DEFINE Run(n, g) == g \in Runs(V, v0, step, n)
           run == [n \in Nat |-> CHOOSE g : Run(n, g)]
           f == [n \in Nat |-> run[n][n]]
<1>1. ASSUME NEW n \in Nat PROVE Run(n, run[n])
  <2>1. \E g : Run(n, g)
    BY Iteration
  <2> HIDE DEF Run
  <2> QED BY <2>1
<1>2. ASSUME NEW n \in Nat PROVE run[n + 1][n] = run[n][n]
  <2> DEFINE S == {k \in Int : run[n + 1][k] = run[n][k]}
  <2>0. Run(n, run[n]) /\ Run(n + 1, run[n + 1])
    <3>1. n + 1 \in Nat
      OBVIOUS
    <3> HIDE DEF run, Run
    <3> QED BY <1>1, <3>1
  <2> HIDE DEF run
  <2>1. 0 \in S
    BY <2>0 DEF Runs
  <2>2. \A k \in Int : 0 <= k /\ k < n /\ k \in S => k + 1 \in S
    <3> SUFFICES ASSUME NEW k \in Int, 0 <= k, k < n, run[n + 1][k] = run[n][k]
        PROVE run[n + 1][k + 1] = run[n][k + 1]
      OBVIOUS
    <3>1. k \in 0 .. n - 1 /\ k \in 0 .. (n + 1) - 1
      OBVIOUS
    <3> QED BY <2>0, <3>1 DEF Runs
  <2> HIDE DEF S
  <2>3. \A k \in 0 .. n : k \in S
    BY <2>1, <2>2, Upwards
  <2>4. n \in S
    BY <2>3
  <2> QED BY <2>4 DEF S
<1>3. \A n \in Nat : f[n] \in V
  <2> TAKE n \in Nat
  <2>1. Run(n, run[n])
    BY <1>1
  <2> HIDE DEF run
  <2> QED BY <2>1 DEF Runs
<1>4. f[0] = v0
  <2>1. Run(0, run[0])
    BY <1>1
  <2> HIDE DEF run
  <2> QED BY <2>1 DEF Runs
<1>5. ASSUME NEW n \in Nat PROVE f[n + 1] = step[<<n, f[n]>>]
  <2>1. Run(n + 1, run[n + 1]) /\ run[n + 1][n] = run[n][n]
    <3>1. n + 1 \in Nat
      OBVIOUS
    <3> HIDE DEF run, Run
    <3> QED BY <1>1, <1>2, <3>1
  <2> HIDE DEF run
  <2>2. n \in 0 .. (n + 1) - 1
    OBVIOUS
  <2>3. run[n + 1][n + 1] = step[<<n, run[n + 1][n]>>]
    BY <2>1, <2>2 DEF Runs
  <2> QED BY <2>1, <2>3
<1> HIDE DEF run
<1>6. f \in [Nat -> V]
  BY <1>3
<1> HIDE DEF f
<1> QED BY <1>4, <1>5, <1>6 DEF Follows

-----------------------------------------------------------------------------

(* Pow2 is what its definition says: the definition has a solution. *)
LEMMA PowersOfTwo ==
  /\ Pow2[0] = 1
  /\ \A r \in Nat : Pow2[r] \in Nat /\ Pow2[r + 1] = 2 * Pow2[r]
<1> DEFINE step == [x \in Nat \X Nat |-> 2 * x[2]]
           Def(f) == f = [r \in Nat |-> IF r = 0 THEN 1 ELSE 2 * f[r - 1]]
<1>1. step \in [Nat \X Nat -> Nat]
  OBVIOUS
<1>2. PICK f \in [Nat -> Nat] : f[0] = 1 /\ \A n \in Nat : f[n + 1] = step[<<n, f[n]>>]
  <2>1. 1 \in Nat
    OBVIOUS
  <2> HIDE DEF step
  <2>2. \E f : Follows(Nat, 1, step, f)
    BY <1>1, <2>1, Recursion
  <2> QED BY <2>2 DEF Follows
<1>3. \A n \in Nat : f[n + 1] = 2 * f[n]
  BY <1>2
<1>4. Def(f)
  <2> SUFFICES ASSUME NEW r \in Nat PROVE f[r] = IF r = 0 THEN 1 ELSE 2 * f[r - 1]
    BY <1>2
  <2>1. CASE r = 0
    BY <1>2, <2>1
  <2>2. CASE r # 0
    <3>1. r - 1 \in Nat /\ (r - 1) + 1 = r
      BY <2>2
    <3> QED BY <1>3, <2>2, <3>1
  <2> QED BY <2>1, <2>2
<1>5. Pow2 = CHOOSE g : Def(g)
  BY DEF Pow2
<1>6. Def(Pow2)
  <2> HIDE DEF Def
  <2> QED BY <1>4, <1>5
<1> DEFINE S == {r \in Nat : Pow2[r] \in Nat}
<1>7. Pow2[0] = 1 /\ \A n \in Nat : Pow2[n + 1] = 2 * Pow2[n]
  <2> SUFFICES ASSUME NEW n \in Nat PROVE Pow2[0] = 1 /\ Pow2[n + 1] = 2 * Pow2[n]
    OBVIOUS
  <2>1. n + 1 # 0 /\ n + 1 \in Nat /\ (n + 1) - 1 = n /\ 0 \in Nat
    OBVIOUS
  <2>2. Pow2[n + 1] = IF n + 1 = 0 THEN 1 ELSE 2 * Pow2[(n + 1) - 1]
    BY <1>6, <2>1
  <2>3. Pow2[0] = 1
    BY <1>6
  <2> QED BY <2>1, <2>2, <2>3
<1>8. \A n \in Nat : n \in S
  <2>1. 0 \in S /\ \A n \in Nat : n \in S => n + 1 \in S
    BY <1>7
  <2> HIDE DEF S
  <2> QED BY <2>1, Induction
<1> QED BY <1>7, <1>8

(* A power of two is above its exponent, and a higher one is twice as large at least. *)
LEMMA PowersGrow ==
  /\ \A r \in Nat : Pow2[r] \in Nat /\ Pow2[r] > r
  /\ \A a, b \in Nat : a < b => 2 * Pow2[a] <= Pow2[b]
<1>1. ASSUME NEW r \in Nat PROVE Pow2[r] \in Nat /\ Pow2[r] > r
  <2> DEFINE S == {k \in Nat : Pow2[k] > k}
  <2>1. 0 \in S /\ \A k \in Nat : k \in S => k + 1 \in S
    BY PowersOfTwo
  <2> HIDE DEF S
  <2>2. r \in S
    BY <2>1, Induction
  <2> QED BY <2>2, PowersOfTwo DEF S
<1>2. ASSUME NEW a \in Nat, NEW b \in Nat, a < b PROVE 2 * Pow2[a] <= Pow2[b]
  <2> DEFINE S == {k \in Int : 2 * Pow2[a] <= Pow2[k]}
  <2>1. a + 1 \in S
    BY PowersOfTwo
  <2>2. \A k \in Int : a + 1 <= k /\ k < b /\ k \in S => k + 1 \in S
    <3> SUFFICES ASSUME NEW k \in Int, a + 1 <= k, 2 * Pow2[a] <= Pow2[k]
        PROVE 2 * Pow2[a] <= Pow2[k + 1]
      OBVIOUS
    <3>1. k \in Nat
      OBVIOUS
    <3> QED BY <3>1, PowersOfTwo
  <2> HIDE DEF S
  <2>3. \A k \in a + 1 .. b : k \in S
    BY <2>1, <2>2, Upwards
  <2>4. b \in S
    BY <1>2, <2>3
  <2> QED BY <2>4 DEF S
<1> QED BY <1>1, <1>2

(* The number of rounds is the logarithm, rounded up. *)
LEMMA RoundsAreLogarithm ==
  ASSUME NEW n \in Nat, n >= 2
  PROVE  /\ NumRounds(n) \in 1 .. n
         /\ Pow2[NumRounds(n) - 1] < n /\ n <= Pow2[NumRounds(n)]
<1> DEFINE S == {r \in Nat : n <= Pow2[r]}
           Is(r) == r \in 0 .. n /\ n <= Pow2[r] /\ \A q \in 0 .. r - 1 : Pow2[q] < n
<1>1. n \in S
  BY PowersGrow
<1>2. PICK r \in S : \A q \in S : r <= q
  BY <1>1, LeastElement
<1>3. Is(r)
  <2>1. r \in 0 .. n
    BY <1>1, <1>2
  <2>2. ASSUME NEW q \in 0 .. r - 1 PROVE Pow2[q] < n
    <3>1. q \in Nat /\ q \notin S /\ Pow2[q] \in Nat
      BY <1>2, PowersGrow
    <3> QED BY <3>1
  <2> QED BY <1>2, <2>1, <2>2
<1>4. NumRounds(n) = CHOOSE q : Is(q)
  BY DEF NumRounds
<1>5. Is(NumRounds(n))
  <2> HIDE DEF Is
  <2> QED BY <1>3, <1>4
<1>6. NumRounds(n) # 0
  BY <1>5, PowersOfTwo
<1> QED BY <1>5, <1>6

(* The sizes of the rounds: a half of a full bracket, a quarter, ..., and then one. *)
LEMMA SizesHalve ==
  ASSUME NEW n \in Nat, n >= 2,
         NEW R, R = NumRounds(n)
  PROVE  /\ NumByes(n) \in Nat /\ NumByes(n) = Pow2[R] - n
         /\ FirstRoundSize(n) = Pow2[R - 1]
         /\ RoundSizes(n) = [r \in 1 .. n |-> IF r <= R THEN Pow2[R - r] ELSE 1]
<1>0. /\ R \in 1 .. n /\ Pow2[R - 1] < n /\ n <= Pow2[R]
      /\ Pow2[R] = 2 * Pow2[R - 1] /\ Pow2[R - 1] \in Nat
  <2>1. R \in 1 .. n /\ Pow2[R - 1] < n /\ n <= Pow2[R]
    BY RoundsAreLogarithm
  <2>2. R - 1 \in Nat /\ (R - 1) + 1 = R
    BY <2>1
  <2> QED BY <2>1, <2>2, PowersOfTwo
<1>1. /\ NumByes(n) \in Nat /\ NumByes(n) = Pow2[R] - n
      /\ FirstRoundSize(n) = Pow2[R - 1]
  BY <1>0 DEF NumByes, FirstRoundSize
<1> DEFINE Def(f) == f = [r \in 1 .. n |->
                            IF r = 1 THEN FirstRoundSize(n) ELSE (f[r - 1] + 1) \div 2]
           g == [r \in 1 .. n |-> IF r <= R THEN Pow2[R - r] ELSE 1]
<1>2. ASSUME NEW r \in 2 .. n PROVE g[r] = (g[r - 1] + 1) \div 2
  <2>1. CASE r <= R
    <3>1. /\ R - r \in Nat /\ (R - r) + 1 = R - (r - 1)
          /\ r - 1 \in 1 .. n /\ r - 1 <= R
      BY <1>0, <2>1
    <3>2. Pow2[R - (r - 1)] = 2 * Pow2[R - r] /\ Pow2[R - r] \in Nat
      BY <3>1, PowersOfTwo
    <3>3. \A x \in Nat : (2 * x + 1) \div 2 = x
      OBVIOUS
    <3>4. g[r] = Pow2[R - r] /\ g[r - 1] = Pow2[R - (r - 1)]
      BY <2>1, <3>1
    <3> HIDE DEF g
    <3> QED BY <3>2, <3>3, <3>4
  <2>2. CASE ~(r <= R)
    <3>1. r - 1 \in 1 .. n /\ (r - 1 <= R => R - (r - 1) = 0)
      BY <1>0, <2>2
    <3>2. g[r] = 1
      BY <2>2
    <3>3. g[r - 1] = IF r - 1 <= R THEN Pow2[R - (r - 1)] ELSE 1
      BY <3>1
    <3>4. g[r - 1] = 1
      <4> HIDE DEF g
      <4> QED BY <3>1, <3>3, PowersOfTwo
    <3> HIDE DEF g
    <3> QED BY <3>2, <3>4
  <2> QED BY <2>1, <2>2
<1>3. g[1] = FirstRoundSize(n)
  BY <1>0, <1>1
<1>4. Def(g)
  <2> SUFFICES ASSUME NEW r \in 1 .. n
      PROVE g[r] = IF r = 1 THEN FirstRoundSize(n) ELSE (g[r - 1] + 1) \div 2
    OBVIOUS
  <2> HIDE DEF g
  <2> QED BY <1>2, <1>3
<1>5. Def(RoundSizes(n))
  <2>1. RoundSizes(n) = CHOOSE q : Def(q)
    BY DEF RoundSizes
  <2> HIDE DEF Def
  <2> QED BY <1>4, <2>1
<1> DEFINE S == {r \in Int : RoundSizes(n)[r] = g[r]}
<1>6. \A r \in 1 .. n : r \in S
  <2>1. 1 \in S
    <3> HIDE DEF g
    <3> QED BY <1>3, <1>5
  <2>2. ASSUME NEW r \in Int, 1 <= r, r < n, r \in S PROVE r + 1 \in S
    <3>1. r + 1 \in 2 .. n /\ (r + 1) - 1 = r
      BY <2>2
    <3> HIDE DEF g
    <3> QED BY <1>2, <1>5, <2>2, <3>1
  <2> HIDE DEF S
  <2> QED BY <2>1, <2>2, Upwards
<1>7. RoundSizes(n) = g
  <2>1. RoundSizes(n) = [r \in 1 .. n |-> RoundSizes(n)[r]]
    BY <1>5
  <2>2. g = [r \in 1 .. n |-> g[r]]
    OBVIOUS
  <2> HIDE DEF g
  <2>3. \A r \in 1 .. n : RoundSizes(n)[r] = g[r]
    BY <1>6
  <2> QED BY <2>1, <2>2, <2>3
<1> QED BY <1>1, <1>7

LEMMA LastRoundIs ==
  ASSUME NEW n \in Nat, n >= 2,
         NEW R, R = NumRounds(n)
  PROVE  LastRound(n) = R
<1> DEFINE Is(r) == /\ r \in 1 .. n
                    /\ RoundSizes(n)[r] = 1
                    /\ \A q \in 1 .. r - 1 : RoundSizes(n)[q] > 1
<1>1. R \in 1 .. n /\ \A r \in 1 .. n : RoundSizes(n)[r] = IF r <= R THEN Pow2[R - r] ELSE 1
  BY SizesHalve, RoundsAreLogarithm
<1>2. RoundSizes(n)[R] = 1
  BY <1>1, PowersOfTwo
<1>3. ASSUME NEW q \in 1 .. R - 1 PROVE RoundSizes(n)[q] > 1
  <2>1. q \in 1 .. n /\ q <= R /\ R - q \in Nat /\ R - q > 0
    BY <1>1
  <2> QED BY <1>1, <2>1, PowersGrow
<1>4. Is(R)
  BY <1>1, <1>2, <1>3
<1>5. ASSUME NEW r, Is(r) PROVE r = R
  <2>1. ~(r < R)
    BY <1>1, <1>3, <1>5
  <2>2. ~(R < r)
    BY <1>1, <1>2, <1>5
  <2> QED BY <1>1, <1>5, <2>1, <2>2
<1>6. LastRound(n) = CHOOSE r : Is(r)
  BY DEF LastRound
<1> HIDE DEF Is
<1> QED BY <1>4, <1>5, <1>6

(* Counted from the end, a round begins where its sizes does. *)
LEMMA BeforeIs ==
  ASSUME NEW n \in Nat, n >= 2,
         NEW R, R = NumRounds(n)
  PROVE  \A r \in 1 .. R + 1 : Before(n, r) = Pow2[R] - Pow2[R - r + 1]
<1> DEFINE sizes == RoundSizes(n)
           Def(f) == f = [q \in 1 .. n + 1 |-> IF q = 1 THEN 0 ELSE f[q - 1] + sizes[q - 1]]
           g == [q \in 1 .. n + 1 |-> IF q <= R + 1 THEN Pow2[R] - Pow2[R - q + 1]
                                                  ELSE Pow2[R] - 1 + (q - (R + 1))]
           sum == CHOOSE f : Def(f)
<1>0. R \in 1 .. n /\ Pow2[R] \in Nat
  BY RoundsAreLogarithm, PowersGrow
<1>1. \A q \in 1 .. n : sizes[q] = IF q <= R THEN Pow2[R - q] ELSE 1
  BY SizesHalve
<1>2. ASSUME NEW q \in 2 .. n + 1 PROVE g[q] = g[q - 1] + sizes[q - 1]
  <2>0. q \in 1 .. n + 1 /\ q - 1 \in 1 .. n /\ q - 1 \in 1 .. n + 1
    OBVIOUS
  <2>1. CASE q <= R + 1
    <3>1. /\ R - (q - 1) \in Nat /\ (R - (q - 1)) + 1 = R - (q - 1) + 1
          /\ R - q + 1 = R - (q - 1) /\ q - 1 <= R /\ q - 1 <= R + 1
      BY <1>0, <2>1
    <3> DEFINE x == R - (q - 1)
    <3>2. Pow2[x + 1] = 2 * Pow2[x] /\ Pow2[x] \in Nat
      BY <3>1, PowersOfTwo
    <3>3. /\ g[q] = Pow2[R] - Pow2[x] /\ g[q - 1] = Pow2[R] - Pow2[x + 1]
          /\ sizes[q - 1] = Pow2[x]
      BY <1>1, <2>0, <2>1, <3>1
    <3> HIDE DEF g, x, sizes
    <3> QED BY <1>0, <3>2, <3>3
  <2>2. CASE ~(q <= R + 1)
    <3>1. sizes[q - 1] = 1 /\ g[q] = Pow2[R] - 1 + (q - (R + 1))
      BY <1>0, <1>1, <2>0, <2>2
    <3>2. g[q - 1] = Pow2[R] - 1 + (q - 1 - (R + 1))
      <4>1. CASE q - 1 = R + 1
        <5>1. R - (q - 1) + 1 = 0
          BY <1>0, <4>1
        <5> QED BY <1>0, <2>0, <4>1, <5>1, PowersOfTwo
      <4>2. CASE q - 1 # R + 1
        BY <1>0, <2>0, <2>2, <4>2
      <4> QED BY <4>1, <4>2
    <3> HIDE DEF g, sizes
    <3> QED BY <1>0, <3>1, <3>2
  <2> QED BY <2>1, <2>2
<1>3. g[1] = 0
  BY <1>0
<1> HIDE DEF sizes
<1>4. Def(g)
  <2> SUFFICES ASSUME NEW q \in 1 .. n + 1
      PROVE g[q] = IF q = 1 THEN 0 ELSE g[q - 1] + sizes[q - 1]
    OBVIOUS
  <2> HIDE DEF g
  <2> QED BY <1>2, <1>3
<1>5. Def(sum)
  <2> HIDE DEF Def
  <2> QED BY <1>4
<1> DEFINE S == {r \in Int : sum[r] = g[r]}
<1> HIDE DEF sum
<1>6. \A r \in 1 .. n + 1 : r \in S
  <2>1. 1 \in S
    <3> HIDE DEF g
    <3> QED BY <1>3, <1>5
  <2>2. ASSUME NEW r \in Int, 1 <= r, r < n + 1, r \in S PROVE r + 1 \in S
    <3>1. r + 1 \in 2 .. n + 1 /\ (r + 1) - 1 = r
      BY <2>2
    <3> HIDE DEF g
    <3> QED BY <1>2, <1>5, <2>2, <3>1
  <2> HIDE DEF S
  <2> QED BY <2>1, <2>2, Upwards
<1>7. \A r : Before(n, r) = sum[r]
  BY DEF Before, sum, sizes
<1> SUFFICES ASSUME NEW r \in 1 .. R + 1 PROVE Before(n, r) = Pow2[R] - Pow2[R - r + 1]
  OBVIOUS
<1>8. r \in 1 .. n + 1 /\ r <= R + 1
  BY <1>0
<1> QED BY <1>6, <1>7, <1>8

-----------------------------------------------------------------------------

(* The places of a full bracket, counted from the final, are numbered like the nodes of a
   binary heap: the round of a node is its level, and the winner of node d goes on to node
   d \div 2.  With byes every bracket is full. *)
Level(r, R, d) == r \in 1 .. R /\ Pow2[R - r] <= d /\ d < Pow2[R - r + 1]

(* Every node has a level, the least power of two above it giving which, *)
LEMMA EveryNodeHasLevel ==
  ASSUME NEW R \in Nat, NEW d \in Nat, 1 <= d, d < Pow2[R]
  PROVE  \E r : Level(r, R, d)
<1> DEFINE S == {k \in Nat : d < Pow2[k]}
<1>1. R \in S
  OBVIOUS
<1>2. PICK k \in S : \A q \in S : k <= q
  BY <1>1, LeastElement
<1>3. k # 0
  BY <1>2, PowersOfTwo
<1>4. k - 1 \in Nat /\ k - 1 \notin S /\ k <= R
  BY <1>1, <1>2, <1>3
<1>5. ~(d < Pow2[k - 1]) /\ Pow2[k - 1] \in Nat
  BY <1>4, PowersGrow
<1>6. R - (R - k + 1) = k - 1 /\ R - (R - k + 1) + 1 = k /\ R - k + 1 \in 1 .. R
  BY <1>3, <1>4
<1>7. Level(R - k + 1, R, d)
  BY <1>2, <1>5, <1>6 DEF Level
<1> QED BY <1>7

(* and only one. *)
LEMMA OneLevel ==
  ASSUME NEW R \in Nat, NEW d \in Nat, NEW q, NEW r, Level(q, R, d), Level(r, R, d)
  PROVE  q = r
<1>1. \A a, b \in Nat : a < b => 2 * Pow2[a] <= Pow2[b]
  BY PowersGrow
<1>2. \A a \in Nat : Pow2[a] \in Nat /\ Pow2[a + 1] = 2 * Pow2[a]
  BY PowersOfTwo
<1>3. ASSUME NEW a \in 1 .. R, NEW b \in 1 .. R, Level(a, R, d), Level(b, R, d) PROVE ~(a < b)
  <2> SUFFICES ASSUME a < b PROVE FALSE
    OBVIOUS
  <2>1. R - b \in Nat /\ R - a \in Nat /\ R - b < R - a /\ R - b + 1 = (R - b) + 1
    OBVIOUS
  <2>2. Pow2[R - b + 1] <= Pow2[R - a] /\ Pow2[R - a] \in Nat /\ Pow2[R - b + 1] \in Nat
    BY <1>1, <1>2, <2>1
  <2>3. Pow2[R - a] <= d /\ d < Pow2[R - b + 1]
    BY <1>3 DEF Level
  <2> QED BY <2>2, <2>3
<1>4. q \in 1 .. R /\ r \in 1 .. R
  BY DEF Level
<1>5. ~(q < r) /\ ~(r < q)
  BY <1>3, <1>4
<1> QED BY <1>4, <1>5

(* Node d's match, its round, its number, and the next one. *)
LEMMA MatchIsNode ==
  ASSUME NEW n \in Nat, n >= 2,
         NEW R, R = NumRounds(n), NEW P, P = Pow2[R],
         NEW d \in 1 .. P - 1
  PROVE  /\ Level(RoundOf(n, P - d), R, d)
         /\ Before(n, RoundOf(n, P - d)) = P - Pow2[R - RoundOf(n, P - d) + 1]
         /\ NextMatch(n, P - d) = IF d = 1 THEN Null ELSE P - d \div 2
<1>0. /\ R \in 1 .. n /\ R \in Nat /\ P \in Nat /\ LastRound(n) = R /\ d \in Nat /\ 1 <= d /\ d < P
      /\ \A r \in 1 .. R + 1 : Before(n, r) = P - Pow2[R - r + 1]
  BY RoundsAreLogarithm, PowersGrow, LastRoundIs, BeforeIs
<1> DEFINE m == P - d
           Is(r) == r \in 1 .. LastRound(n) /\ Before(n, r) < m /\ m <= Before(n, r + 1)
<1>1. \A r : Is(r) <=> Level(r, R, d)
  <2> SUFFICES ASSUME NEW r \in 1 .. R PROVE Is(r) <=> Level(r, R, d)
    BY <1>0 DEF Level
  <2>1. /\ r \in 1 .. R + 1 /\ r + 1 \in 1 .. R + 1 /\ R - (r + 1) + 1 = R - r
        /\ R - r \in Nat /\ R - r + 1 \in Nat
    BY <1>0
  <2>2. Before(n, r) = P - Pow2[R - r + 1] /\ Before(n, r + 1) = P - Pow2[R - r]
    BY <1>0, <2>1
  <2>3. Pow2[R - r] \in Nat /\ Pow2[R - r + 1] \in Nat
    BY <2>1, PowersGrow
  <2> QED BY <1>0, <2>2, <2>3 DEF Level
<1>2. \E r : Level(r, R, d)
  BY <1>0, EveryNodeHasLevel
<1>3. RoundOf(n, m) = CHOOSE r : Is(r)
  BY DEF RoundOf
<1> DEFINE r == RoundOf(n, m)
<1>4. Level(r, R, d)
  <2> HIDE DEF Is, m
  <2> QED BY <1>1, <1>2, <1>3
<1>5. r \in 1 .. R /\ Before(n, r) = P - Pow2[R - r + 1]
  <2>1. r \in 1 .. R /\ r \in 1 .. R + 1
    BY <1>0, <1>4 DEF Level
  <2> HIDE DEF r
  <2> QED BY <1>0, <2>1
<1>6. NextMatch(n, m) = IF d = 1 THEN Null ELSE P - d \div 2
  <2>1. NextMatch(n, m) = IF r = R THEN Null
                          ELSE Before(n, r + 1) + (m - Before(n, r) + 1) \div 2
    BY <1>0 DEF NextMatch
  <2> HIDE DEF r
  <2>2. CASE r = R
    <3>1. R - r = 0 /\ R - r + 1 = 0 + 1
      BY <1>0, <2>2
    <3>2. Pow2[R - r + 1] = 2
      BY <3>1, PowersOfTwo
    <3>3. d = 1
      BY <1>0, <1>4, <3>2 DEF Level
    <3> QED BY <2>1, <2>2, <3>3
  <2>3. CASE r # R
    <3>1. /\ r + 1 \in 1 .. R + 1 /\ R - (r + 1) + 1 = R - r
          /\ R - r \in Nat /\ 0 < R - r /\ R - r + 1 = (R - r) + 1
      BY <1>0, <1>5, <2>3
    <3> DEFINE Q == Pow2[R - r]
    <3>2. Before(n, r + 1) = P - Q /\ Before(n, r) = P - 2 * Q
      <4>1. Before(n, r + 1) = P - Q
        BY <1>0, <3>1
      <4>2. Pow2[R - r + 1] = 2 * Q
        BY <3>1, PowersOfTwo
      <4> QED BY <1>5, <4>1, <4>2
    <3>3. Q \in Nat /\ 2 * Pow2[0] <= Q
      BY <3>1, PowersGrow
    <3>4. Q \in Nat /\ 2 <= Q
      BY <3>3, PowersOfTwo
    <3>5. Q <= d
      BY <1>4 DEF Level
    <3> HIDE DEF Q
    <3>6. m - Before(n, r) + 1 = 2 * Q - d + 1
      BY <1>0, <3>2, <3>4
    <3>7. (2 * Q - d + 1) \div 2 = Q - d \div 2
      BY <1>0, <3>4
    <3>8. NextMatch(n, m) = (P - Q) + (Q - d \div 2)
      BY <2>1, <2>3, <3>2, <3>6, <3>7
    <3>9. d \div 2 \in Nat
      BY <1>0
    <3>10. d # 1
      BY <3>4, <3>5
    <3> QED BY <1>0, <3>4, <3>8, <3>9, <3>10
  <2> QED BY <2>2, <2>3
<1> QED BY <1>4, <1>5, <1>6

(* A function on 1 .. N is a sequence of length N. *)
LEMMA LengthOfFunction ==
  ASSUME NEW N \in Nat, NEW b, b = [m \in 1 .. N |-> b[m]]
  PROVE  Len(b) = N /\ DOMAIN b = 1 .. N
<1> DEFINE T == {b[m] : m \in 1 .. N}
<1>1. b \in [1 .. N -> T]
  OBVIOUS
<1>2. b \in Seq(T)
  BY <1>1, SeqDef
<1>3. DOMAIN b = 1 .. N
  BY <1>1
<1> HIDE DEF T
<1>4. Len(b) \in Nat /\ DOMAIN b = 1 .. Len(b)
  BY <1>2, LenProperties
<1> QED BY <1>3, <1>4

(* The rows of a bracket, by their places. *)
LEMMA RowsOfBracket ==
  ASSUME NEW n \in Nat, n >= 2,
         NEW R, R = NumRounds(n), NEW P, P = Pow2[R],
         NEW b, b = SingleElimination(n)
  PROVE  /\ DOMAIN b = 1 .. P - 1 /\ Len(b) = P - 1
         /\ \A m \in 1 .. P - 1 :
              /\ b[m].round = RoundOf(n, m)
              /\ b[m].number = m - Before(n, RoundOf(n, m))
              /\ b[m].next = NextMatch(n, m)
              /\ b[m].round = 1 <=> m <= Pow2[R - 1]
              /\ m <= Pow2[R - 1] =>
                   /\ b[m].p1 = m
                   /\ b[m].p2 = IF m <= P - n THEN Null ELSE P + 1 - m
<1>0. /\ R \in 1 .. n /\ P \in Nat /\ P > 1 /\ P = 2 * Pow2[R - 1] /\ Pow2[R - 1] \in Nat
      /\ n <= P /\ Pow2[R - 1] < n
      /\ NumByes(n) = P - n /\ FirstRoundSize(n) = Pow2[R - 1] /\ LastRound(n) = R
      /\ Before(n, R + 1) = P - 1 /\ Before(n, 1) = 0
  <2>1. R \in 1 .. n /\ R - 1 \in Nat /\ (R - 1) + 1 = R /\ n <= P /\ Pow2[R - 1] < n
    BY RoundsAreLogarithm
  <2>2. P = 2 * Pow2[R - 1] /\ Pow2[R - 1] \in Nat /\ P > 1
    BY <2>1, PowersOfTwo, PowersGrow
  <2>3. NumByes(n) = P - n /\ FirstRoundSize(n) = Pow2[R - 1] /\ LastRound(n) = R
    BY SizesHalve, LastRoundIs
  <2>4. Before(n, R + 1) = P - Pow2[0] /\ Before(n, 1) = P - Pow2[R]
    <3>1. /\ R + 1 \in 1 .. R + 1 /\ R - (R + 1) + 1 = 0
          /\ 1 \in 1 .. R + 1 /\ R - 1 + 1 = R
      BY <2>1
    <3> QED BY <3>1, BeforeIs
  <2> QED BY <2>1, <2>2, <2>3, <2>4, PowersOfTwo
<1>1. /\ b = [m \in 1 .. P - 1 |-> b[m]]
      /\ \A m \in 1 .. P - 1 :
           b[m] = IF m <= NumByes(n) THEN ByeMatch(n, m)
                  ELSE IF m <= FirstRoundSize(n) THEN PairedMatch(n, m) ELSE LaterMatch(n, m)
  BY <1>0 DEF SingleElimination
<1>2. P - 1 \in Nat
  BY <1>0
<1>3. DOMAIN b = 1 .. P - 1 /\ Len(b) = P - 1
  BY <1>1, <1>2, LengthOfFunction
<1>4. ASSUME NEW m \in 1 .. P - 1
      PROVE  /\ RoundOf(n, m) \in 1 .. R
             /\ RoundOf(n, m) = 1 <=> m <= Pow2[R - 1]
  <2> DEFINE d == P - m
  <2>1. d \in 1 .. P - 1 /\ P - d = m /\ d \in Nat /\ 1 <= d /\ d < Pow2[R]
    BY <1>0
  <2> HIDE DEF d
  <2>2. Level(RoundOf(n, m), R, d)
    <3>1. Level(RoundOf(n, P - d), R, d)
      BY <2>1, MatchIsNode
    <3> QED BY <2>1, <3>1
  <2>3. Level(1, R, d) <=> m <= Pow2[R - 1]
    <3>1. R - 1 + 1 = R /\ 1 \in 1 .. R
      BY <1>0
    <3>2. Level(1, R, d) <=> Pow2[R - 1] <= d
      BY <2>1, <3>1 DEF Level
    <3> QED BY <1>0, <3>2 DEF d
  <2>4. Level(1, R, d) => RoundOf(n, m) = 1
    BY <1>0, <2>1, <2>2, OneLevel
  <2> QED BY <2>2, <2>3, <2>4 DEF Level
<1>5. ASSUME NEW m \in 1 .. P - 1
      PROVE  /\ b[m].round = RoundOf(n, m)
             /\ b[m].number = m - Before(n, RoundOf(n, m))
             /\ b[m].next = NextMatch(n, m)
  <2>1. CASE m <= NumByes(n)
    <3>1. b[m] = ByeMatch(n, m) /\ RoundOf(n, m) = 1
      <4>1. m <= Pow2[R - 1]
        BY <1>0, <2>1
      <4> QED BY <1>0, <1>1, <1>4, <2>1, <4>1
    <3> QED BY <1>0, <3>1 DEF ByeMatch, Match
  <2>2. CASE ~(m <= NumByes(n)) /\ m <= FirstRoundSize(n)
    <3>1. b[m] = PairedMatch(n, m) /\ RoundOf(n, m) = 1
      BY <1>0, <1>1, <1>4, <2>2
    <3> QED BY <1>0, <3>1 DEF PairedMatch, Match
  <2>3. CASE ~(m <= NumByes(n)) /\ ~(m <= FirstRoundSize(n))
    <3>1. b[m] = LaterMatch(n, m)
      BY <1>1, <2>3
    <3> QED BY <3>1 DEF LaterMatch, Match
  <2> QED BY <2>1, <2>2, <2>3
<1>6. ASSUME NEW m \in 1 .. P - 1, m <= Pow2[R - 1]
      PROVE  b[m].p1 = m /\ b[m].p2 = IF m <= P - n THEN Null ELSE P + 1 - m
  <2>1. CASE m <= NumByes(n)
    <3>1. b[m] = ByeMatch(n, m)
      BY <1>1, <2>1
    <3> QED BY <1>0, <2>1, <3>1 DEF ByeMatch, Match
  <2>2. CASE ~(m <= NumByes(n))
    <3>1. b[m] = PairedMatch(n, m)
      BY <1>0, <1>1, <1>6, <2>2
    <3>2. n + 1 - (m - NumByes(n)) = P + 1 - m
      BY <1>0
    <3> QED BY <1>0, <2>2, <3>1, <3>2 DEF PairedMatch, Match
  <2> QED BY <2>1, <2>2
<1> QED BY <1>3, <1>4, <1>5, <1>6

(* The way of a winner is defined: it only goes on to later matches. *)
LEMMA WayExists ==
  ASSUME NEW N \in Nat, NEW next, \A m \in 1 .. N : next[m] \in 0 .. N
  PROVE  \E way : way = [k \in 0 .. N |->
            IF k = Null THEN {} ELSE {k} \cup IF next[k] > k THEN way[next[k]] ELSE {}]
<1> DEFINE Step(w, k) == {k} \cup IF next[k] > k THEN w[next[k]] ELSE {}
           Good(j, w) == \A k \in j .. N : w[k] = Step(w, k)
           S == {j \in Int : \E w : Good(j, w)}
<1>1. N + 1 \in S
  <2>1. Good(N + 1, 0)
    OBVIOUS
  <2> HIDE DEF Good
  <2> QED BY <2>1
<1>2. ASSUME NEW j \in Int, 1 < j, j <= N + 1, j \in S PROVE j - 1 \in S
  <2>1. PICK w : Good(j, w)
    BY <1>2
  <2> DEFINE v == [k \in j - 1 .. N |-> IF k = j - 1 THEN Step(w, j - 1) ELSE w[k]]
  <2>2. \A k \in j .. N : v[k] = w[k]
    BY <1>2
  <2>3. ASSUME NEW k \in j - 1 .. N PROVE v[k] = Step(v, k)
    <3>1. k \in 1 .. N /\ next[k] \in 0 .. N
      BY <1>2
    <3>2. next[k] > k => next[k] \in j .. N
      BY <1>2, <3>1
    <3>3. Step(v, k) = Step(w, k)
      <4> HIDE DEF v
      <4> QED BY <2>2, <3>2
    <3>4. CASE k = j - 1
      <4>1. v[k] = Step(w, k)
        BY <3>4
      <4> QED BY <3>3, <4>1
    <3>5. CASE k # j - 1
      <4>1. k \in j .. N
        BY <3>5
      <4>2. v[k] = w[k] /\ w[k] = Step(w, k)
        BY <2>1, <2>2, <4>1
      <4> QED BY <3>3, <4>2
    <3> QED BY <3>4, <3>5
  <2> HIDE DEF v, Step
  <2>4. Good(j - 1, v)
    BY <2>3
  <2> HIDE DEF Good
  <2> QED BY <2>4
<1>3. 1 \in S
  <2>1. 1 \in Int /\ N + 1 \in Int /\ 1 \in 1 .. N + 1
    OBVIOUS
  <2> HIDE DEF S
  <2>2. \A j \in 1 .. N + 1 : j \in S
    BY <1>1, <1>2, <2>1, Downwards
  <2> QED BY <2>1, <2>2
<1>4. PICK w : Good(1, w)
  BY <1>3
<1> DEFINE way == [k \in 0 .. N |-> IF k = 0 THEN {} ELSE w[k]]
<1>5. ASSUME NEW k \in 0 .. N
      PROVE way[k] = IF k = Null THEN {}
                     ELSE {k} \cup IF next[k] > k THEN way[next[k]] ELSE {}
  <2>1. CASE k = 0
    BY <2>1 DEF Null
  <2>2. CASE k # 0
    <3>1. k \in 1 .. N /\ next[k] \in 0 .. N
      BY <2>2
    <3>2. next[k] > k => next[k] # 0
      BY <3>1
    <3>3. way[k] = w[k] /\ (next[k] > k => way[next[k]] = w[next[k]])
      BY <2>2, <3>1, <3>2
    <3>4. w[k] = {k} \cup IF next[k] > k THEN w[next[k]] ELSE {}
      BY <1>4, <3>1
    <3> HIDE DEF way
    <3> QED BY <2>2, <3>3, <3>4 DEF Null
  <2> QED BY <2>1, <2>2
<1>6. way = [k \in 0 .. N |-> IF k = Null THEN {}
                              ELSE {k} \cup IF next[k] > k THEN way[next[k]] ELSE {}]
  <2>1. way = [k \in 0 .. N |-> way[k]]
    OBVIOUS
  <2> HIDE DEF way
  <2> QED BY <1>5, <2>1
<1> HIDE DEF way
<1> QED BY <1>6

(* From every match the way leads to the last one, if each goes on to a later one. *)
LEMMA WayReachesEnd ==
  ASSUME NEW N \in Nat, N >= 1, NEW b, Len(b) = N,
         \A m \in 1 .. N : b[m].next \in 0 .. N,
         \A m \in 1 .. N - 1 : b[m].next > m
  PROVE  \A m \in 1 .. N : N \in WayFrom(b, m)
<1> DEFINE next == [m \in 1 .. N |-> b[m].next]
           Def(w) == w = [k \in 0 .. N |->
             IF k = Null THEN {} ELSE {k} \cup IF next[k] > k THEN w[next[k]] ELSE {}]
           Def2(w) == w = [k \in 0 .. N |->
             IF k = Null THEN {} ELSE {k} \cup IF b[k].next > k THEN w[b[k].next] ELSE {}]
           way == CHOOSE w : Def2(w)
<1>1. \A m \in 1 .. N : next[m] = b[m].next /\ next[m] \in 0 .. N
  OBVIOUS
<1>2. \E w : Def(w)
  <2>1. \A m \in 1 .. N : next[m] \in 0 .. N
    BY <1>1
  <2> HIDE DEF next
  <2> QED BY <2>1, WayExists
<1>3. \A w : Def(w) => Def2(w)
  <2> HIDE DEF next
  <2> SUFFICES ASSUME NEW w, Def(w) PROVE Def2(w)
    OBVIOUS
  <2>1. ASSUME NEW k \in 0 .. N
        PROVE (IF k = Null THEN {} ELSE {k} \cup IF next[k] > k THEN w[next[k]] ELSE {})
            = (IF k = Null THEN {} ELSE {k} \cup IF b[k].next > k THEN w[b[k].next] ELSE {})
    <3>1. k # Null => k \in 1 .. N
      BY DEF Null
    <3> QED BY <1>1, <3>1
  <2> QED BY <2>1
<1>4. Def2(way)
  <2> HIDE DEF Def, Def2
  <2> QED BY <1>2, <1>3
<1>5. \A m : WayFrom(b, m) = way[m]
  BY DEF WayFrom
<1> HIDE DEF way
<1>6. \A k \in 1 .. N : way[k] = {k} \cup IF b[k].next > k THEN way[b[k].next] ELSE {}
  BY <1>4 DEF Null
<1> DEFINE S == {j \in Int : \A k \in j .. N : N \in way[k]}
<1>7. N \in S
  BY <1>6
<1>8. ASSUME NEW j \in Int, 1 < j, j <= N, j \in S PROVE j - 1 \in S
  <2> SUFFICES ASSUME NEW k \in j - 1 .. N PROVE N \in way[k]
    OBVIOUS
  <2>1. CASE k = j - 1
    <3>1. k \in 1 .. N - 1 /\ k \in 1 .. N
      BY <1>8, <2>1
    <3>2. b[k].next > k /\ b[k].next \in 0 .. N
      BY <3>1
    <3>3. b[k].next \in j .. N
      BY <2>1, <3>2
    <3> QED BY <1>6, <1>8, <3>1, <3>2, <3>3
  <2>2. CASE k # j - 1
    BY <1>8, <2>2
  <2> QED BY <2>1, <2>2
<1> HIDE DEF S
<1>9. \A j \in 1 .. N : j \in S
  <2>1. 1 \in Int /\ N \in Int
    OBVIOUS
  <2> QED BY <1>7, <1>8, <2>1, Downwards
<1> QED BY <1>5, <1>9 DEF S

-----------------------------------------------------------------------------

(* Small sets. *)
LEMMA OneElement ==
  ASSUME NEW x PROVE Cardinality({x}) = 1
BY FS_Singleton

LEMMA TwoElements ==
  ASSUME NEW x, NEW y, x # y PROVE Cardinality({x, y}) = 2
<1>1. IsFiniteSet({x}) /\ Cardinality({x}) = 1
  BY FS_Singleton
<1>2. Cardinality({x} \cup {y}) = 1 + 1
  BY <1>1, FS_AddElement
<1>3. {x} \cup {y} = {x, y}
  OBVIOUS
<1> QED BY <1>2, <1>3

(* The bracket of any number of players, where the next match is half the node. *)
LEMMA BracketIsHeap ==
  ASSUME NEW n \in Nat, n >= 2,
         NEW R, R = NumRounds(n), NEW P, P = Pow2[R],
         NEW b, b = SingleElimination(n)
  PROVE  /\ R \in 1 .. n /\ P \in Nat /\ P >= 2
         /\ Pow2[R - 1] \in Nat /\ P = 2 * Pow2[R - 1] /\ Pow2[R - 1] < n /\ n <= P
         /\ DOMAIN b = 1 .. P - 1 /\ Len(b) = P - 1
         /\ \A d \in 1 .. P - 1 :
              /\ Level(b[P - d].round, R, d)
              /\ b[P - d].number = (P - d) - (P - Pow2[R - b[P - d].round + 1])
              /\ b[P - d].next = IF d = 1 THEN Null ELSE P - d \div 2
<1>1. R \in 1 .. n /\ R - 1 \in Nat /\ (R - 1) + 1 = R /\ Pow2[R - 1] < n /\ n <= P
  BY RoundsAreLogarithm
<1>2. P = 2 * Pow2[R - 1] /\ Pow2[R - 1] \in Nat /\ P \in Nat /\ P >= 2
  BY <1>1, PowersOfTwo, PowersGrow
<1>3. /\ DOMAIN b = 1 .. P - 1 /\ Len(b) = P - 1
      /\ \A m \in 1 .. P - 1 :
           /\ b[m].round = RoundOf(n, m)
           /\ b[m].number = m - Before(n, RoundOf(n, m))
           /\ b[m].next = NextMatch(n, m)
  BY RowsOfBracket
<1>4. ASSUME NEW d \in 1 .. P - 1
      PROVE  /\ Level(b[P - d].round, R, d)
             /\ b[P - d].number = (P - d) - (P - Pow2[R - b[P - d].round + 1])
             /\ b[P - d].next = IF d = 1 THEN Null ELSE P - d \div 2
  <2>1. P - d \in 1 .. P - 1
    BY <1>2
  <2>2. /\ b[P - d].round = RoundOf(n, P - d)
        /\ b[P - d].number = (P - d) - Before(n, RoundOf(n, P - d))
        /\ b[P - d].next = NextMatch(n, P - d)
    BY <1>3, <2>1
  <2>3. /\ Level(RoundOf(n, P - d), R, d)
        /\ Before(n, RoundOf(n, P - d)) = P - Pow2[R - RoundOf(n, P - d) + 1]
        /\ NextMatch(n, P - d) = IF d = 1 THEN Null ELSE P - d \div 2
    BY MatchIsNode
  <2> QED BY <2>2, <2>3
<1> QED BY <1>1, <1>2, <1>3, <1>4

(* The first round: byes for the first places, the others against those opposite. *)
LEMMA FirstRoundOfBracket ==
  ASSUME NEW n \in Nat, n >= 2,
         NEW R, R = NumRounds(n), NEW P, P = Pow2[R], NEW H, H = Pow2[R - 1],
         NEW b, b = SingleElimination(n), NEW m \in 1 .. P - 1
  PROVE  /\ b[m].round = 1 <=> m <= H
         /\ m <= H => b[m].p1 = m /\ b[m].p2 = IF m <= P - n THEN Null ELSE P + 1 - m
BY RowsOfBracket

(* The matches a player enters: one, with the seed that stands opposite. *)
LEMMA EveryPlayerEntersOnce ==
  ASSUME NEW n \in Nat, n >= 2, NEW b, b = SingleElimination(n), NEW first,
         first = {m \in DOMAIN b : b[m].round = 1}
  PROVE  /\ \A p \in 1 .. n : Cardinality({m \in first : p \in Players(b, m)}) = 1
         /\ \A m \in first : Players(b, m) # {} /\ Players(b, m) \subseteq 1 .. n
<1>r. PICK R : R = NumRounds(n)
  OBVIOUS
<1>p. PICK P : P = Pow2[R]
  OBVIOUS
<1>h. PICK H : H = Pow2[R - 1]
  OBVIOUS
<1>1. /\ P \in Nat /\ P >= 2 /\ H \in Nat /\ P = 2 * H /\ H < n /\ n <= P
      /\ DOMAIN b = 1 .. P - 1
  BY <1>r, <1>p, <1>h, BracketIsHeap
<1>e. ASSUME NEW m \in 1 .. P - 1
      PROVE  /\ b[m].round = 1 <=> m <= H
             /\ m <= H => b[m].p1 = m /\ b[m].p2 = IF m <= P - n THEN Null ELSE P + 1 - m
  BY <1>r, <1>p, <1>h, FirstRoundOfBracket
<1>2. first = 1 .. H
  <2>1. \A m \in 1 .. H : m \in 1 .. P - 1
    BY <1>1
  <2> QED BY <1>1, <1>e, <2>1
<1>3. \A m \in 1 .. H : Players(b, m) = IF m <= P - n THEN {m} ELSE {m, P + 1 - m}
  <2> TAKE m \in 1 .. H
  <2>1. b[m].p1 = m /\ b[m].p2 = IF m <= P - n THEN Null ELSE P + 1 - m
    <3>1. m \in 1 .. P - 1 /\ m <= H
      BY <1>1
    <3> QED BY <1>e, <3>1
  <2>2. m # Null /\ P + 1 - m # Null
    BY <1>1 DEF Null
  <2> QED BY <2>1, <2>2 DEF Players
<1>4. ASSUME NEW p \in 1 .. n PROVE Cardinality({m \in first : p \in Players(b, m)}) = 1
  <2> DEFINE M == {m \in first : p \in Players(b, m)}
  <2>1. CASE p <= H
    <3>1. \A m \in 1 .. H : p \in Players(b, m) <=> m = p
      <4> TAKE m \in 1 .. H
      <4>1. p # P + 1 - m
        BY <1>1, <2>1
      <4> QED BY <1>3, <4>1
    <3>2. M = {p}
      BY <1>2, <2>1, <3>1
    <3> QED BY <3>2, OneElement
  <2>2. CASE ~(p <= H)
    <3>1. \A m \in 1 .. H : p \in Players(b, m) <=> m = P + 1 - p
      <4> TAKE m \in 1 .. H
      <4>1. m # p
        BY <2>2
      <4>2. p = P + 1 - m => m > P - n
        BY <1>1
      <4> QED BY <1>1, <1>3, <4>1, <4>2
    <3>2. P + 1 - p \in 1 .. H
      BY <1>1, <2>2
    <3>3. M = {P + 1 - p}
      BY <1>2, <3>1, <3>2
    <3> QED BY <3>3, OneElement
  <2> QED BY <2>1, <2>2
<1>5. ASSUME NEW m \in first PROVE Players(b, m) # {} /\ Players(b, m) \subseteq 1 .. n
  <2>1. m \in 1 .. H /\ m \in 1 .. n
    BY <1>1, <1>2
  <2>2. ~(m <= P - n) => P + 1 - m \in 1 .. n
    BY <1>1, <2>1
  <2> QED BY <1>3, <2>1, <2>2
<1> QED BY <1>4, <1>5

(* A match of a later round waits for two matches of the round before. *)
LEMMA TwoFeeders ==
  ASSUME NEW n \in Nat, n >= 2, NEW b, b = SingleElimination(n), NEW m \in DOMAIN b,
         b[m].round # 1
  PROVE  /\ Cardinality(Feeders(b, m)) = 2
         /\ \A k \in Feeders(b, m) : b[k].round = b[m].round - 1
<1>r. PICK R : R = NumRounds(n)
  OBVIOUS
<1>p. PICK P : P = Pow2[R]
  OBVIOUS
<1>1. /\ R \in 1 .. n /\ P \in Nat /\ P >= 2
      /\ DOMAIN b = 1 .. P - 1
      /\ \A d \in 1 .. P - 1 : /\ Level(b[P - d].round, R, d)
                               /\ b[P - d].next = IF d = 1 THEN Null ELSE P - d \div 2
  BY <1>r, <1>p, BracketIsHeap
<1>d. PICK d : d = P - m
  OBVIOUS
<1>q. PICK r : r = b[m].round
  OBVIOUS
<1>2. d \in 1 .. P - 1 /\ P - d = m /\ d \in Nat /\ m \in Nat /\ m \in 1 .. P - 1
  BY <1>1, <1>d
<1>3. Level(r, R, d) /\ r \in 2 .. R
  <2>1. Level(r, R, d)
    <3>1. Level(b[P - d].round, R, d)
      BY <1>1, <1>2
    <3> QED BY <1>2, <1>q, <3>1
  <2> QED BY <1>q, <2>1 DEF Level
<1>4. Level(r - 1, R, 2 * d) /\ Level(r - 1, R, 2 * d + 1)
  <2>1. /\ r - 1 \in 1 .. R /\ R - (r - 1) = (R - r) + 1 /\ R - (r - 1) + 1 = (R - r + 1) + 1
        /\ R - r \in Nat /\ R - r + 1 \in Nat
    BY <1>1, <1>3
  <2>2. /\ Pow2[R - (r - 1)] = 2 * Pow2[R - r] /\ Pow2[R - (r - 1) + 1] = 2 * Pow2[R - r + 1]
        /\ Pow2[R - r] \in Nat /\ Pow2[R - r + 1] \in Nat
    BY <2>1, PowersOfTwo
  <2>3. Pow2[R - r] <= d /\ d < Pow2[R - r + 1]
    BY <1>3 DEF Level
  <2> QED BY <1>2, <2>1, <2>2, <2>3 DEF Level
<1>5. 2 * d + 1 < P
  <2>1. /\ R - r + 1 < R /\ R - r + 1 \in Nat /\ R \in Nat
    BY <1>1, <1>3
  <2>2. 2 * Pow2[R - r + 1] <= P /\ Pow2[R - r + 1] \in Nat
    BY <1>p, <2>1, PowersGrow
  <2>3. d < Pow2[R - r + 1]
    BY <1>3 DEF Level
  <2> QED BY <1>1, <1>2, <2>2, <2>3
<1>6. ASSUME NEW k \in 1 .. P - 1
      PROVE  b[k].next = m <=> k \in {P - 2 * d, P - (2 * d + 1)}
  <2> DEFINE e == P - k
  <2>1. e \in 1 .. P - 1 /\ P - e = k
    BY <1>1
  <2>2. b[k].next = IF e = 1 THEN Null ELSE P - e \div 2
    <3>1. b[P - e].next = IF e = 1 THEN Null ELSE P - e \div 2
      BY <1>1, <2>1
    <3> QED BY <2>1, <3>1
  <2>3. b[k].next = m <=> e # 1 /\ e \div 2 = d
    <3>1. m # Null
      BY <1>1 DEF Null
    <3>2. PICK h \in Nat : h = e \div 2
      BY <2>1
    <3>3. b[k].next = IF e = 1 THEN Null ELSE P - h
      BY <2>2, <3>2
    <3>4. P - h = m <=> h = d
      BY <1>1, <1>d, <1>2
    <3> QED BY <3>1, <3>2, <3>3, <3>4
  <2>4. e # 1 /\ e \div 2 = d <=> e \in {2 * d, 2 * d + 1}
    BY <1>2, <2>1
  <2> QED BY <1>1, <1>2, <2>3, <2>4
<1>7. {P - 2 * d, P - (2 * d + 1)} \subseteq 1 .. P - 1 /\ P - 2 * d # P - (2 * d + 1)
  BY <1>1, <1>2, <1>5
<1>8. Feeders(b, m) = {P - 2 * d, P - (2 * d + 1)}
  BY <1>1, <1>6, <1>7 DEF Feeders
<1>9. Cardinality(Feeders(b, m)) = 2
  <2>1. PICK x : x = P - 2 * d
    OBVIOUS
  <2>2. PICK y : y = P - (2 * d + 1)
    OBVIOUS
  <2>3. Cardinality({x, y}) = 2
    BY <1>7, <2>1, <2>2, TwoElements
  <2> QED BY <1>8, <2>1, <2>2, <2>3
<1>10. ASSUME NEW e \in {2 * d, 2 * d + 1} PROVE b[P - e].round = r - 1
  <2>1. e \in 1 .. P - 1 /\ e \in Nat /\ R \in Nat
    BY <1>1, <1>2, <1>5
  <2>2. Level(b[P - e].round, R, e) /\ Level(r - 1, R, e)
    BY <1>1, <1>4, <2>1
  <2> QED BY <2>1, <2>2, OneLevel
<1>11. \A k \in Feeders(b, m) : b[k].round = r - 1
  BY <1>8, <1>10
<1> QED BY <1>q, <1>9, <1>11

(* One match is the last: node 1, with the highest place. *)
LEMMA OneFinal ==
  ASSUME NEW n \in Nat, n >= 2, NEW R, R = NumRounds(n), NEW P, P = Pow2[R],
         NEW b, b = SingleElimination(n)
  PROVE  /\ P \in Nat /\ P >= 2 /\ DOMAIN b = 1 .. P - 1 /\ Len(b) = P - 1
         /\ {m \in DOMAIN b : b[m].next = Null} = {P - 1}
         /\ b[P - 1].round = R
         /\ \A m \in 1 .. P - 1 : b[m].next \in 0 .. P - 1
         /\ \A m \in 1 .. P - 2 : b[m].next > m
<1>1. /\ R \in 1 .. n /\ P \in Nat /\ P >= 2
      /\ DOMAIN b = 1 .. P - 1 /\ Len(b) = P - 1
      /\ \A d \in 1 .. P - 1 : /\ Level(b[P - d].round, R, d)
                               /\ b[P - d].next = IF d = 1 THEN Null ELSE P - d \div 2
  BY BracketIsHeap
<1>2. ASSUME NEW m \in 1 .. P - 1
      PROVE  b[m].next = IF m = P - 1 THEN 0 ELSE P - (P - m) \div 2
  <2>1. P - m \in 1 .. P - 1 /\ P - (P - m) = m /\ (P - m = 1 <=> m = P - 1)
    BY <1>1
  <2>2. b[P - (P - m)].next = IF P - m = 1 THEN Null ELSE P - (P - m) \div 2
    BY <1>1, <2>1
  <2> QED BY <2>1, <2>2 DEF Null
<1>3. ASSUME NEW m \in 1 .. P - 2
      PROVE  P - (P - m) \div 2 \in 0 .. P - 1 /\ P - (P - m) \div 2 > m
  <2>0. P \in Nat /\ m \in Nat /\ 1 <= m /\ m <= P - 2
    BY <1>1
  <2>1. PICK d : d = P - m
    OBVIOUS
  <2>2. d \in Nat /\ d >= 2 /\ d < P /\ m = P - d
    BY <2>0, <2>1
  <2>3. PICK h : h = d \div 2
    OBVIOUS
  <2>4. h \in Nat /\ 1 <= h /\ h < d
    BY <2>2, <2>3
  <2>5. P - h \in 0 .. P - 1 /\ P - h > m
    BY <2>0, <2>2, <2>4
  <2> QED BY <2>1, <2>3, <2>5
<1>4. ASSUME NEW m \in 1 .. P - 1
      PROVE  /\ b[m].next \in 0 .. P - 1
             /\ b[m].next = 0 <=> m = P - 1
             /\ m \in 1 .. P - 2 => b[m].next > m
  <2>1. CASE m = P - 1
    BY <1>1, <1>2, <2>1
  <2>2. CASE m # P - 1
    <3>1. m \in 1 .. P - 2
      BY <1>1, <2>2
    <3>2. b[m].next = P - (P - m) \div 2
      BY <1>2, <2>2
    <3>3. P - (P - m) \div 2 \in 0 .. P - 1 /\ P - (P - m) \div 2 > m
      BY <1>3, <3>1
    <3> QED BY <2>2, <3>2, <3>3
  <2> QED BY <2>1, <2>2
<1>5. b[P - 1].round = R
  <2>1. 1 \in 1 .. P - 1 /\ R - R = 0 /\ R - R + 1 = 0 + 1 /\ R \in 1 .. R /\ R \in Nat /\ 1 \in Nat
    BY <1>1
  <2>2. Level(R, R, 1)
    <3>1. Pow2[0] = 1 /\ Pow2[0 + 1] = 2
      BY PowersOfTwo
    <3> QED BY <2>1, <3>1 DEF Level
  <2>3. Level(b[P - 1].round, R, 1)
    BY <1>1, <2>1
  <2> QED BY <2>1, <2>2, <2>3, OneLevel
<1>6. {m \in DOMAIN b : b[m].next = Null} = {P - 1}
  <2>1. P - 1 \in 1 .. P - 1
    BY <1>1
  <2> QED BY <1>1, <1>4, <2>1 DEF Null
<1>7. (\A m \in 1 .. P - 1 : b[m].next \in 0 .. P - 1) /\ (\A m \in 1 .. P - 2 : b[m].next > m)
  <2>1. \A m \in 1 .. P - 2 : m \in 1 .. P - 1
    BY <1>1
  <2> QED BY <1>4, <2>1
<1> QED BY <1>1, <1>5, <1>6, <1>7

(* No two matches of a round have the same number. *)
LEMMA NumbersDiffer ==
  ASSUME NEW n \in Nat, n >= 2, NEW b, b = SingleElimination(n)
  PROVE  Cardinality({<<b[m].round, b[m].number>> : m \in DOMAIN b}) = Len(b)
<1>r. PICK R : R = NumRounds(n)
  OBVIOUS
<1>p. PICK P : P = Pow2[R]
  OBVIOUS
<1>1. /\ P \in Nat /\ P >= 2 /\ DOMAIN b = 1 .. P - 1 /\ Len(b) = P - 1
      /\ R \in 1 .. n
      /\ \A d \in 1 .. P - 1 :
           /\ Level(b[P - d].round, R, d)
           /\ b[P - d].number = (P - d) - (P - Pow2[R - b[P - d].round + 1])
  BY <1>r, <1>p, BracketIsHeap
<1> DEFINE f == [m \in 1 .. P - 1 |-> <<b[m].round, b[m].number>>]
           T == {<<b[m].round, b[m].number>> : m \in 1 .. P - 1}
           off(r) == P - Pow2[R - r + 1]
<1>2. ASSUME NEW m \in 1 .. P - 1
      PROVE  b[m].number = m - off(b[m].round) /\ off(b[m].round) \in Int
  <2>1. P - m \in 1 .. P - 1 /\ P - (P - m) = m
    BY <1>1
  <2>2. /\ Level(b[P - (P - m)].round, R, P - m)
        /\ b[P - (P - m)].number = (P - (P - m)) - off(b[P - (P - m)].round)
    BY <1>1, <2>1
  <2>3. Level(b[m].round, R, P - m) /\ b[m].number = m - off(b[m].round)
    BY <2>1, <2>2
  <2>4. R - b[m].round + 1 \in Nat
    BY <1>1, <2>3 DEF Level
  <2>5. Pow2[R - b[m].round + 1] \in Nat
    BY <2>4, PowersOfTwo
  <2> QED BY <1>1, <2>3, <2>5
<1> HIDE DEF off
<1>3. \A m, k \in 1 .. P - 1 :
        b[m].round = b[k].round /\ b[m].number = b[k].number => m = k
  <2> TAKE m, k \in 1 .. P - 1
  <2> HAVE b[m].round = b[k].round /\ b[m].number = b[k].number
  <2>1. m - off(b[m].round) = k - off(b[m].round) /\ off(b[m].round) \in Int
    BY <1>2
  <2> QED BY <1>1, <2>1
<1>4. f \in Bijection(1 .. P - 1, T)
  <2>1. f \in [1 .. P - 1 -> T]
    OBVIOUS
  <2>2. \A m, k \in 1 .. P - 1 : f[m] = f[k] => m = k
    BY <1>3
  <2>3. \A t \in T : \E m \in 1 .. P - 1 : f[m] = t
    OBVIOUS
  <2> HIDE DEF f, T
  <2> QED BY <2>1, <2>2, <2>3 DEF Bijection, Injection, Surjection, IsInjective
<1>5. IsFiniteSet(1 .. P - 1) /\ Cardinality(1 .. P - 1) = P - 1
  <2>1. P - 1 \in Int /\ 1 \in Int /\ ~(1 > P - 1) /\ (P - 1) - 1 + 1 = P - 1
    BY <1>1
  <2> QED BY <2>1, FS_Interval
<1>6. Cardinality(T) = Cardinality(1 .. P - 1)
  <2> HIDE DEF f, T
  <2>1. ExistsBijection(1 .. P - 1, T)
    BY <1>4 DEF ExistsBijection
  <2> QED BY <1>5, <2>1, FS_Bijection
<1> QED BY <1>1, <1>5, <1>6

(* Whatever the number of players, the generator makes a knock-out tournament. *)
THEOREM EliminationIsKnockout ==
  ASSUME NEW n \in Nat, n >= 2
  PROVE  IsKnockout(SingleElimination(n), n) /\ ~Warned(SingleElimination(n), n)
<1>b. PICK b : b = SingleElimination(n)
  OBVIOUS
<1>r. PICK R : R = NumRounds(n)
  OBVIOUS
<1>p. PICK P : P = Pow2[R]
  OBVIOUS
<1>f. PICK first : first = {m \in DOMAIN b : b[m].round = 1}
  OBVIOUS
<1>l. PICK finals : finals = {m \in DOMAIN b : b[m].next = Null}
  OBVIOUS
<1>1. /\ P \in Nat /\ P >= 2 /\ DOMAIN b = 1 .. P - 1 /\ Len(b) = P - 1
      /\ finals = {P - 1} /\ b[P - 1].round = R
      /\ \A m \in 1 .. P - 1 : b[m].next \in 0 .. P - 1
      /\ \A m \in 1 .. P - 2 : b[m].next > m
  BY <1>b, <1>r, <1>p, <1>l, OneFinal
<1>2. Cardinality(finals) = 1
  BY <1>1, OneElement
<1>3. /\ \A p \in 1 .. n : Cardinality({m \in first : p \in Players(b, m)}) = 1
      /\ \A m \in first : Players(b, m) # {} /\ Players(b, m) \subseteq 1 .. n
  BY <1>b, <1>f, EveryPlayerEntersOnce
<1>4. ASSUME NEW m \in DOMAIN b \ first
      PROVE  Cardinality(Feeders(b, m)) = 2 /\ \A k \in Feeders(b, m) : b[k].round = b[m].round - 1
  BY <1>b, <1>f, TwoFeeders
<1>5. ASSUME NEW m \in first PROVE finals \subseteq WayFrom(b, m)
  <2>1. PICK N : N = P - 1
    OBVIOUS
  <2>2. /\ N \in Nat /\ N >= 1 /\ Len(b) = N /\ m \in 1 .. N
        /\ \A k \in 1 .. N : b[k].next \in 0 .. N
        /\ \A k \in 1 .. N - 1 : b[k].next > k
    BY <1>1, <1>f, <2>1
  <2>3. N \in WayFrom(b, m)
    BY <2>2, WayReachesEnd
  <2> QED BY <1>1, <2>1, <2>3
<1>6. Cardinality({<<b[m].round, b[m].number>> : m \in DOMAIN b}) = Len(b)
  BY <1>b, NumbersDiffer
<1>7. IsKnockout(b, n)
  BY <1>2, <1>3, <1>4, <1>5, <1>6, <1>f, <1>l DEF IsKnockout
<1>8. ~Warned(b, n)
  <2>1. {m \in DOMAIN b : b[m].next = Null /\ b[m].round = R} = {P - 1}
    BY <1>1, <1>l
  <2>2. Cardinality({P - 1}) = 1
    BY OneElement
  <2> QED BY <1>1, <1>p, <1>r, <2>1, <2>2 DEF Warned
<1> QED BY <1>7, <1>8, <1>b

-----------------------------------------------------------------------------

(* A single match is the bracket of two players. *)
LEMMA SingleMatchIsBracketOfTwo == SingleMatch = SingleElimination(2)
<1>b. PICK b : b = SingleElimination(2)
  OBVIOUS
<1>r. PICK R : R = NumRounds(2)
  OBVIOUS
<1>p. PICK P : P = Pow2[R]
  OBVIOUS
<1>0. 2 \in Nat /\ 2 >= 2
  OBVIOUS
<1>1. R = 1 /\ P = 2 /\ NumByes(2) = 0 /\ FirstRoundSize(2) = 1
  <2>1. R \in 1 .. 2 /\ Pow2[R - 1] < 2 /\ 2 <= Pow2[R]
    BY <1>r, <1>0, RoundsAreLogarithm
  <2>2. Pow2[0] = 1 /\ Pow2[0 + 1] = 2 /\ 0 + 1 = 1 /\ 2 - 1 = 1 /\ 1 - 1 = 0
    BY PowersOfTwo
  <2>3. R = 1
    BY <2>1, <2>2
  <2>4. NumByes(2) = Pow2[R] - 2 /\ FirstRoundSize(2) = Pow2[R - 1]
    BY <1>r, <1>0, SizesHalve
  <2> QED BY <1>p, <2>2, <2>3, <2>4
<1>2. DOMAIN b = 1 .. 1 /\ b[1].next = Null
  <2>1. P \in Nat /\ P >= 2 /\ DOMAIN b = 1 .. P - 1
        /\ {m \in DOMAIN b : b[m].next = Null} = {P - 1}
    BY <1>b, <1>r, <1>p, <1>0, OneFinal
  <2> QED BY <1>1, <2>1
<1>3. b[1] = PairedMatch(2, 1) /\ b = [m \in 1 .. 1 |-> b[m]]
  <2>1. 1 \in DOMAIN b
    BY <1>2
  <2> QED BY <1>1, <1>2, <1>b, <2>1 DEF SingleElimination
<1>4. PairedMatch(2, 1) = Match(1, 1, 1, 2, "SCHEDULED", Null, NextMatch(2, 1))
  BY <1>1 DEF PairedMatch
<1>5. NextMatch(2, 1) = Null
  BY <1>2, <1>3 DEF PairedMatch, Match
<1>6. b[1] = Match(1, 1, 1, 2, "SCHEDULED", Null, Null)
  BY <1>3, <1>4, <1>5
<1>7. b = <<b[1]>>
  BY <1>3
<1> QED BY <1>b, <1>6, <1>7 DEF SingleMatch

(* The generator accepts no number of players it does not make a tournament of. *)
LEMMA GeneratedIsKnockout ==
  ASSUME NEW n \in Nat, n >= 2, NEW type
  PROVE  Accepts(type, n) =>
           IsKnockout(Generate(type, n), n) /\ ~Warned(Generate(type, n), n)
<1> SUFFICES ASSUME Accepts(type, n)
    PROVE IsKnockout(Generate(type, n), n) /\ ~Warned(Generate(type, n), n)
  OBVIOUS
<1>1. Generate(type, n) = SingleElimination(n)
  BY SingleMatchIsBracketOfTwo DEF Accepts, Generate
<1> QED BY <1>1, EliminationIsKnockout

(* The number of players is settled when the bracket is generated. *)
LEMMA SizeStays == Next => size' = size
BY DEF Next, Organize, ReadMatch, WriteResult, SubmissionFails

(* For every number of players a tournament may have, what generateBracket returns is a
   knock-out tournament and validateBracket has nothing to warn of (bracket.logic.js). *)
THEOREM BracketsAreKnockout == Spec => []BracketIsKnockout
<1> DEFINE Size == size \in BracketSizes
<1>1. Init => Size
  BY DEF Init
<1>2. Size /\ [Next]_vars => Size'
  BY SizeStays DEF vars
<1>3. Size => BracketIsKnockout
  <2> SUFFICES ASSUME Size PROVE BracketIsKnockout
    OBVIOUS
  <2>1. size \in Nat /\ size >= 2
    BY SizesTyped
  <2> QED BY <2>1, GeneratedIsKnockout DEF BracketIsKnockout
<1> HIDE DEF Size
<1> QED BY <1>1, <1>2, <1>3, PTL DEF Spec

-----------------------------------------------------------------------------

Orders(n) == {f \in [1 .. n -> 1 .. n] : \A i, j \in 1 .. n : f[i] = f[j] => i = j}

Onto(n, s) == \A v \in 1 .. n : \E p \in 1 .. n : s[p] = v

(* The array after the swaps at indices i and above, for the choices c. *)
Shuffling(n, c, after) ==
  after = [i \in 1 .. n + 1 |->
             IF i = n + 1 THEN [k \in 1 .. n |-> k] ELSE Swap(after[i + 1], i, c[i])]

(* A swap of two players of an order gives an order. *)
LEMMA SwapKeepsOrder ==
  ASSUME NEW n \in Nat, NEW s \in Orders(n), Onto(n, s), NEW i \in 1 .. n, NEW j \in 1 .. n
  PROVE  /\ Swap(s, i, j) \in Orders(n) /\ Onto(n, Swap(s, i, j))
         /\ Swap(s, i, j)[i] = s[j] /\ Swap(s, i, j)[j] = s[i]
         /\ \A k \in 1 .. n : k # i /\ k # j => Swap(s, i, j)[k] = s[k]
<1>1. s \in [1 .. n -> 1 .. n] /\ \A k, l \in 1 .. n : s[k] = s[l] => k = l
  BY DEF Orders
<1>t. PICK t : t = Swap(s, i, j)
  OBVIOUS
<1>2. t \in [1 .. n -> 1 .. n] /\ t[i] = s[j] /\ t[j] = s[i]
  BY <1>1, <1>t DEF Swap
<1>3. \A k \in 1 .. n : k # i /\ k # j => t[k] = s[k]
  BY <1>1, <1>t DEF Swap
<1>4. \A k, l \in 1 .. n : t[k] = t[l] => k = l
  BY <1>1, <1>2, <1>3
<1>5. Onto(n, t)
  <2> SUFFICES ASSUME NEW v \in 1 .. n PROVE \E p \in 1 .. n : t[p] = v
    BY DEF Onto
  <2>1. PICK p \in 1 .. n : s[p] = v
    BY DEF Onto
  <2> QED BY <1>2, <1>3, <2>1
<1> QED BY <1>t, <1>2, <1>3, <1>4, <1>5 DEF Orders

(* There is such an array, *)
LEMMA ShufflingExists ==
  ASSUME NEW n \in Nat, NEW c
  PROVE  \E after : Shuffling(n, c, after)
<1> DEFINE Id == [k \in 1 .. n |-> k]
           Step(w, i) == IF i = n + 1 THEN Id ELSE Swap(w[i + 1], i, c[i])
           Good(j, w) == w = [i \in j .. n + 1 |-> Step(w, i)]
           S == {j \in Int : \E w : Good(j, w)}
<1>1. n + 1 \in S
  <2> DEFINE w == [i \in n + 1 .. n + 1 |-> Id]
  <2>1. Good(n + 1, w)
    <3>1. \A i \in n + 1 .. n + 1 : Step(w, i) = Id
      OBVIOUS
    <3> HIDE DEF Step
    <3> QED BY <3>1
  <2> HIDE DEF Good
  <2> QED BY <2>1
<1>2. ASSUME NEW j \in Int, 1 < j, j <= n + 1, j \in S PROVE j - 1 \in S
  <2>1. PICK w : Good(j, w)
    BY <1>2
  <2> DEFINE v == [i \in j - 1 .. n + 1 |-> IF i = j - 1 THEN Step(w, j - 1) ELSE w[i]]
  <2>2. \A i \in j .. n + 1 : v[i] = w[i] /\ i \in j - 1 .. n + 1
    BY <1>2
  <2>3. ASSUME NEW i \in j - 1 .. n + 1 PROVE v[i] = Step(v, i)
    <3>1. i # n + 1 => i + 1 \in j .. n + 1
      BY <1>2
    <3>2. Step(v, i) = Step(w, i)
      <4> HIDE DEF v
      <4> QED BY <2>2, <3>1
    <3>3. CASE i = j - 1
      BY <3>2, <3>3
    <3>4. CASE i # j - 1
      <4>1. i \in j .. n + 1
        BY <3>4
      <4>2. v[i] = w[i] /\ w[i] = Step(w, i)
        BY <2>1, <2>2, <4>1
      <4> QED BY <3>2, <4>2
    <3> QED BY <3>3, <3>4
  <2>4. v = [i \in j - 1 .. n + 1 |-> v[i]]
    OBVIOUS
  <2> HIDE DEF v, Step
  <2>5. Good(j - 1, v)
    BY <2>3, <2>4
  <2> HIDE DEF Good
  <2> QED BY <2>5
<1>3. 1 \in S
  <2>1. 1 \in Int /\ n + 1 \in Int /\ 1 \in 1 .. n + 1
    OBVIOUS
  <2> HIDE DEF S
  <2>2. \A j \in 1 .. n + 1 : j \in S
    BY <1>1, <1>2, <2>1, Downwards
  <2> QED BY <2>1, <2>2
<1> QED BY <1>3 DEF Shuffling

(* What the shuffle returns is the array after the last swap, and there is only one. *)
(* the last of them is the list as it came, and each other one is a swap away. *)
LEMMA ShufflingBegins ==
  ASSUME NEW n \in Nat, NEW c, NEW a, Shuffling(n, c, a)
  PROVE  a[n + 1] = [k \in 1 .. n |-> k]
BY DEF Shuffling

LEMMA ShufflingSwaps ==
  ASSUME NEW n \in Nat, NEW c, NEW a, Shuffling(n, c, a), NEW i \in 1 .. n
  PROVE  a[i] = Swap(a[i + 1], i, c[i])
<1>1. \A k \in 1 .. n + 1 :
        a[k] = IF k = n + 1 THEN [l \in 1 .. n |-> l] ELSE Swap(a[k + 1], k, c[k])
  BY DEF Shuffling
<1>2. i \in 1 .. n + 1 /\ i # n + 1
  OBVIOUS
<1>3. a[i] = IF i = n + 1 THEN [l \in 1 .. n |-> l] ELSE Swap(a[i + 1], i, c[i])
  BY <1>1, <1>2, Zenon
<1> QED BY <1>2, <1>3, Zenon

(* The array before index j is visited depends on the choices from there on only *)
LEMMA ChoicesAboveDecide ==
  ASSUME NEW n \in Nat, NEW c, NEW d, NEW a, NEW b, Shuffling(n, c, a), Shuffling(n, d, b),
         NEW j \in 1 .. n + 1, \A k \in j .. n : c[k] = d[k]
  PROVE  a[j] = b[j]
<1> DEFINE S == {i \in Int : a[i] = b[i]}
<1>1. n + 1 \in S
  <2>1. a[n + 1] = [k \in 1 .. n |-> k]
    BY ShufflingBegins
  <2>2. b[n + 1] = [k \in 1 .. n |-> k]
    BY ShufflingBegins
  <2> QED BY <2>1, <2>2
<1>2. ASSUME NEW i \in Int, j < i, i <= n + 1, i \in S PROVE i - 1 \in S
  <2>1. i - 1 \in 1 .. n /\ (i - 1) + 1 = i /\ i - 1 \in j .. n
    BY <1>2
  <2>2. a[i - 1] = Swap(a[(i - 1) + 1], i - 1, c[i - 1])
    BY <2>1, ShufflingSwaps
  <2>3. b[i - 1] = Swap(b[(i - 1) + 1], i - 1, d[i - 1])
    BY <2>1, ShufflingSwaps
  <2> QED BY <1>2, <2>1, <2>2, <2>3
<1>3. j \in Int /\ n + 1 \in Int /\ j \in j .. n + 1
  OBVIOUS
<1> HIDE DEF S
<1>4. \A i \in j .. n + 1 : i \in S
  BY <1>1, <1>2, <1>3, Downwards
<1> QED BY <1>3, <1>4 DEF S

(* What the shuffle returns is the array after the last swap. *)
LEMMA ShuffledIs ==
  ASSUME NEW n \in Nat, NEW c, NEW a, Shuffling(n, c, a)
  PROVE  Shuffled(n, c) = a[1]
<1> DEFINE b == CHOOSE after : Shuffling(n, c, after)
<1>1. Shuffled(n, c) = b[1]
  BY DEF Shuffled, Shuffling
<1>2. Shuffling(n, c, b)
  OBVIOUS
<1> HIDE DEF b
<1>3. a[1] = b[1]
  <2>1. 1 \in 1 .. n + 1
    OBVIOUS
  <2> QED BY <1>2, <2>1, ChoicesAboveDecide
<1> QED BY <1>1, <1>3

(* Before every swap the array holds every player once. *)
LEMMA ShufflingKeepsPlayers ==
  ASSUME NEW n \in Nat, NEW c \in Choices(n), NEW a, Shuffling(n, c, a)
  PROVE  \A i \in 1 .. n + 1 : a[i] \in Orders(n) /\ Onto(n, a[i])
<1> DEFINE S == {i \in Int : a[i] \in Orders(n) /\ Onto(n, a[i])}
<1>1. n + 1 \in S
  <2>1. a[n + 1] = [k \in 1 .. n |-> k]
    BY ShufflingBegins
  <2>2. [k \in 1 .. n |-> k] \in Orders(n) /\ Onto(n, [k \in 1 .. n |-> k])
    BY DEF Orders, Onto
  <2> QED BY <2>1, <2>2
<1>2. ASSUME NEW i \in Int, 1 < i, i <= n + 1, i \in S PROVE i - 1 \in S
  <2>1. i - 1 \in 1 .. n /\ (i - 1) + 1 = i
    BY <1>2
  <2>2. c[i - 1] \in 1 .. n
    BY <2>1 DEF Choices
  <2>3. a[i - 1] = Swap(a[i], i - 1, c[i - 1])
    <3>1. a[i - 1] = Swap(a[(i - 1) + 1], i - 1, c[i - 1])
      BY <2>1, ShufflingSwaps
    <3> QED BY <2>1, <3>1
  <2>4. Swap(a[i], i - 1, c[i - 1]) \in Orders(n) /\ Onto(n, Swap(a[i], i - 1, c[i - 1]))
    BY <1>2, <2>1, <2>2, SwapKeepsOrder
  <2> QED BY <2>3, <2>4
<1> HIDE DEF S
<1>3. 1 \in Int /\ n + 1 \in Int
  OBVIOUS
<1>4. \A i \in 1 .. n + 1 : i \in S
  BY <1>1, <1>2, <1>3, Downwards
<1> QED BY <1>4 DEF S

(* A swap at index i with an index not above it settles index i, and leaves those above. *)
LEMMA SwapSettles ==
  ASSUME NEW n \in Nat, NEW c \in Choices(n), NEW a, Shuffling(n, c, a), NEW i \in 1 .. n
  PROVE  /\ c[i] \in 1 .. i
         /\ a[i][i] = a[i + 1][c[i]]
         /\ \A k \in i + 1 .. n : a[i][k] = a[i + 1][k]
<1>1. c[i] \in 1 .. n /\ c[i] \in 1 .. i
  BY DEF Choices
<1>2. a[i + 1] \in Orders(n) /\ Onto(n, a[i + 1])
  <2>1. i + 1 \in 1 .. n + 1
    OBVIOUS
  <2> QED BY <2>1, ShufflingKeepsPlayers
<1>3. a[i] = Swap(a[i + 1], i, c[i])
  BY ShufflingSwaps
<1>4. /\ Swap(a[i + 1], i, c[i])[i] = a[i + 1][c[i]]
      /\ \A k \in 1 .. n : k # i /\ k # c[i] => Swap(a[i + 1], i, c[i])[k] = a[i + 1][k]
  BY <1>1, <1>2, SwapKeepsOrder
<1>5. \A k \in i + 1 .. n : k \in 1 .. n /\ k # i /\ k # c[i]
  BY <1>1
<1> QED BY <1>1, <1>3, <1>4, <1>5

(* So the end of the array is settled from the moment an index has been visited. *)
LEMMA SettledStays ==
  ASSUME NEW n \in Nat, NEW c \in Choices(n), NEW a, Shuffling(n, c, a)
  PROVE  \A i \in 1 .. n + 1 : \A k \in i .. n : a[i][k] = a[1][k]
<1> DEFINE S == {i \in Int : \A k \in i .. n : a[i][k] = a[1][k]}
<1>1. 1 \in S
  OBVIOUS
<1>2. ASSUME NEW i \in Int, 1 <= i, i < n + 1, i \in S PROVE i + 1 \in S
  <2>1. i \in 1 .. n
    BY <1>2
  <2>2. \A k \in i + 1 .. n : a[i][k] = a[i + 1][k]
    BY <2>1, SwapSettles
  <2>3. \A k \in i + 1 .. n : k \in i .. n
    BY <2>1
  <2> QED BY <1>2, <2>2, <2>3
<1> HIDE DEF S
<1>3. 1 \in Int /\ n + 1 \in Int
  OBVIOUS
<1>4. \A i \in 1 .. n + 1 : i \in S
  BY <1>1, <1>2, <1>3, Upwards
<1> QED BY <1>4 DEF S

(* Two ways the choices may fall give two orders. *)
LEMMA OrderTellsChoices ==
  ASSUME NEW n \in Nat, NEW c \in Choices(n), NEW d \in Choices(n),
         Shuffled(n, c) = Shuffled(n, d)
  PROVE  c = d
<1>1. PICK a : Shuffling(n, c, a)
  BY ShufflingExists
<1>2. PICK b : Shuffling(n, d, b)
  BY ShufflingExists
<1>3. a[1] = b[1]
  BY <1>1, <1>2, ShuffledIs
<1> DEFINE S == {j \in Int : \A k \in j .. n : c[k] = d[k]}
<1>4. n + 1 \in S
  OBVIOUS
<1>5. ASSUME NEW j \in Int, 1 < j, j <= n + 1, j \in S PROVE j - 1 \in S
  <2>i. PICK i : i = j - 1
    OBVIOUS
  <2>1. i \in 1 .. n /\ i + 1 = j /\ j \in 1 .. n + 1 /\ i \in 1 .. n + 1 /\ i \in i .. n
    BY <1>5, <2>i
  <2>2. a[j] = b[j]
    BY <1>1, <1>2, <1>5, <2>1, ChoicesAboveDecide
  <2>3. a[i][i] = b[i][i]
    <3>1. a[i][i] = a[1][i]
      BY <1>1, <2>1, SettledStays
    <3>2. b[i][i] = b[1][i]
      BY <1>2, <2>1, SettledStays
    <3> QED BY <1>3, <3>1, <3>2
  <2>4. a[i][i] = a[j][c[i]] /\ c[i] \in 1 .. i
    BY <1>1, <2>1, SwapSettles
  <2>5. b[i][i] = b[j][d[i]] /\ d[i] \in 1 .. i
    BY <1>2, <2>1, SwapSettles
  <2>6. \A k, l \in 1 .. n : a[j][k] = a[j][l] => k = l
    <3>1. a[j] \in Orders(n)
      BY <1>1, <2>1, ShufflingKeepsPlayers
    <3> QED BY <3>1 DEF Orders
  <2>7. c[i] = d[i]
    <3>1. c[i] \in 1 .. n /\ d[i] \in 1 .. n
      BY <2>1, <2>4, <2>5
    <3> QED BY <2>2, <2>3, <2>4, <2>5, <2>6, <3>1
  <2>8. \A k \in i .. n : k = i \/ k \in j .. n
    BY <2>1
  <2> QED BY <1>5, <2>i, <2>1, <2>7, <2>8
<1> HIDE DEF S
<1>6. \A j \in 1 .. n + 1 : j \in S
  <2>1. 1 \in Int /\ n + 1 \in Int
    OBVIOUS
  <2> QED BY <1>4, <1>5, <2>1, Downwards
<1>7. \A k \in 1 .. n : c[k] = d[k]
  <2>1. 1 \in 1 .. n + 1
    OBVIOUS
  <2> QED BY <1>6, <2>1 DEF S
<1>8. c = [k \in 1 .. n |-> c[k]] /\ d = [k \in 1 .. n |-> d[k]]
  BY DEF Choices
<1> QED BY <1>7, <1>8

(* Some choices give any order. *)
LEMMA EveryOrderComesOut ==
  ASSUME NEW n \in Nat, NEW order \in Orders(n)
  PROVE  \E c \in Choices(n) : Shuffled(n, c) = order
<1>0. order \in [1 .. n -> 1 .. n] /\ \A k, l \in 1 .. n : order[k] = order[l] => k = l
  BY DEF Orders
<1> DEFINE Ends(j, c) == /\ c \in Choices(n)
                         /\ \A a : Shuffling(n, c, a) => \A k \in j .. n : a[j][k] = order[k]
           S == {j \in Int : \E c : Ends(j, c)}
<1>1. n + 1 \in S
  <2> DEFINE c == [k \in 1 .. n |-> k]
  <2>1. c \in Choices(n)
    BY DEF Choices
  <2> HIDE DEF c
  <2>2. Ends(n + 1, c)
    BY <2>1
  <2> HIDE DEF Ends
  <2> QED BY <2>2
<1>2. ASSUME NEW j \in Int, 1 < j, j <= n + 1, j \in S PROVE j - 1 \in S
  <2>i. PICK i : i = j - 1
    OBVIOUS
  <2>1. i \in 1 .. n /\ i + 1 = j /\ j \in 1 .. n + 1
    BY <1>2, <2>i
  <2>2. PICK c : Ends(j, c)
    BY <1>2
  <2>3. PICK a : Shuffling(n, c, a)
    BY ShufflingExists
  <2>4. a[j] \in Orders(n) /\ Onto(n, a[j]) /\ \A k \in j .. n : a[j][k] = order[k]
    BY <2>1, <2>2, <2>3, ShufflingKeepsPlayers
  <2>5. PICK p \in 1 .. n : a[j][p] = order[i]
    BY <1>0, <2>1, <2>4 DEF Onto
  <2>6. p <= i
    <3> SUFFICES ASSUME ~(p <= i) PROVE FALSE
      OBVIOUS
    <3>1. p \in j .. n
      BY <2>1
    <3>2. order[p] = order[i]
      BY <2>4, <2>5, <3>1
    <3> QED BY <1>0, <2>1, <3>2
  <2>d. PICK d : d = [c EXCEPT ![i] = p]
    OBVIOUS
  <2>7. d \in Choices(n) /\ d[i] = p /\ \A k \in j .. n : d[k] = c[k]
    <3>1. c \in [1 .. n -> 1 .. n] /\ \A k \in 1 .. n : c[k] <= k
      BY <2>2 DEF Choices
    <3>2. d \in [1 .. n -> 1 .. n] /\ d[i] = p /\ \A k \in 1 .. n : k # i => d[k] = c[k]
      BY <2>1, <2>d, <3>1
    <3>3. \A k \in j .. n : k \in 1 .. n /\ k # i
      BY <2>1
    <3> QED BY <2>6, <3>1, <3>2, <3>3 DEF Choices
  <2>8. ASSUME NEW b, Shuffling(n, d, b), NEW k \in i .. n PROVE b[i][k] = order[k]
    <3>1. a[j] = b[j]
      BY <2>1, <2>3, <2>7, <2>8, ChoicesAboveDecide
    <3>2. b[i][i] = b[j][p] /\ \A l \in j .. n : b[i][l] = b[j][l]
      BY <2>1, <2>7, <2>8, SwapSettles
    <3>3. k = i \/ k \in j .. n
      BY <2>1
    <3> QED BY <2>4, <2>5, <3>1, <3>2, <3>3
  <2>9. Ends(i, d)
    BY <2>7, <2>8
  <2> HIDE DEF Ends
  <2> QED BY <2>1, <2>i, <2>9
<1>3. 1 \in S
  <2>1. 1 \in Int /\ n + 1 \in Int /\ 1 \in 1 .. n + 1
    OBVIOUS
  <2> HIDE DEF S
  <2>2. \A j \in 1 .. n + 1 : j \in S
    BY <1>1, <1>2, <2>1, Downwards
  <2> QED BY <2>1, <2>2
<1>4. PICK c : Ends(1, c)
  BY <1>3
<1>5. PICK a : Shuffling(n, c, a)
  BY ShufflingExists
<1>6. \A k \in 1 .. n : a[1][k] = order[k]
  BY <1>4, <1>5
<1>7. a[1] = order
  <2>1. a[1] \in Orders(n)
    <3>1. 1 \in 1 .. n + 1
      OBVIOUS
    <3> QED BY <1>4, <1>5, <3>1, ShufflingKeepsPlayers
  <2>2. a[1] = [k \in 1 .. n |-> a[1][k]]
    BY <2>1 DEF Orders
  <2>3. order = [k \in 1 .. n |-> order[k]]
    BY <1>0
  <2> QED BY <1>6, <2>2, <2>3
<1>8. Shuffled(n, c) = order
  BY <1>5, <1>7, ShuffledIs
<1> QED BY <1>4, <1>8

(* The shuffle is fair for lists of every length. *)
LEMMA ShuffleFair ==
  ASSUME NEW n \in Nat, NEW order \in Orders(n)
  PROVE  Cardinality({c \in Choices(n) : Shuffled(n, c) = order}) = 1
<1>1. PICK c \in Choices(n) : Shuffled(n, c) = order
  BY EveryOrderComesOut
<1>2. \A d \in Choices(n) : Shuffled(n, d) = order => d = c
  BY <1>1, OrderTellsChoices
<1>3. {d \in Choices(n) : Shuffled(n, d) = order} = {c}
  BY <1>1, <1>2
<1> QED BY <1>3, OneElement

(* Whatever the number of players, every order comes from one way the calls of
   Math.random() may fall, so that a fair choice of indices is a fair choice of the order
   (shuffleArray of bracket.logic.js). *)
THEOREM ShufflesAreFair == Spec => []ShuffleIsFair
<1> DEFINE Size == size \in BracketSizes
<1>1. Init => Size
  BY DEF Init
<1>2. Size /\ [Next]_vars => Size'
  BY SizeStays DEF vars
<1>3. Size => ShuffleIsFair
  <2> SUFFICES ASSUME Size,
                      NEW order \in {f \in [1 .. size -> 1 .. size] :
                                       \A i, j \in 1 .. size : f[i] = f[j] => i = j}
      PROVE Cardinality({c \in Choices(size) : Shuffled(size, c) = order}) = 1
    BY DEF ShuffleIsFair
  <2>1. size \in Nat /\ order \in Orders(size)
    BY SizesTyped DEF Orders
  <2> QED BY <2>1, ShuffleFair
<1> HIDE DEF Size
<1> QED BY <1>1, <1>2, <1>3, PTL DEF Spec

-----------------------------------------------------------------------------
(* Types: what the generator returns are rows, and every method makes a row of a row. *)
LEMMA MatchIsRow ==
  ASSUME NEW round \in Nat, NEW number \in Nat, NEW p1 \in Nat, NEW p2 \in Nat,
         NEW status \in MatchStatuses, NEW winner \in Nat, NEW next \in Nat
  PROVE  Match(round, number, p1, p2, status, winner, next) \in MatchRow
BY DEF Match, MatchRow

(* The rows of a generated bracket. *)
LEMMA GeneratedAreRows ==
  ASSUME NEW n \in Nat, n >= 2, NEW b, b = SingleElimination(n)
  PROVE  b \in Seq(MatchRow) /\ 1 \in DOMAIN b
<1>r. PICK R : R = NumRounds(n)
  OBVIOUS
<1>p. PICK P : P = Pow2[R]
  OBVIOUS
<1>1. /\ R \in 1 .. n /\ P \in Nat /\ P >= 2 /\ DOMAIN b = 1 .. P - 1
      /\ \A d \in 1 .. P - 1 :
           /\ Level(b[P - d].round, R, d)
           /\ b[P - d].number = (P - d) - (P - Pow2[R - b[P - d].round + 1])
  BY <1>r, <1>p, BracketIsHeap
<1>2. \A m \in 1 .. P - 1 : b[m].next \in Nat
  <2>1. \A m \in 1 .. P - 1 : b[m].next \in 0 .. P - 1
    BY <1>r, <1>p, OneFinal
  <2> QED BY <1>1, <2>1
<1>3. ASSUME NEW m \in 1 .. P - 1 PROVE b[m].round \in Nat /\ b[m].number \in Nat
  <2>d. PICK d : d = P - m
    OBVIOUS
  <2>1. d \in 1 .. P - 1 /\ P - d = m
    BY <1>1, <2>d
  <2>2. /\ Level(b[P - d].round, R, d)
        /\ b[P - d].number = (P - d) - (P - Pow2[R - b[P - d].round + 1])
    BY <1>1, <2>1
  <2>3. Level(b[m].round, R, d) /\ b[m].number = m - (P - Pow2[R - b[m].round + 1])
    BY <2>1, <2>2
  <2>4. b[m].round \in 1 .. R /\ d < Pow2[R - b[m].round + 1]
    BY <2>3 DEF Level
  <2>5. R - b[m].round + 1 \in Nat /\ b[m].round \in Nat
    BY <1>1, <2>4
  <2>6. Pow2[R - b[m].round + 1] \in Nat
    BY <2>5, PowersOfTwo
  <2> QED BY <1>1, <2>d, <2>3, <2>4, <2>5, <2>6
<1>4. /\ b = [m \in 1 .. P - 1 |-> b[m]]
      /\ \A m \in 1 .. P - 1 :
           b[m] = IF m <= NumByes(n) THEN ByeMatch(n, m)
                  ELSE IF m <= FirstRoundSize(n) THEN PairedMatch(n, m) ELSE LaterMatch(n, m)
  BY <1>1 DEF SingleElimination
<1>5. /\ NumByes(n) \in Nat /\ NumByes(n) = P - n
      /\ FirstRoundSize(n) \in Nat /\ 2 * FirstRoundSize(n) = P
  <2>1. NumByes(n) \in Nat /\ NumByes(n) = P - n /\ FirstRoundSize(n) = Pow2[R - 1]
    BY <1>r, <1>p, SizesHalve
  <2>2. P = 2 * Pow2[R - 1] /\ Pow2[R - 1] \in Nat
    BY <1>r, <1>p, BracketIsHeap
  <2> QED BY <2>1, <2>2
<1>6. ASSUME NEW m \in 1 .. P - 1 PROVE b[m] \in MatchRow
  <2>0. /\ m \in Nat /\ Null \in Nat /\ 1 \in Nat
        /\ "SCHEDULED" \in MatchStatuses /\ "COMPLETED" \in MatchStatuses
    BY DEF Null, MatchStatuses
  <2>1. CASE m <= NumByes(n)
    <3>1. b[m] = Match(1, m, m, Null, "COMPLETED", m, NextMatch(n, m))
      BY <1>4, <2>1 DEF ByeMatch
    <3>2. NextMatch(n, m) \in Nat
      BY <1>2, <3>1 DEF Match
    <3> QED BY <2>0, <3>1, <3>2, MatchIsRow
  <2>2. CASE ~(m <= NumByes(n)) /\ m <= FirstRoundSize(n)
    <3>1. b[m] = Match(1, m, m, n + 1 - (m - NumByes(n)), "SCHEDULED", Null, NextMatch(n, m))
      BY <1>4, <2>2 DEF PairedMatch
    <3>2. NextMatch(n, m) \in Nat
      BY <1>2, <3>1 DEF Match
    <3>3. PICK other \in Nat : other = n + 1 - (m - NumByes(n))
      BY <1>1, <1>5, <2>2
    <3>4. Match(1, m, m, other, "SCHEDULED", Null, NextMatch(n, m)) \in MatchRow
      BY <2>0, <3>2, MatchIsRow
    <3> QED BY <3>1, <3>3, <3>4
  <2>3. CASE ~(m <= NumByes(n)) /\ ~(m <= FirstRoundSize(n))
    <3>1. b[m] = Match(RoundOf(n, m), m - Before(n, RoundOf(n, m)), Null, Null, "SCHEDULED",
                       Null, NextMatch(n, m))
      BY <1>4, <2>3 DEF LaterMatch
    <3>2. NextMatch(n, m) \in Nat /\ RoundOf(n, m) \in Nat /\ m - Before(n, RoundOf(n, m)) \in Nat
      BY <1>2, <1>3, <3>1 DEF Match
    <3>3. PICK number \in Nat : number = m - Before(n, RoundOf(n, m))
      BY <3>2
    <3>4. Match(RoundOf(n, m), number, Null, Null, "SCHEDULED", Null, NextMatch(n, m)) \in MatchRow
      BY <2>0, <3>2, MatchIsRow
    <3> QED BY <3>1, <3>3, <3>4
  <2> QED BY <2>1, <2>2, <2>3
<1>7. b \in [1 .. P - 1 -> MatchRow]
  BY <1>4, <1>6
<1>8. P - 1 \in Nat /\ 1 \in 1 .. P - 1
  BY <1>1
<1>9. b \in Seq(MatchRow)
  BY <1>7, <1>8, SeqDef
<1> QED BY <1>1, <1>8, <1>9

(* What the methods make of a row. *)
LEMMA WithIsRow ==
  ASSUME NEW match \in MatchRow, NEW p1 \in Nat, NEW p2 \in Nat, NEW status \in MatchStatuses,
         NEW winner \in Nat, NEW confirmed \in BOOLEAN
  PROVE  With(match, p1, p2, status, winner, confirmed) \in MatchRow
BY DEF With, MatchRow

LEMMA WithParticipantsIsRow ==
  ASSUME NEW match \in MatchRow, NEW p \in Nat, NEW q \in Nat
  PROVE  WithParticipants(match, p, q) \in MatchRow
<1> DEFINE set(status) == With(match, p, q, status, match.winner, match.confirmed)
           one == IF p = Null THEN q ELSE p
<1>1. \/ WithParticipants(match, p, q) = AsBye(set(match.status), one)
      \/ WithParticipants(match, p, q) = set("SCHEDULED")
      \/ WithParticipants(match, p, q) = set("PENDING")
      \/ WithParticipants(match, p, q) = set(match.status)
  BY Zenon DEF WithParticipants
<1>2. \A status \in MatchStatuses : set(status) \in MatchRow
  BY WithIsRow DEF MatchRow
<1>3. match.status \in MatchStatuses /\ "SCHEDULED" \in MatchStatuses /\ "PENDING" \in MatchStatuses
      /\ "BYE" \in MatchStatuses
  BY DEF MatchRow, MatchStatuses
<1>4. one \in Nat /\ Null \in Nat
  BY DEF Null
<1>5. AsBye(set(match.status), one) \in MatchRow
  <2>1. set(match.status) \in MatchRow
    BY <1>2, <1>3
  <2> HIDE DEF set, one
  <2> QED BY <1>3, <1>4, <2>1, WithIsRow DEF AsBye
<1> HIDE DEF set, one
<1> QED BY <1>1, <1>2, <1>3, <1>5

(* A saved row takes the place of the old one. *)
LEMMA SaveTyped ==
  ASSUME matches \in Seq(MatchRow), NEW m \in DOMAIN matches, NEW new \in MatchRow, Save(m, new)
  PROVE  matches' \in Seq(MatchRow) /\ DOMAIN matches' = DOMAIN matches
<1>1. Len(matches) \in Nat /\ DOMAIN matches = 1 .. Len(matches)
      /\ matches \in [1 .. Len(matches) -> MatchRow]
  BY LenProperties
<1>2. matches' \in [1 .. Len(matches) -> MatchRow]
  BY <1>1 DEF Save
<1>3. matches' \in Seq(MatchRow)
  BY <1>1, <1>2, SeqDef
<1> QED BY <1>1, <1>2, <1>3

(* Rows are rows after any sequence of results, disputes and changes of players, and a
   submission in progress carries a row that was open for a result, and a winner who
   played in it (match.entity.js, submit-match-result.usecase.js). *)
THEOREM RowsAreTyped == Spec => []TypeOK
<1>1. Init => TypeOK
  <2> SUFFICES ASSUME Init PROVE TypeOK
    OBVIOUS
  <2>1. PICK type \in BracketTypes : Accepts(type, size) /\ matches = Generate(type, size)
    BY DEF Init
  <2>2. size \in BracketSizes /\ size \in Nat /\ size >= 2
    BY SizesTyped DEF Init
  <2>3. matches = SingleElimination(size)
    BY <2>1, SingleMatchIsBracketOfTwo DEF Accepts, Generate
  <2>4. matches \in Seq(MatchRow) /\ 1 \in DOMAIN matches
    BY <2>2, <2>3, GeneratedAreRows
  <2>5. played \in DOMAIN matches
    BY <2>4 DEF Init
  <2> QED BY <2>2, <2>4, <2>5 DEF Init, TypeOK, WaitingOK
<1>2. TypeOK /\ [Next]_vars => TypeOK'
  <2> SUFFICES ASSUME TypeOK, [Next]_vars PROVE TypeOK'
    OBVIOUS
  <2>0. /\ size \in BracketSizes /\ size \in Nat
        /\ matches \in Seq(MatchRow) /\ played \in DOMAIN matches
        /\ \A s \in Submissions : WaitingOK(submission[s])
        /\ overwrote \in BOOLEAN
    BY SizesTyped DEF TypeOK
  <2>r. \A m \in DOMAIN matches : matches[m] \in MatchRow
    BY <2>0, LenProperties
  <2>w. ASSUME matches' \in Seq(MatchRow), DOMAIN matches' = DOMAIN matches,
               size' = size, played' = played, overwrote' \in BOOLEAN,
               \A s \in Submissions : \/ submission'[s] = submission[s]
                                      \/ WaitingOK(submission'[s])
        PROVE  TypeOK'
    BY <2>0, <2>w DEF TypeOK, WaitingOK
  <2>s. ASSUME NEW new \in MatchRow, Save(played, new),
               UNCHANGED <<size, played, submission, overwrote>>
        PROVE  TypeOK'
    <3>1. matches' \in Seq(MatchRow) /\ DOMAIN matches' = DOMAIN matches
      BY <2>0, <2>s, SaveTyped
    <3> QED BY <2>0, <2>s, <2>w, <3>1
  <2>1. CASE Organize(played)
    <3> DEFINE old == matches[played]
    <3>0. old \in MatchRow /\ UNCHANGED <<size, played, submission, overwrote>>
      BY <2>0, <2>1, <2>r DEF Organize
    <3>p. /\ old.p1 \in Nat /\ old.p2 \in Nat /\ old.winner \in Nat /\ old.confirmed \in BOOLEAN
          /\ Participants(old) \subseteq Nat
      BY <3>0 DEF MatchRow, Participants
    <3>t. \A status \in {"IN_PROGRESS", "COMPLETED", "DISPUTED", "SCHEDULED", "CANCELED"} :
             status \in MatchStatuses
      BY DEF MatchStatuses
    <3> HIDE DEF old
    <3>1. ASSUME NEW p, NEW q, p \in {Null} \cup 1 .. size, q \in {Null} \cup 1 .. size,
                 Save(played, WithParticipants(old, p, q))
          PROVE  TypeOK'
      <4>1. p \in Nat /\ q \in Nat
        BY <2>0, <3>1 DEF Null
      <4> QED BY <2>s, <3>0, <3>1, <4>1, WithParticipantsIsRow
    <3>2. ASSUME NEW winner \in Participants(old),
                 NEW status \in {"COMPLETED", "CANCELED", "SCHEDULED"},
                 Save(played, Resolved(old, winner, status))
          PROVE  TypeOK'
      <4>1. Resolved(old, winner, status) \in MatchRow
        BY <3>0, <3>p, <3>t, WithIsRow DEF Resolved
      <4> QED BY <2>s, <3>0, <3>2, <4>1
    <3>3. /\ Started(old) \in MatchRow /\ Confirmed(old) \in MatchRow
          /\ Disputed(old) \in MatchRow /\ Canceled(old) \in MatchRow
      BY <3>0, <3>p, <3>t, WithIsRow DEF Started, Confirmed, Disputed, Canceled
    <3>4. CASE SetParticipants(played)
      BY <3>1, <3>4 DEF SetParticipants, old
    <3>5. CASE Resolve(played)
      BY <3>2, <3>5 DEF Resolve, old
    <3>6. CASE Start(played) \/ Confirm(played) \/ Dispute(played) \/ Cancel(played)
      BY <2>s, <3>0, <3>3, <3>6 DEF Start, Confirm, Dispute, Cancel, old
    <3> QED BY <2>1, <3>4, <3>5, <3>6 DEF Organize
  <2>2. ASSUME NEW s \in Submissions, NEW user \in 1 .. size, NEW winner \in 1 .. size,
               ReadMatch(s, played, user, winner)
        PROVE  TypeOK'
    <3>1. WaitingOK(Waiting(played, matches[played], winner))
      BY <2>0, <2>2, <2>r DEF ReadMatch, WaitingOK, Waiting
    <3>2. \A t \in Submissions : \/ submission'[t] = submission[t]
                                 \/ submission'[t] = Waiting(played, matches[played], winner)
      BY <2>2 DEF ReadMatch
    <3> QED BY <2>0, <2>2, <2>w, <3>1, <3>2 DEF ReadMatch
  <2>3. ASSUME NEW s \in Submissions, WriteResult(s) PROVE TypeOK'
    <3> DEFINE r == submission[s]
    <3>1. r.match \in DOMAIN matches /\ r.copy \in MatchRow /\ r.winner \in Participants(r.copy)
      BY <2>0, <2>3 DEF WriteResult, WaitingOK
    <3>2. r.winner \in Nat /\ matches[r.match] \in MatchRow
      BY <2>r, <3>1 DEF MatchRow, Participants
    <3>3. Reported(matches[r.match], r.winner) \in MatchRow
      <4>1. /\ matches[r.match].p1 \in Nat /\ matches[r.match].p2 \in Nat
            /\ matches[r.match].confirmed \in BOOLEAN /\ "AWAITING_CONFIRMATION" \in MatchStatuses
        BY <3>2 DEF MatchRow, MatchStatuses
      <4> HIDE DEF r
      <4> QED BY <3>2, <4>1, WithIsRow DEF Reported
    <3>4. Save(r.match, Reported(matches[r.match], r.winner))
      BY <2>3 DEF WriteResult
    <3>5. matches' \in Seq(MatchRow) /\ DOMAIN matches' = DOMAIN matches
      <4> HIDE DEF r
      <4> QED BY <2>0, <3>1, <3>3, <3>4, SaveTyped
    <3>6. \A t \in Submissions : submission'[t] = submission[t] \/ submission'[t] = NotSubmitting
      BY <2>3 DEF WriteResult
    <3>7. size' = size /\ played' = played /\ overwrote' \in BOOLEAN
      BY <2>0, <2>3 DEF WriteResult
    <3>8. WaitingOK(NotSubmitting)
      BY DEF WaitingOK
    <3> QED BY <2>w, <3>5, <3>6, <3>7, <3>8
  <2>4. ASSUME NEW s \in Submissions, SubmissionFails(s) PROVE TypeOK'
    <3>1. \A t \in Submissions : submission'[t] = submission[t] \/ submission'[t] = NotSubmitting
      BY <2>4 DEF SubmissionFails
    <3>2. WaitingOK(NotSubmitting)
      BY DEF WaitingOK
    <3> QED BY <2>0, <2>4, <2>w, <3>1, <3>2 DEF SubmissionFails
  <2>5. CASE UNCHANGED vars
    BY <2>0, <2>5, <2>w DEF vars
  <2> QED BY <2>1, <2>2, <2>3, <2>4, <2>5 DEF Next
<1> QED BY <1>1, <1>2, PTL DEF Spec

=============================================================================
