------------------------------ MODULE Bracket ------------------------------
(***************************************************************************)
(* Generation of the matches of a tournament                               *)
(* (src/domain/tournament/bracket.logic.js): a single match, or a single-  *)
(* elimination bracket with byes.                                          *)
(*                                                                         *)
(* A participant is its place in the order that seeding or shuffling gives *)
(* the list, 1 the first; 0 is null.  A match is known by its place in the *)
(* array the generator returns, which stands for its uuid.  Functions only:*)
(* the loops of the code are sums over the sizes of the rounds.            *)
(***************************************************************************)
EXTENDS Integers, Sequences, FiniteSets

Null == 0

Match(round, number, p1, p2, status, winner, next) ==
  [round |-> round, number |-> number, p1 |-> p1, p2 |-> p2, status |-> status,
   winner |-> winner, confirmed |-> FALSE, next |-> next]

-----------------------------------------------------------------------------
(* Shuffling: the swap at index i takes any j <= i, from the last index down. *)

Swap(s, i, j) == [s EXCEPT ![i] = s[j], ![j] = s[i]]

ChoicesBelow(n) == {c \in [1 .. n -> 1 .. n] : \A i \in 1 .. n : c[i] = 1 \/ c[i] < i}

\* what the calls of Math.random() decide; index 1 is not visited
Choices(n) == {c \in [1 .. n -> 1 .. n] : \A i \in 1 .. n : c[i] <= i}

Shuffled(n, c) ==
  LET after[i \in 1 .. n + 1] ==
        IF i = n + 1 THEN [k \in 1 .. n |-> k] ELSE Swap(after[i + 1], i, c[i])
  IN  after[1]

-----------------------------------------------------------------------------
(* Math.pow(2, r), as a function: the provers have no arithmetic of exponents. *)
Pow2[r \in Nat] == IF r = 0 THEN 1 ELSE 2 * Pow2[r - 1]

(* Math.ceil(Math.log2(n)) *)
NumRounds(n) == CHOOSE r \in 0 .. n : n <= Pow2[r] /\ \A q \in 0 .. r - 1 : Pow2[q] < n

NumByes(n) == Pow2[NumRounds(n)] - n

\* the players without a bye, two to a match
FirstRoundSize(n) == NumByes(n) + (n - NumByes(n) + 1) \div 2

(* The while loop: each round pairs the matches of the one before, until one is left. *)
RoundSizes(n) ==
  LET size[r \in 1 .. n] ==
        IF r = 1 THEN FirstRoundSize(n) ELSE (size[r - 1] + 1) \div 2
  IN  size

LastRound(n) == CHOOSE r \in 1 .. n : /\ RoundSizes(n)[r] = 1
                                      /\ \A q \in 1 .. r - 1 : RoundSizes(n)[q] > 1

\* matches before round r
Before(n, r) == LET size == RoundSizes(n)
                    sum[q \in 1 .. n + 1] ==
                      IF q = 1 THEN 0 ELSE sum[q - 1] + size[q - 1]
                IN  sum[r]

(* Round and number of the match at place m, and the match its winner goes to: those
   at i and i + 1 (i even, from 0) go to the same match of the next round. *)
RoundOf(n, m) == CHOOSE r \in 1 .. LastRound(n) : /\ Before(n, r) < m
                                                  /\ m <= Before(n, r + 1)

NextAhead(n, m) ==
  LET r == RoundOf(n, m) IN
  IF r = LastRound(n) THEN Null ELSE Before(n, r + 1) + ((m - Before(n, r)) \div 2) + 1

NextMatch(n, m) ==
  LET r == RoundOf(n, m) IN
  IF r = LastRound(n) THEN Null ELSE Before(n, r + 1) + (m - Before(n, r) + 1) \div 2

(* The first places get a bye: a match of their own that is over.  The constructor's
   arguments are positional: the TRUE meant for isConfirmed becomes the URL of the second
   proof. *)
ByeMatch(n, m) == Match(1, m, m, Null, "COMPLETED", m, NextMatch(n, m))

PairedAgainstTop(n, m) == Match(1, m, m, n + 1 - m, "SCHEDULED", Null, NextMatch(n, m))

\* the others play: first against last, second against last but one, ...
PairedMatch(n, m) ==
  Match(1, m, m, n + 1 - (m - NumByes(n)), "SCHEDULED", Null, NextMatch(n, m))

LaterMatch(n, m) ==
  Match(RoundOf(n, m), m - Before(n, RoundOf(n, m)), Null, Null, "SCHEDULED", Null,
        NextMatch(n, m))

SingleElimination(n) ==
  [m \in 1 .. Before(n, LastRound(n) + 1) |->
     IF m <= NumByes(n) THEN ByeMatch(n, m)
     ELSE IF m <= FirstRoundSize(n) THEN PairedMatch(n, m)
     ELSE LaterMatch(n, m)]

SingleMatch == <<Match(1, 1, 1, 2, "SCHEDULED", Null, Null)>>

\* the other types throw: not implemented, or unsupported
BracketTypes == {"SINGLE_MATCH", "SINGLE_ELIMINATION"}

Accepts(type, n) == IF type = "SINGLE_MATCH" THEN n = 2 ELSE n >= 2

Generate(type, n) == IF type = "SINGLE_MATCH" THEN SingleMatch ELSE SingleElimination(n)

(* What validateBracket warns of (it returns TRUE all the same). *)
Warned(matches, n) ==
  \/ Len(matches) # Pow2[NumRounds(n)] - 1
  \/ Cardinality({m \in DOMAIN matches : /\ matches[m].next = Null
                                         /\ matches[m].round = NumRounds(n)}) # 1

-----------------------------------------------------------------------------
(* A reference definition, which says nothing of loops and offsets. *)

Feeders(b, m) == {k \in DOMAIN b : b[k].next = m}

Players(b, m) == {b[m].p1, b[m].p2} \ {Null}

\* the matches on the way of the winner of match m, m included
WayFrom(b, m) ==
  LET way[k \in 0 .. Len(b)] ==
        IF k = Null THEN {} ELSE {k} \cup IF b[k].next > k THEN way[b[k].next] ELSE {}
  IN  way[m]

(* A knock-out tournament of n players: every player enters once, in the first round;
   every later match waits for the winners of exactly two matches of the round before;
   and every player is the same number of wins away from the one final. *)
IsKnockout(b, n) ==
  LET first == {m \in DOMAIN b : b[m].round = 1}
      finals == {m \in DOMAIN b : b[m].next = Null}
  IN  /\ \A p \in 1 .. n : Cardinality({m \in first : p \in Players(b, m)}) = 1
      /\ \A m \in first : Players(b, m) # {} /\ Players(b, m) \subseteq 1 .. n
      /\ \A m \in DOMAIN b \ first :
           /\ Cardinality(Feeders(b, m)) = 2
           /\ \A k \in Feeders(b, m) : b[k].round = b[m].round - 1
      /\ Cardinality(finals) = 1
      /\ \A m \in first : finals \subseteq WayFrom(b, m)
      /\ Cardinality({<<b[m].round, b[m].number>> : m \in DOMAIN b}) = Len(b)

=============================================================================
