------------------------------ MODULE Matches ------------------------------
(***************************************************************************)
(* The matches of a generated bracket: the life of a row of Matches under  *)
(* the methods of the entity (src/domain/tournament/match.entity.js) and   *)
(* under submissions of results (src/application/use-cases/match/          *)
(* submit-match-result.usecase.js).                                        *)
(*                                                                         *)
(* A submission reads the row into an entity, judges that copy and writes  *)
(* three columns back after the next await, without a database transaction *)
(* or a lock: two players may both submit, and whatever happened to the    *)
(* match in between is overwritten.  The organizer stands for a service    *)
(* that loads a match, calls one method of the entity and saves it, in one *)
(* step; the entity's comments leave these calls to such a service.        *)
(***************************************************************************)
EXTENDS Bracket

CONSTANTS
  BracketSizes,  \* numbers of participants a bracket is generated for
  MaxPlayed,     \* bound: brackets of up to this many participants are played
  Submissions,   \* calls of SubmitMatchResult that may be in progress
  MaxShuffled    \* bound: lists up to this long are shuffled in every way

ASSUME SizesTyped == BracketSizes \subseteq Nat \ {0, 1} /\ BracketSizes # {}

VARIABLES
  size,        \* participants of the tournament
  matches,     \* rows of Matches
  played,      \* the row whose life is followed: no step touches two
  submission,  \* local state of each submission in progress
  overwrote    \* history: a submission wrote over a row that was not what it had read

vars == <<size, matches, played, submission, overwrote>>

-----------------------------------------------------------------------------
MatchStatuses == {"PENDING", "SCHEDULED", "IN_PROGRESS", "AWAITING_SCORES",
                  "AWAITING_CONFIRMATION", "DISPUTED", "COMPLETED", "CANCELED", "BYE"}

MatchRow == [round : Nat, number : Nat, p1 : Nat, p2 : Nat, status : MatchStatuses,
             winner : Nat, confirmed : BOOLEAN, next : Nat]

Blank == Match(0, 0, Null, Null, "PENDING", Null, Null)

With(match, p1, p2, status, winner, confirmed) ==
  [round |-> match.round, number |-> match.number, p1 |-> p1, p2 |-> p2,
   status |-> status, winner |-> winner, confirmed |-> confirmed, next |-> match.next]

Waiting(m, copy, winner) == [match |-> m, copy |-> copy, winner |-> winner]

NotSubmitting == Waiting(Null, Blank, Null)

Participants(match) == {match.p1, match.p2} \ {Null}

Init ==
  /\ size \in BracketSizes
  /\ \E type \in BracketTypes : Accepts(type, size) /\ matches = Generate(type, size)
  /\ played \in IF size <= MaxPlayed THEN DOMAIN matches ELSE {1}
  /\ submission = [s \in Submissions |-> NotSubmitting]
  /\ overwrote = FALSE

-----------------------------------------------------------------------------
(* SubmitMatchResultUseCase *)

OpenForAnyResult(match) == match.status # "CANCELED"

OpenForResult(match) == match.status \in {"IN_PROGRESS", "AWAITING_SCORES"}

ReadMatch(s, m, user, winner) ==
  /\ submission[s] = NotSubmitting
  /\ user \in Participants(matches[m])
  /\ OpenForResult(matches[m])
  /\ winner \in Participants(matches[m])
  /\ submission' = [submission EXCEPT ![s] = Waiting(m, matches[m], winner)]
  /\ UNCHANGED <<size, matches, played, overwrote>>

Save(m, match) == matches' = [matches EXCEPT ![m] = match]

Reported(match, winner) ==
  With(match, match.p1, match.p2, "AWAITING_CONFIRMATION", winner, match.confirmed)

(* recordResult works on the copy.  Of what it sets, the winner, the status and the end
   time are written: the names given for scores and proof are not columns of the model,
   and isConfirmed is not among the fields. *)
WriteResult(s) ==
  LET r == submission[s] IN
  /\ r # NotSubmitting
  /\ Save(r.match, Reported(matches[r.match], r.winner))
  /\ overwrote' = (overwrote \/ matches[r.match] # r.copy)
  /\ submission' = [submission EXCEPT ![s] = NotSubmitting]
  /\ UNCHANGED <<size, played>>

\* the database fails, or the process dies, before the row is written
SubmissionFails(s) ==
  /\ submission[s] # NotSubmitting
  /\ submission' = [submission EXCEPT ![s] = NotSubmitting]
  /\ UNCHANGED <<size, matches, played, overwrote>>

-----------------------------------------------------------------------------
(* Methods of the entity, called by the organizer.  Each is what a match becomes. *)

Started(match) ==
  With(match, match.p1, match.p2, "IN_PROGRESS", match.winner, match.confirmed)

Confirmed(match) == With(match, match.p1, match.p2, "COMPLETED", match.winner, TRUE)

Disputed(match) == With(match, match.p1, match.p2, "DISPUTED", match.winner, FALSE)

Resolved(match, winner, status) == With(match, match.p1, match.p2, status, winner, TRUE)

AsBye(match, winner) ==
  IF match.p1 # winner /\ match.p2 = winner
    THEN With(match, Null, winner, "BYE", winner, TRUE)
    ELSE With(match, winner, Null, "BYE", winner, TRUE)

(* One participant alone makes a match that has not begun a bye; a second one makes a
   bye a match again; none leaves it pending. *)
WithParticipants(match, p, q) ==
  LET set(status) == With(match, p, q, status, match.winner, match.confirmed)
  IN  CASE (p = Null) # (q = Null) /\ match.status \in {"SCHEDULED", "PENDING"} ->
             AsBye(set(match.status), IF p = Null THEN q ELSE p)
        [] p # Null /\ q # Null /\ match.status = "BYE" -> set("SCHEDULED")
        [] p = Null /\ q = Null -> set("PENDING")
        [] OTHER -> set(match.status)

Canceled(match) ==
  With(match, match.p1, match.p2, "CANCELED", match.winner, match.confirmed)

Start(m) == matches[m].status = "SCHEDULED" /\ Save(m, Started(matches[m]))

ConfirmUnlessOver(m) ==
  /\ matches[m].status \notin {"COMPLETED", "CANCELED"}
  /\ Save(m, Confirmed(matches[m]))

Confirm(m) ==
  /\ matches[m].status \in {"AWAITING_CONFIRMATION", "DISPUTED"}
  /\ Save(m, Confirmed(matches[m]))

Dispute(m) ==
  /\ matches[m].status \in {"AWAITING_CONFIRMATION", "COMPLETED"}
  /\ Save(m, Disputed(matches[m]))

\* "Could be COMPLETED, CANCELED, or back to SCHEDULED for replay"
Resolve(m) ==
  /\ matches[m].status = "DISPUTED"
  /\ \E winner \in Participants(matches[m]), status \in {"COMPLETED", "CANCELED", "SCHEDULED"} :
       Save(m, Resolved(matches[m], winner, status))

Open(match) == match.status \in {"SCHEDULED", "PENDING", "BYE"}

(* The bracket's order is kept: a match takes its players before it begins. *)
SetParticipants(m) ==
  /\ Open(matches[m])
  /\ \E p, q \in {Null} \cup 1 .. size :
       /\ p # q \/ p = Null
       /\ Save(m, WithParticipants(matches[m], p, q))

Cancelable(match) == match.status \notin {"COMPLETED", "CANCELED"}

Cancel(m) == Cancelable(matches[m]) /\ Save(m, Canceled(matches[m]))

Organize(m) ==
  /\ Start(m) \/ Confirm(m) \/ Dispute(m) \/ Resolve(m) \/ SetParticipants(m) \/ Cancel(m)
  /\ UNCHANGED <<size, played, submission, overwrote>>

-----------------------------------------------------------------------------
Next ==
  \/ size <= MaxPlayed /\ Organize(played)
  \/ /\ size <= MaxPlayed
     /\ \E s \in Submissions, user, winner \in 1 .. size : ReadMatch(s, played, user, winner)
  \/ \E s \in Submissions : WriteResult(s) \/ SubmissionFails(s)

Spec == Init /\ [][Next]_vars

-----------------------------------------------------------------------------
WaitingOK(r) ==
  \/ r = NotSubmitting
  \/ /\ r.match \in DOMAIN matches
     /\ r.copy \in MatchRow
     /\ OpenForResult(r.copy)
     /\ r.winner \in Participants(r.copy)

(* The rows have their types, and a submission in progress carries a row that was open
   for a result, and a winner who played in it. *)
TypeOK ==
  /\ size \in BracketSizes
  /\ matches \in Seq(MatchRow)
  /\ played \in DOMAIN matches
  /\ \A s \in Submissions : WaitingOK(submission[s])
  /\ overwrote \in BOOLEAN

(* What the generator returns is a knock-out tournament, for every number of players,
   byes or not, and validateBracket has nothing to warn of. *)
BracketIsKnockout ==
  \A type \in BracketTypes :
    Accepts(type, size) =>
      IsKnockout(Generate(type, size), size) /\ ~Warned(Generate(type, size), size)

(* Every order of the players comes from exactly one way the random choices may fall:
   the shuffle is fair when the choices are. *)
ShuffleIsFair ==
  size <= MaxShuffled =>
    \A order \in {f \in [1 .. size -> 1 .. size] : \A i, j \in 1 .. size : f[i] = f[j] => i = j} :
      Cardinality({c \in Choices(size) : Shuffled(size, c) = order}) = 1

(* A match that has a result, confirmed, disputed or waiting for either, has a winner
   who plays in it, after any sequence of results, disputes, replays, byes and changes
   of players: only a submission that writes over what it has not read can break that. *)
ResultHasWinner ==
  overwrote \/ \A m \in DOMAIN matches :
    matches[m].status \in {"AWAITING_CONFIRMATION", "DISPUTED", "COMPLETED"} =>
      matches[m].winner \in Participants(matches[m])

(* A match that is over keeps its players and its winner until somebody disputes it,
   whatever is submitted: only a submission that read the match before it was over
   changes a decision. *)
DecisionsStand ==
  [][\A m \in DOMAIN matches :
       matches[m].status \in {"COMPLETED", "CANCELED"} /\ ~overwrote' =>
         \/ matches'[m] = matches[m]
         \/ matches[m].status = "COMPLETED" /\ matches'[m] = Disputed(matches[m])]_vars

=============================================================================
