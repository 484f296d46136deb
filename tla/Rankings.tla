------------------------------ MODULE Rankings ------------------------------
(***************************************************************************)
(* Leaderboards: scores are written and ranks are read through one Redis   *)
(* client of the server process.                                           *)
(*                                                                         *)
(* The client sends the commands of all calls down one connection in the   *)
(* order they are issued, Redis executes them in that order, and the       *)
(* answers come back in it.  When the connection is lost every command     *)
(* that has no answer yet is rejected, executed or not; the client         *)
(* connects again on its own.  A step of a call is the code from one await *)
(* to the next: receiving an answer and issuing the next command.          *)
(*                                                                         *)
(* A board is a game, a metric and a period; what names say is left out.   *)
(***************************************************************************)
EXTENDS Integers, Sequences, FiniteSets, SequencesExt

CONSTANTS
  Users,        \* members of the boards, numbers: equal scores are ranked by member
  Scores,
  Boards,
  ScoreLists,   \* the boards one call of UpdateScore names, in their order
  Surrounding,  \* players shown above and below
  PageLimit,    \* entries of a page
  Standings,    \* the scores the boards begin with
  MaxCalls,     \* bound: calls of the three use cases
  MaxLosses     \* bound: connections lost

ConstantsFit ==
  /\ Users \subseteq Nat /\ IsFiniteSet(Users)
  /\ Scores \subseteq Nat \ {0}
  /\ ScoreLists \subseteq Seq(Boards) \ {<<>>}
  /\ Standings \subseteq [Users -> Scores \cup {0}]
  /\ Surrounding \in Nat /\ PageLimit \in Nat

VARIABLES
  client,    \* the adapter's client: none, connecting, open or closing
  score,     \* external: the score of each user on each board, 0 for none
  calls,     \* the calls made so far
  sent,      \* calls whose command Redis has not executed yet, in the order sent
  replies,   \* answers on their way, in order: a call, and whether it is an answer or an error
  lost,      \* connections lost
  began,     \* history: updates in the order of their first command
  writer     \* history: the call that wrote each score, 0 for none

data == <<score, writer>>
vars == <<client, data, calls, sent, replies, lost, began>>

Init ==
  /\ client = "none"
  /\ \E s \in Standings : score = [b \in Boards |-> s]
  /\ calls = <<>> /\ sent = <<>> /\ replies = <<>>
  /\ lost = 0
  /\ began = <<>>
  /\ writer = [b \in Boards |-> [u \in Users |-> 0]]

-----------------------------------------------------------------------------
(* redis.adapter *)

Initialize ==
  /\ client = "none" /\ calls = <<>>
  /\ client' = "connecting"
  /\ UNCHANGED <<data, calls, sent, replies, lost, began>>

Connected ==
  /\ client = "connecting"
  /\ client' = "open"
  /\ UNCHANGED <<data, calls, sent, replies, lost, began>>

\* quit() takes no more commands and lets those that were sent finish.
Close ==
  /\ client = "open"
  /\ client' = "closing"
  /\ UNCHANGED <<data, calls, sent, replies, lost, began>>

Ended ==
  /\ client = "closing" /\ sent = <<>> /\ replies = <<>>
  /\ client' = "none"
  /\ UNCHANGED <<data, calls, sent, replies, lost, began>>

LoseConnection ==
  /\ client \in {"open", "closing"} /\ lost < MaxLosses
  /\ lost' = lost + 1
  /\ replies' = [k \in 1 .. Len(replies) + Len(sent) |->
                   [call |-> IF k <= Len(replies) THEN replies[k].call ELSE sent[k - Len(replies)],
                    ok |-> FALSE]]
  /\ sent' = <<>>
  /\ UNCHANGED <<client, data, calls, began>>

-----------------------------------------------------------------------------
(* The sorted sets *)

\* From the highest score to the lowest, equal scores by member, highest first.
Above(b, u, v) == score[b][u] > score[b][v] \/ (score[b][u] = score[b][v] /\ u > v)

Ranked(b) ==
  CHOOSE s \in SetToSeqs({u \in Users : score[b][u] # 0}) :
    \A j, k \in DOMAIN s : j < k => Above(b, s[j], s[k])

Slice(b, start, stop) ==
  LET all == Ranked(b)
      rows == SubSeq(all, start + 1, IF stop < Len(all) THEN stop + 1 ELSE Len(all))
  IN  [k \in 1 .. Len(rows) |-> [user |-> rows[k], score |-> score[b][rows[k]]]]

-----------------------------------------------------------------------------
(* Calls and their commands *)

(* whole and steady are history: no command of the update was rejected, and the board
   has not changed since it was first read. *)
Update(u, s, l) == [op |-> "update", pc |-> "name", user |-> u, score |-> s, list |-> l, at |-> 1, whole |-> TRUE]
Reading(op, u, b, page) ==
  [op |-> op, pc |-> IF op = "rank" THEN "place" ELSE "card", user |-> u, board |-> b, page |-> page,
   place |-> 0, score |-> 0, total |-> 0, rows |-> <<>>, steady |-> TRUE]

(* A call issues its next command.  A client that is closing or closed throws: an
   update tries its other boards and fails on each, a reading fails. *)
Issue(i, all, c) ==
  IF client = "open"
    THEN calls' = [all EXCEPT ![i] = c] /\ sent' = Append(sent, i)
    ELSE /\ calls' = [all EXCEPT ![i] = [c EXCEPT !.pc = IF c.op = "update" THEN "done" ELSE "failed"]]
         /\ UNCHANGED sent

Return(i, c, pc) == calls' = [calls EXCEPT ![i] = [c EXCEPT !.pc = pc]] /\ UNCHANGED sent

Called(c) == Issue(Len(calls) + 1, Append(calls, c), c)

UpdateScore(u, s, l) ==
  /\ client \in {"open", "closing"} /\ Len(calls) < MaxCalls
  /\ Called(Update(u, s, l))
  /\ began' = Append(began, Len(calls) + 1)
  /\ UNCHANGED <<client, data, replies, lost>>

\* The name is not given: it is read from the users table first.
UpdateScoreUnnamed(u, s, l) ==
  /\ client \in {"open", "closing"} /\ Len(calls) < MaxCalls
  /\ calls' = Append(calls, [Update(u, s, l) EXCEPT !.pc = "lookup"])
  /\ UNCHANGED <<client, data, sent, replies, lost, began>>

\* The user, nobody, or an error: whichever it is, there is a name to go on with.
UserFound(i) ==
  /\ calls[i].pc = "lookup"
  /\ Issue(i, calls, [calls[i] EXCEPT !.pc = "name"])
  /\ began' = IF i \in ToSet(began) THEN began ELSE Append(began, i)
  /\ UNCHANGED <<client, data, replies, lost>>

GetUserRank(u, b) ==
  /\ client \in {"open", "closing"} /\ Len(calls) < MaxCalls
  /\ Called(Reading("rank", u, b, 0))
  /\ UNCHANGED <<client, data, replies, lost, began>>

GetLeaderboard(b, page) ==
  /\ client \in {"open", "closing"} /\ Len(calls) < MaxCalls
  /\ Called(Reading("page", 0, b, page))
  /\ UNCHANGED <<client, data, replies, lost, began>>

-----------------------------------------------------------------------------
(* Redis executes the next command *)

\* The first player shown, counted from 0.
StartRank(c) == IF c.place - Surrounding - 1 > 0 THEN c.place - Surrounding - 1 ELSE 0

\* mutant: the player above the user is counted twice
StopRankShort(c) == c.place + Surrounding - 2

StopRank(c) == c.place + Surrounding - 1

\* What Redis answers to the command of the call.
Answered(c) ==
  CASE c.pc = "place" ->
         LET all == Ranked(c.board) IN
         [c EXCEPT !.place = IF c.user \in ToSet(all) THEN CHOOSE k \in DOMAIN all : all[k] = c.user ELSE 0,
                   !.score = score[c.board][c.user], !.steady = TRUE]
    [] c.pc = "around" -> [c EXCEPT !.rows = Slice(c.board, StartRank(c), StopRank(c))]
    [] c.pc = "card" -> [c EXCEPT !.total = Len(Ranked(c.board)), !.steady = TRUE]
    [] c.pc = "range" -> [c EXCEPT !.rows = Slice(c.board, (c.page - 1) * PageLimit, c.page * PageLimit - 1)]
    [] OTHER -> c

WriteScore(b, c, i) ==
  /\ score' = [score EXCEPT ![b][c.user] = c.score]
  /\ writer' = [writer EXCEPT ![b][c.user] = i]
  /\ calls' = [k \in DOMAIN calls |->
                 IF calls[k].op # "update" /\ calls[k].board = b THEN [calls[k] EXCEPT !.steady = FALSE] ELSE calls[k]]

Execute ==
  /\ sent # <<>>
  /\ LET i == Head(sent)
         c == calls[i]
     IN  /\ IF c.pc = "score"
               THEN WriteScore(c.list[c.at], c, i)
               ELSE calls' = [calls EXCEPT ![i] = Answered(c)] /\ UNCHANGED data
         /\ replies' = Append(replies, [call |-> i, ok |-> TRUE])
  /\ sent' = Tail(sent)
  /\ UNCHANGED <<client, lost, began>>

-----------------------------------------------------------------------------
(* The client delivers an answer, and the call goes on *)

\* mutant: the user is read again for every board
NextBoardAfterLookup(i, c) ==
  IF c.at < Len(c.list) THEN Return(i, [c EXCEPT !.at = @ + 1], "lookup") ELSE Return(i, c, "done")

\* The next board of the update, also when the last one failed.
NextBoard(i, c) ==
  IF c.at < Len(c.list) THEN Issue(i, calls, [c EXCEPT !.at = @ + 1, !.pc = "name"]) ELSE Return(i, c, "done")

AddScore(i, c, ok) ==
  IF c.pc = "name" /\ ok THEN Issue(i, calls, [c EXCEPT !.pc = "score"])
  ELSE NextBoard(i, [c EXCEPT !.whole = @ /\ ok])

RankRead(i, c) ==
  CASE c.pc = "place" -> IF c.place = 0 THEN Return(i, c, "missing") ELSE Issue(i, calls, [c EXCEPT !.pc = "around"])
    [] c.pc = "around" -> IF c.rows = <<>> THEN Return(i, c, "done") ELSE Issue(i, calls, [c EXCEPT !.pc = "names"])
    [] c.pc = "names" -> Return(i, c, "done")

PageRead(i, c) ==
  CASE c.pc = "card" -> IF c.total = 0 THEN Return(i, c, "done") ELSE Issue(i, calls, [c EXCEPT !.pc = "range"])
    [] c.pc = "range" -> IF c.rows = <<>> THEN Return(i, c, "done") ELSE Issue(i, calls, [c EXCEPT !.pc = "names"])
    [] c.pc = "names" -> Return(i, c, "done")

Receive ==
  /\ replies # <<>>
  /\ LET i == Head(replies).call
         c == calls[i]
         ok == Head(replies).ok
     IN  CASE c.op = "update" -> AddScore(i, c, ok)
           [] c.op = "rank" /\ ok -> RankRead(i, c)
           [] c.op = "page" /\ ok -> PageRead(i, c)
           [] OTHER -> Return(i, c, "failed")
  /\ replies' = Tail(replies)
  /\ UNCHANGED <<client, data, lost, began>>

Next ==
  \/ Initialize \/ Connected \/ Close \/ Ended \/ LoseConnection
  \/ \E u \in Users, s \in Scores, l \in ScoreLists : UpdateScore(u, s, l) \/ UpdateScoreUnnamed(u, s, l)
  \/ \E i \in DOMAIN calls : UserFound(i)
  \/ \E u \in Users, b \in Boards : GetUserRank(u, b)
  \/ \E b \in Boards, page \in 1 .. 2 : GetLeaderboard(b, page)
  \/ Execute \/ Receive

Spec == Init /\ [][Next]_vars

-----------------------------------------------------------------------------
Earlier(i, j) ==
  \E k, m \in DOMAIN began : k < m /\ began[k] = i /\ began[m] = j

Alike(i, j) ==
  /\ calls[i].list = calls[j].list /\ IsInjective(calls[i].list)
  /\ calls[i].whole /\ calls[j].whole

(* When two updates name the same boards for a user, each board once, the one whose first
   command was sent first overwrites no score of the other: their commands stay in step.
   That ends when a command is rejected (whole is FALSE): the update that lost the writing
   of a name goes on one command sooner than the one that lost the writing of a score, and
   passes it. *)
LaterScoreStands ==
  [][\A b \in Boards, u \in Users :
       LET was == writer[b][u]  is == writer'[b][u] IN
       was # 0 /\ is # was /\ Alike(was, is) => ~Earlier(is, was)]_vars

(* A rank that was read from a board that has not changed since agrees with the players
   shown around it: they are those within Surrounding places of the user, in order,
   and the user is among them with the same score. *)
RankAmongNeighbours ==
  \A i \in DOMAIN calls :
    LET c == calls[i] IN
    c.op = "rank" /\ c.pc = "done" /\ c.steady =>
      LET all == Ranked(c.board) IN
      /\ all[c.place] = c.user /\ score[c.board][c.user] = c.score
      /\ {r.user : r \in ToSet(c.rows)} =
           {all[k] : k \in {k \in DOMAIN all : k - c.place \in -Surrounding .. Surrounding}}
      /\ c.rows[c.place - StartRank(c)] = [user |-> c.user, score |-> c.score]

=============================================================================
