------------------------------ MODULE Listings ------------------------------
(***************************************************************************)
(* The paged lists: a client walks the pages of one list, from the first   *)
(* to the last the answers speak of, while rows come and go.               *)
(*                                                                         *)
(* Every listing use case reads the number of rows that match its filter   *)
(* and the rows of one page by two queries of their own, without a common  *)
(* transaction: findAndCountAll sends both at once, the team listings read *)
(* the rows and count them afterwards, and the participants of a           *)
(* tournament are all read at once and cut into pages in memory.  A query  *)
(* is one step.  Which rows match, and what they are sorted by, is data:   *)
(* a row has a sort key and is present or not.                             *)
(***************************************************************************)
EXTENDS Integers, Sequences, FiniteSets, SequencesExt

CONSTANTS
  Rows,          \* rows of the table
  Keys,          \* values of the column the list is sorted by
  MaxLimit,      \* the largest page the listings allow (100 in the code)
  DefaultLimit,  \* the page size when none is asked for (10 in the code)
  MaxChanges     \* bound: rows that appear or disappear during a walk

ConstantsFit ==
  /\ IsFiniteSet(Rows) /\ Keys \subseteq Int
  /\ MaxLimit \in Nat \ {0} /\ DefaultLimit \in 1 .. MaxLimit

VARIABLES
  kind,     \* the listing the client walks
  key,      \* external: the sort key of each row
  present,  \* external: the rows that match the filter
  request,  \* the client's request: page, limit, and what its queries have found
  seen,     \* how often the client was given each row
  added, removed,  \* history: rows that appeared and disappeared
  torn      \* history: some answer had its count from before a row appeared and its page from after

vars == <<kind, key, present, request, seen, added, removed, torn>>

Together  == {"tournaments", "withdrawals", "disputes", "users", "history"}
RowsFirst == {"teams", "members", "memberships"}
Unordered == {"members", "memberships"}
Kinds == Together \cup RowsFirst \cup {"participants"}

Unasked(page, limit) ==
  [pc |-> "idle", page |-> page, limit |-> limit, count |-> -1, read |-> FALSE, rows |-> <<>>, late |-> FALSE]

\* What the client may ask for: the validators admit it where the use case does not repair it.
Init ==
  /\ kind \in Kinds
  /\ key \in [Rows -> Keys]
  /\ present \in SUBSET Rows
  /\ \/ kind \in Together \ {"history"}
        /\ \E page \in 0 .. 1, limit \in 0 .. MaxLimit + 1 : request = Unasked(page, limit)
     \/ kind \notin Together \ {"history"}
        /\ \E limit \in 1 .. MaxLimit : request = Unasked(1, limit)
  /\ seen = [r \in Rows |-> 0]
  /\ added = {} /\ removed = {} /\ torn = FALSE

-----------------------------------------------------------------------------
(* The use cases: what they make of the page and the limit they are asked for *)

Larger(m, n) == IF m > n THEN m ELSE n
Smaller(m, n) == IF m < n THEN m ELSE n

Ask(listing, page, limit) ==
  /\ kind = listing
  /\ request.pc = "idle"
  /\ request' = [Unasked(page, limit) EXCEPT !.pc = "asked"]
  /\ UNCHANGED <<kind, key, present, seen, added, removed, torn>>

SanePage == Larger(1, request.page)
SaneLimit == IF request.limit = 0 THEN DefaultLimit ELSE Smaller(request.limit, MaxLimit)

ListTournaments == Ask("tournaments", SanePage, Smaller(Larger(1, request.limit), MaxLimit))
ListWithdrawals == Ask("withdrawals", SanePage, SaneLimit)
ListDisputes == Ask("disputes", SanePage, SaneLimit)
ListUsers == Ask("users", SanePage, SaneLimit)
GetTransactionHistory == Ask("history", request.page, request.limit)
GetAllTeams == Ask("teams", request.page, request.limit)
GetTeamMembers == Ask("members", request.page, request.limit)
GetUserTeams == Ask("memberships", request.page, request.limit)
ListTournamentParticipants == Ask("participants", request.page, request.limit)

-----------------------------------------------------------------------------
(* The repositories: the pages a query may return *)

(* PostgreSQL arranges rows of equal keys as it likes, and all rows when the query
   names no order. *)
AnyOrder == SetToSeqs(present)
ByKey == {s \in AnyOrder : \A i, j \in 1 .. Len(s) : i <= j => key[s[i]] <= key[s[j]]}

\* mutant: the page begins with the last row of the one before
PageOverlapping(s) ==
  LET from == Larger(0, (request.page - 1) * request.limit - 1)
  IN  SubSeq(s, from + 1, Smaller(from + request.limit, Len(s)))

\* limit and offset
PageOf(s) ==
  LET offset == (request.page - 1) * request.limit
  IN  SubSeq(s, offset + 1, Smaller(offset + request.limit, Len(s)))

FindTournaments == {PageOf(s) : s \in ByKey}
FindTransactions == {PageOf(s) : s \in ByKey}
FindWalletTransactions == {PageOf(s) : s \in ByKey}
FindDisputes == {PageOf(s) : s \in ByKey}
FindUsers == {PageOf(s) : s \in ByKey}
FindTeams == {PageOf(s) : s \in ByKey}
FindTeamMembers == {PageOf(s) : s \in AnyOrder}
FindUserTeams == {PageOf(s) : s \in AnyOrder}
FindParticipants == {PageOf(s) : s \in ByKey}

Found ==
  CASE kind = "tournaments" -> FindTournaments
    [] kind = "withdrawals" -> FindTransactions
    [] kind = "history" -> FindWalletTransactions
    [] kind = "disputes" -> FindDisputes
    [] kind = "users" -> FindUsers
    [] kind = "teams" -> FindTeams
    [] kind = "members" -> FindTeamMembers
    [] kind = "memberships" -> FindUserTeams
    [] kind = "participants" -> FindParticipants

Open == request.pc = "asked"

CountRows ==
  /\ Open /\ request.count = -1
  /\ kind \in Together \/ (kind \in RowsFirst /\ request.read)
  /\ request' = [request EXCEPT !.count = Cardinality(present)]
  /\ UNCHANGED <<kind, key, present, seen, added, removed, torn>>

ReadRows ==
  /\ Open /\ ~request.read /\ kind # "participants"
  /\ \E rows \in Found : request' = [request EXCEPT !.rows = rows, !.read = TRUE]
  /\ UNCHANGED <<kind, key, present, seen, added, removed, torn>>

ReadParticipants ==
  /\ Open /\ ~request.read /\ kind = "participants"
  /\ \E rows \in Found :
       request' = [request EXCEPT !.rows = rows, !.read = TRUE, !.count = Cardinality(present)]
  /\ UNCHANGED <<kind, key, present, seen, added, removed, torn>>

\* A query fails, the use case throws, and the client asks for the page again.
QueryFails ==
  /\ Open
  /\ request' = Unasked(request.page, request.limit)
  /\ UNCHANGED <<kind, key, present, seen, added, removed, torn>>

-----------------------------------------------------------------------------
(* The answer, and the client's next request *)

\* mutant: the last, incomplete page is not counted
WholePages(total, limit) == total \div limit

TotalPages(total, limit) == (total + limit - 1) \div limit

Answer ==
  LET pages == TotalPages(request.count, request.limit) IN
  /\ Open /\ request.count >= 0 /\ request.read
  /\ seen' = [r \in Rows |-> IF r \in ToSet(request.rows) THEN seen[r] + 1 ELSE seen[r]]
  /\ torn' = (torn \/ request.late)
  /\ request' = IF request.page < pages THEN Unasked(request.page + 1, request.limit)
                ELSE [request EXCEPT !.pc = "done"]
  /\ UNCHANGED <<kind, key, present, added, removed>>

-----------------------------------------------------------------------------
(* What other requests do to the table meanwhile *)

CountedOnly == Open /\ request.count >= 0 /\ ~request.read

Appear(r) ==
  /\ r \notin present \cup added
  /\ Cardinality(added) + Cardinality(removed) < MaxChanges
  /\ present' = present \cup {r}
  /\ added' = added \cup {r}
  /\ request' = [request EXCEPT !.late = @ \/ CountedOnly]
  /\ UNCHANGED <<kind, key, seen, removed, torn>>

Disappear(r) ==
  /\ r \in present \ removed
  /\ Cardinality(added) + Cardinality(removed) < MaxChanges
  /\ present' = present \ {r}
  /\ removed' = removed \cup {r}
  /\ UNCHANGED <<kind, key, request, seen, added, torn>>

Next ==
  \/ ListTournaments \/ ListWithdrawals \/ ListDisputes \/ ListUsers \/ GetTransactionHistory
  \/ GetAllTeams \/ GetTeamMembers \/ GetUserTeams \/ ListTournamentParticipants
  \/ CountRows \/ ReadRows \/ ReadParticipants \/ QueryFails \/ Answer
  \/ \E r \in Rows : Appear(r) \/ Disappear(r)

Spec == Init /\ [][Next]_vars

-----------------------------------------------------------------------------
Walked == request.pc = "done"
Ordered == kind \notin Unordered /\ \A q, r \in Rows : key[q] = key[r] => q = r

(* A walk skips no row that was there all along, although rows appeared before its
   place in the list, provided that no row disappeared, the order has no ties, and no
   answer had its count from before an appearance and its page from after it.  Each
   proviso is needed: the listing code guards against none of them. *)
AddingSkipsNothing ==
  Walked /\ Ordered /\ removed = {} /\ ~torn => \A r \in present \ added : seen[r] > 0

(* A walk during which no row appears is given no row twice, whatever disappears and
   however the count and the page of an answer differ. *)
RemovingRepeatsNothing == Ordered /\ added = {} => \A r \in Rows : seen[r] <= 1

=============================================================================
