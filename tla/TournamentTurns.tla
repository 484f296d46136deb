--------------------------- MODULE TournamentTurns ---------------------------
(***************************************************************************)
(* TournamentRegistration with a history of whether requests ever          *)
(* overlapped or failed: what holds only when they take turns is stated    *)
(* next to what holds always.                                              *)
(***************************************************************************)
EXTENDS TournamentRegistration

CONSTANT MaxEdits  \* bound: edits of the details

VARIABLES
  disturbed,  \* history: two requests were in progress at once, or one failed
  edits       \* edits of the details so far

EditBegins == \E h \in Handlers : handlers[h] = Idle /\ handlers'[h].pc = "write_details"

TurnsInit == Init /\ disturbed = FALSE /\ edits = 0

TurnsNext ==
  /\ Next
  /\ disturbed' = \/ disturbed
                  \/ failures' > 0
                  \/ Cardinality({h \in Handlers : handlers'[h] # Idle}) > 1
  /\ edits' = IF EditBegins THEN edits + 1 ELSE edits
  /\ edits' <= MaxEdits

TurnsSpec == TurnsInit /\ [][TurnsNext]_<<vars, disturbed, edits>>

(* Requests that take turns leave count, registrations and places in agreement, and
   take from every player the fees of his registrations.  (Two registrations that
   overlap may both take the last place, a failing one may keep its fee.) *)
BooksAgreeInTurns == disturbed \/ (CountMatches /\ NotOverbooked /\ FeesMatchEntries)

(* A tournament that is under way only ends, as long as requests take turns.  (An
   edit that read the row before the start and writes after it undoes the start.) *)
OngoingOnlyEndsInTurns ==
  [][disturbed' \/ (tournament.status = "ONGOING" =>
       tournament'.status \in {"ONGOING", "COMPLETED", "CANCELED"})]_vars

(* Nobody joins or leaves a tournament that is under way or over, as long as requests
   take turns.  (A registration that judged the status before the start and stores
   its row after it changes the line-up.) *)
LineUpIsFixedInTurns ==
  [][disturbed' \/ (tournament.status \in {"ONGOING", "COMPLETED", "CANCELED"} => entry' = entry)]_vars

=============================================================================
