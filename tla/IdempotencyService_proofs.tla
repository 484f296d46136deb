---------------------- MODULE IdempotencyService_proofs ----------------------
(***************************************************************************)
(* For any number of keys and requests, whatever fails or crashes: the     *)
(* service implements OncePerKey.                                          *)
(*                                                                         *)
(* The strengthening says who runs an operation, and what a record tells:  *)
(* a record that is pending belongs to one request that has not finished,  *)
(* or to nobody; one that is marked holds the response that took effect.   *)
(***************************************************************************)
EXTENDS IdempotencyService, TLAPS

\* r runs the operation of k, which it has taken in a transaction of the service
Runs(r, k) ==
  requests[r].key = k /\ requests[r].own /\ requests[r].pc \in {"execute", "mark"}

\* a request has a key exactly while it is in progress, and marks with a response
CallsKnown == \A r \in Requests :
  /\ requests[r].key = NoKey <=> requests[r].pc \in {"idle", "done"}
  /\ requests[r].pc = "mark" => requests[r].response \in Responses
  /\ requests[r].pc = "commit" => requests[r].own

\* what a record says of its operation
RecordsTrue == \A k \in Keys :
  /\ record[k] = Missing => executed[k] = {}
  /\ IsAnswered(record[k]) => executed[k] = {record[k].response}

\* a request runs the operation of a key alone, the key is pending, and it knows what took
\* effect
RunsAlone == \A r, s \in Requests, k \in Keys : Runs(r, k) /\ Runs(s, k) => r = s

RunsPendingOf(r, k) == Runs(r, k) =>
  /\ record[k] = Pending
  /\ requests[r].pc = "execute" => executed[k] = {}
  /\ requests[r].pc = "mark" => executed[k] = {requests[r].response}

RunsPending == \A r \in Requests, k \in Keys : RunsPendingOf(r, k)

\* what a transaction has inserted is not there yet
HeldIsMissing == \A r \in Requests, k \in Keys :
  HoldsRow(r, k) /\ requests[r].pc # "judge" => record[k] = Missing

\* a response once read stays the one that took effect
SeenIsTrueOf(r) ==
  requests[r].pc = "judge" /\ IsAnswered(requests[r].seen)
    => executed[requests[r].key] = {requests[r].seen.response}

SeenIsTrue == \A r \in Requests : SeenIsTrueOf(r)

KeysOK == CallsKnown /\ RecordsTrue /\ RunsAlone /\ RunsPending /\ HeldIsMissing /\ SeenIsTrue

IInv == TypeOK /\ KeysOK

-----------------------------------------------------------------------------
LEMMA RecordsAreTyped ==
  /\ Missing \in Records /\ Pending \in Records /\ Missing # Pending
  /\ ~IsAnswered(Missing) /\ ~IsAnswered(Pending)
  /\ \A s \in Responses : /\ Marked(s) \in Records
                          /\ IsAnswered(Marked(s))
                          /\ Marked(s).response = s
                          /\ Marked(s) # Missing /\ Marked(s) # Pending
  /\ \A d \in Records : IsAnswered(d) <=> d # Missing /\ d # Pending
  /\ \A d \in Records : IsAnswered(d) => d.response \in Responses
<1>1. \A s \in Responses : Marked(s).status \in {"COMPLETED", "FAILED"} /\ Marked(s).response = s
  BY DEF Record, Marked
<1>2. Missing.status = "MISSING" /\ Pending.status = "PENDING"
  BY DEF Record, Missing, Pending
<1>3. Records = {Missing, Pending} \union {Marked(s) : s \in Responses}
  BY DEF Records
<1>4. \A s \in Responses : Marked(s) \in Records
  BY <1>3
<1>5. \A d \in Records : d = Missing \/ d = Pending \/ \E s \in Responses : d = Marked(s)
  BY <1>3
<1> QED BY <1>1, <1>2, <1>3, <1>4, <1>5 DEF IsAnswered

LEMMA CallsAreTyped ==
  /\ Idle \in Calls /\ Done \in Calls
  /\ Idle.pc = "idle" /\ Done.pc = "done" /\ Idle.key = NoKey /\ Done.key = NoKey
BY RecordsAreTyped DEF Idle, Done, Call, Calls

THEOREM InitIsInductive == Init => IInv
BY RecordsAreTyped, CallsAreTyped, NullsAreNotValues
   DEF Init, IInv, TypeOK, HoldersKnown, HoldsRow, KeysOK, CallsKnown, RecordsTrue, RunsAlone, RunsPending,
       HeldIsMissing, SeenIsTrue, SeenIsTrueOf, RunsPendingOf, Runs

NewCall(r, c) ==
  /\ c \in Calls
  /\ requests' \in [Requests -> Calls]
  /\ requests'[r] = c
  /\ \A s \in Requests : s # r => requests'[s] = requests[s]

(* One request changes its local state. *)
LEMMA RequestStep ==
  ASSUME IInv, NEW r \in Requests, NEW c \in Calls,
         requests' = [requests EXCEPT ![r] = c]
  PROVE  NewCall(r, c)
BY DEF IInv, TypeOK, NewCall

\* a request in progress has a key
LEMMA HasKey ==
  ASSUME IInv, NEW r \in Requests, requests[r].pc \notin {"idle", "done"}
  PROVE  requests[r].key \in Keys /\ requests[r] \in Calls
BY NullsAreNotValues DEF IInv, TypeOK, KeysOK, CallsKnown, Calls

LEMMA OthersStay ==
  ASSUME NEW r \in Requests, NEW c, NewCall(r, c)
  PROVE  /\ \A s \in Requests, k \in Keys : s # r =>
              /\ Runs(s, k)' = Runs(s, k)
              /\ HoldsRow(s, k)' = HoldsRow(s, k)
         /\ \A k \in Keys : Runs(r, k)' <=> c.key = k /\ c.own /\ c.pc \in {"execute", "mark"}
         /\ \A k \in Keys : HoldsRow(r, k)' <=>
              /\ c.key = k
              /\ c.pc \in {"judge", "commit"} \/ (c.pc \in {"execute", "mark"} /\ ~c.own)
BY DEF NewCall, Runs, HoldsRow

-----------------------------------------------------------------------------
LEMMA ArriveIsInductive ==
  ASSUME IInv, NEW r \in Requests, NEW key \in Keys, NEW own \in BOOLEAN, Arrive(r, key, own)
  PROVE  IInv'
<1> DEFINE c == Call("find", key, own, Missing, NoResponse)
<1>1. c \in Calls /\ requests' = [requests EXCEPT ![r] = c]
  BY RecordsAreTyped, CallsAreTyped, HasKey DEF Arrive, Idle, Call, Calls, IInv, TypeOK
<1>2. NewCall(r, c)
  BY <1>1, RequestStep
<1>a. c = Call("find", key, own, Missing, NoResponse)
  OBVIOUS
<1>b. /\ \A s \in Requests, k \in Keys : s # r =>
           /\ Runs(s, k)' = Runs(s, k)
           /\ HoldsRow(s, k)' = HoldsRow(s, k)
      /\ \A k \in Keys : Runs(r, k)' <=> c.key = k /\ c.own /\ c.pc \in {"execute", "mark"}
      /\ \A k \in Keys : HoldsRow(r, k)' <=>
           /\ c.key = k
           /\ c.pc \in {"judge", "commit"} \/ (c.pc \in {"execute", "mark"} /\ ~c.own)
  BY <1>2, OthersStay
<1> HIDE DEF c
<1>3. TypeOK'
  <2>1. HoldersKnown'
    BY <1>a, <1>b, HasKey, NullsAreNotValues
       DEF Arrive, Idle, Call, IInv, TypeOK, HoldersKnown, HoldsRow, KeysOK, CallsKnown
  <2>2. requests' \in [Requests -> Calls]
    BY <1>2 DEF NewCall
  <2> QED BY <2>1, <2>2, HasKey, RecordsAreTyped DEF Arrive, Idle, Call, IInv, TypeOK, KeysOK, CallsKnown, Calls
<1>4. CallsKnown'
  BY <1>a, <1>2, HasKey, NullsAreNotValues DEF Arrive, Idle, Call, NewCall, IInv, KeysOK, CallsKnown, Done
<1>5. RecordsTrue'
  BY HasKey, RecordsAreTyped
     DEF Arrive, Idle, Call, IInv, TypeOK, KeysOK, CallsKnown, RecordsTrue, RunsPending, RunsPendingOf, Runs, HeldIsMissing, HoldsRow
<1>6. RunsAlone'
  <2>1. \A k \in Keys : Runs(r, k)' => Runs(r, k)
    BY <1>a, <1>b DEF Arrive, Idle, Call, Runs
  <2> QED BY <2>1, <1>b DEF IInv, KeysOK, RunsAlone
<1>7. RunsPending'
  <2>1. \A s \in Requests, k \in Keys : s # r /\ Runs(s, k) =>
          record'[k] = record[k] /\ executed'[k] = executed[k]
    BY HasKey, RecordsAreTyped
       DEF Arrive, Idle, Call, IInv, TypeOK, KeysOK, RecordsTrue, RunsPending, RunsPendingOf, RunsAlone, Runs, HeldIsMissing, HoldsRow
  <2>2. \A s \in Requests, k \in Keys : s # r => RunsPendingOf(s, k)'
    BY <2>1, <1>b, <1>2 DEF IInv, KeysOK, RunsPending, RunsPendingOf, NewCall
  <2>3. \A k \in Keys : RunsPendingOf(r, k)'
    BY <1>a, <1>b, <1>2, HasKey, RecordsAreTyped
       DEF Arrive, Idle, Call, NewCall, IInv, TypeOK, KeysOK, RecordsTrue, RunsPending, RunsPendingOf, Runs, HeldIsMissing, HoldsRow
  <2> QED BY <2>2, <2>3 DEF RunsPending
<1>8. HeldIsMissing'
  BY <1>a, <1>b, <1>2, HasKey, RecordsAreTyped
     DEF Arrive, Idle, Call, NewCall, IInv, TypeOK, HoldersKnown, KeysOK, RunsPending, RunsPendingOf, Runs, HeldIsMissing, HoldsRow, Done
<1>9. SeenIsTrue'
  <2>1. \A k \in Keys : executed[k] # {} => executed'[k] = executed[k]
    BY HasKey, RecordsAreTyped
       DEF Arrive, Idle, Call, IInv, TypeOK, KeysOK, RecordsTrue, RunsPending, RunsPendingOf, Runs, HeldIsMissing, HoldsRow
  <2>2. \A s \in Requests : s # r => SeenIsTrueOf(s)'
    BY <2>1, <1>2, HasKey DEF IInv, KeysOK, SeenIsTrue, SeenIsTrueOf, NewCall
  <2>3. SeenIsTrueOf(r)'
    BY <1>a, <1>2, HasKey DEF Arrive, Idle, Call, NewCall, IInv, KeysOK, RecordsTrue, SeenIsTrueOf
  <2> QED BY <2>2, <2>3 DEF SeenIsTrue
<1> QED BY <1>3, <1>4, <1>5, <1>6, <1>7, <1>8, <1>9 DEF IInv, KeysOK

LEMMA FindIsInductive ==
  ASSUME IInv, NEW r \in Requests, Find(r)
  PROVE  IInv'
<1> DEFINE c == IF record[requests[r].key] = Missing
       THEN Call("insert", requests[r].key, requests[r].own, requests[r].seen, requests[r].response)
       ELSE Call("judge", requests[r].key, requests[r].own, record[requests[r].key], requests[r].response)
<1>1. c \in Calls /\ requests' = [requests EXCEPT ![r] = c]
  BY RecordsAreTyped, CallsAreTyped, HasKey DEF Find, Goto, Saw, Free, Hold, Call, Calls, IInv, TypeOK
<1>2. NewCall(r, c)
  BY <1>1, RequestStep
<1>a. c = IF record[requests[r].key] = Missing
       THEN Call("insert", requests[r].key, requests[r].own, requests[r].seen, requests[r].response)
       ELSE Call("judge", requests[r].key, requests[r].own, record[requests[r].key], requests[r].response)
  OBVIOUS
<1>b. /\ \A s \in Requests, k \in Keys : s # r =>
           /\ Runs(s, k)' = Runs(s, k)
           /\ HoldsRow(s, k)' = HoldsRow(s, k)
      /\ \A k \in Keys : Runs(r, k)' <=> c.key = k /\ c.own /\ c.pc \in {"execute", "mark"}
      /\ \A k \in Keys : HoldsRow(r, k)' <=>
           /\ c.key = k
           /\ c.pc \in {"judge", "commit"} \/ (c.pc \in {"execute", "mark"} /\ ~c.own)
  BY <1>2, OthersStay
<1> HIDE DEF c
<1>3. TypeOK'
  <2>1. HoldersKnown'
    BY <1>a, <1>b, HasKey, NullsAreNotValues
       DEF Find, Goto, Saw, Free, Hold, Call, IInv, TypeOK, HoldersKnown, HoldsRow, KeysOK, CallsKnown
  <2>2. requests' \in [Requests -> Calls]
    BY <1>2 DEF NewCall
  <2> QED BY <2>1, <2>2, HasKey, RecordsAreTyped DEF Find, Goto, Saw, Free, Hold, Call, IInv, TypeOK, KeysOK, CallsKnown, Calls
<1>4. CallsKnown'
  BY <1>a, <1>2, HasKey, NullsAreNotValues DEF Find, Goto, Saw, Free, Hold, Call, NewCall, IInv, KeysOK, CallsKnown, Done
<1>5. RecordsTrue'
  BY HasKey, RecordsAreTyped
     DEF Find, Goto, Saw, Free, Hold, Call, IInv, TypeOK, KeysOK, CallsKnown, RecordsTrue, RunsPending, RunsPendingOf, Runs, HeldIsMissing, HoldsRow
<1>6. RunsAlone'
  <2>1. \A k \in Keys : Runs(r, k)' => Runs(r, k)
    BY <1>a, <1>b DEF Find, Goto, Saw, Free, Hold, Call, Runs
  <2> QED BY <2>1, <1>b DEF IInv, KeysOK, RunsAlone
<1>7. RunsPending'
  <2>1. \A s \in Requests, k \in Keys : s # r /\ Runs(s, k) =>
          record'[k] = record[k] /\ executed'[k] = executed[k]
    BY HasKey, RecordsAreTyped
       DEF Find, Goto, Saw, Free, Hold, Call, IInv, TypeOK, KeysOK, RecordsTrue, RunsPending, RunsPendingOf, RunsAlone, Runs, HeldIsMissing, HoldsRow
  <2>2. \A s \in Requests, k \in Keys : s # r => RunsPendingOf(s, k)'
    BY <2>1, <1>b, <1>2 DEF IInv, KeysOK, RunsPending, RunsPendingOf, NewCall
  <2>3. \A k \in Keys : RunsPendingOf(r, k)'
    BY <1>a, <1>b, <1>2, HasKey, RecordsAreTyped
       DEF Find, Goto, Saw, Free, Hold, Call, NewCall, IInv, TypeOK, KeysOK, RecordsTrue, RunsPending, RunsPendingOf, Runs, HeldIsMissing, HoldsRow
  <2> QED BY <2>2, <2>3 DEF RunsPending
<1>8. HeldIsMissing'
  BY <1>a, <1>b, <1>2, HasKey, RecordsAreTyped
     DEF Find, Goto, Saw, Free, Hold, Call, NewCall, IInv, TypeOK, HoldersKnown, KeysOK, RunsPending, RunsPendingOf, Runs, HeldIsMissing, HoldsRow, Done
<1>9. SeenIsTrue'
  <2>1. \A k \in Keys : executed[k] # {} => executed'[k] = executed[k]
    BY HasKey, RecordsAreTyped
       DEF Find, Goto, Saw, Free, Hold, Call, IInv, TypeOK, KeysOK, RecordsTrue, RunsPending, RunsPendingOf, Runs, HeldIsMissing, HoldsRow
  <2>2. \A s \in Requests : s # r => SeenIsTrueOf(s)'
    BY <2>1, <1>2, HasKey DEF IInv, KeysOK, SeenIsTrue, SeenIsTrueOf, NewCall
  <2>3. SeenIsTrueOf(r)'
    BY <1>a, <1>2, HasKey DEF Find, Goto, Saw, Free, Hold, Call, NewCall, IInv, KeysOK, RecordsTrue, SeenIsTrueOf
  <2> QED BY <2>2, <2>3 DEF SeenIsTrue
<1> QED BY <1>3, <1>4, <1>5, <1>6, <1>7, <1>8, <1>9 DEF IInv, KeysOK

LEMMA InsertIsInductive ==
  ASSUME IInv, NEW r \in Requests, Insert(r)
  PROVE  IInv'
<1> DEFINE c == IF record[requests[r].key] = Missing
       THEN Call(IF requests[r].own THEN "commit" ELSE "execute", requests[r].key, requests[r].own, Missing, requests[r].response)
       ELSE Call("find", requests[r].key, requests[r].own, requests[r].seen, requests[r].response)
<1>1. c \in Calls /\ requests' = [requests EXCEPT ![r] = c]
  BY RecordsAreTyped, CallsAreTyped, HasKey DEF Insert, Goto, Saw, Free, Hold, Call, Calls, IInv, TypeOK
<1>2. NewCall(r, c)
  BY <1>1, RequestStep
<1>a. c = IF record[requests[r].key] = Missing
       THEN Call(IF requests[r].own THEN "commit" ELSE "execute", requests[r].key, requests[r].own, Missing, requests[r].response)
       ELSE Call("find", requests[r].key, requests[r].own, requests[r].seen, requests[r].response)
  OBVIOUS
<1>b. /\ \A s \in Requests, k \in Keys : s # r =>
           /\ Runs(s, k)' = Runs(s, k)
           /\ HoldsRow(s, k)' = HoldsRow(s, k)
      /\ \A k \in Keys : Runs(r, k)' <=> c.key = k /\ c.own /\ c.pc \in {"execute", "mark"}
      /\ \A k \in Keys : HoldsRow(r, k)' <=>
           /\ c.key = k
           /\ c.pc \in {"judge", "commit"} \/ (c.pc \in {"execute", "mark"} /\ ~c.own)
  BY <1>2, OthersStay
<1> HIDE DEF c
<1>3. TypeOK'
  <2>1. HoldersKnown'
    BY <1>a, <1>b, HasKey, NullsAreNotValues
       DEF Insert, Goto, Saw, Free, Hold, Call, IInv, TypeOK, HoldersKnown, HoldsRow, KeysOK, CallsKnown
  <2>2. requests' \in [Requests -> Calls]
    BY <1>2 DEF NewCall
  <2> QED BY <2>1, <2>2, HasKey, RecordsAreTyped DEF Insert, Goto, Saw, Free, Hold, Call, IInv, TypeOK, KeysOK, CallsKnown, Calls
<1>4. CallsKnown'
  BY <1>a, <1>2, HasKey, NullsAreNotValues DEF Insert, Goto, Saw, Free, Hold, Call, NewCall, IInv, KeysOK, CallsKnown, Done
<1>5. RecordsTrue'
  BY HasKey, RecordsAreTyped
     DEF Insert, Goto, Saw, Free, Hold, Call, IInv, TypeOK, KeysOK, CallsKnown, RecordsTrue, RunsPending, RunsPendingOf, Runs, HeldIsMissing, HoldsRow
<1>6. RunsAlone'
  <2>1. \A k \in Keys : Runs(r, k)' => Runs(r, k)
    BY <1>a, <1>b DEF Insert, Goto, Saw, Free, Hold, Call, Runs
  <2> QED BY <2>1, <1>b DEF IInv, KeysOK, RunsAlone
<1>7. RunsPending'
  <2>1. \A s \in Requests, k \in Keys : s # r /\ Runs(s, k) =>
          record'[k] = record[k] /\ executed'[k] = executed[k]
    BY HasKey, RecordsAreTyped
       DEF Insert, Goto, Saw, Free, Hold, Call, IInv, TypeOK, KeysOK, RecordsTrue, RunsPending, RunsPendingOf, RunsAlone, Runs, HeldIsMissing, HoldsRow
  <2>2. \A s \in Requests, k \in Keys : s # r => RunsPendingOf(s, k)'
    BY <2>1, <1>b, <1>2 DEF IInv, KeysOK, RunsPending, RunsPendingOf, NewCall
  <2>3. \A k \in Keys : RunsPendingOf(r, k)'
    BY <1>a, <1>b, <1>2, HasKey, RecordsAreTyped
       DEF Insert, Goto, Saw, Free, Hold, Call, NewCall, IInv, TypeOK, KeysOK, RecordsTrue, RunsPending, RunsPendingOf, Runs, HeldIsMissing, HoldsRow
  <2> QED BY <2>2, <2>3 DEF RunsPending
<1>8. HeldIsMissing'
  BY <1>a, <1>b, <1>2, HasKey, RecordsAreTyped
     DEF Insert, Goto, Saw, Free, Hold, Call, NewCall, IInv, TypeOK, HoldersKnown, KeysOK, RunsPending, RunsPendingOf, Runs, HeldIsMissing, HoldsRow, Done
<1>9. SeenIsTrue'
  <2>1. \A k \in Keys : executed[k] # {} => executed'[k] = executed[k]
    BY HasKey, RecordsAreTyped
       DEF Insert, Goto, Saw, Free, Hold, Call, IInv, TypeOK, KeysOK, RecordsTrue, RunsPending, RunsPendingOf, Runs, HeldIsMissing, HoldsRow
  <2>2. \A s \in Requests : s # r => SeenIsTrueOf(s)'
    BY <2>1, <1>2, HasKey DEF IInv, KeysOK, SeenIsTrue, SeenIsTrueOf, NewCall
  <2>3. SeenIsTrueOf(r)'
    BY <1>a, <1>2, HasKey DEF Insert, Goto, Saw, Free, Hold, Call, NewCall, IInv, KeysOK, RecordsTrue, SeenIsTrueOf
  <2> QED BY <2>2, <2>3 DEF SeenIsTrue
<1> QED BY <1>3, <1>4, <1>5, <1>6, <1>7, <1>8, <1>9 DEF IInv, KeysOK

LEMMA CommitKeyIsInductive ==
  ASSUME IInv, NEW r \in Requests, CommitKey(r)
  PROVE  IInv'
<1> DEFINE c == Call("execute", requests[r].key, requests[r].own, requests[r].seen, requests[r].response)
<1>1. c \in Calls /\ requests' = [requests EXCEPT ![r] = c]
  BY RecordsAreTyped, CallsAreTyped, HasKey DEF CommitKey, Goto, Release, Call, Calls, IInv, TypeOK
<1>2. NewCall(r, c)
  BY <1>1, RequestStep
<1>a. c = Call("execute", requests[r].key, requests[r].own, requests[r].seen, requests[r].response)
  OBVIOUS
<1>b. /\ \A s \in Requests, k \in Keys : s # r =>
           /\ Runs(s, k)' = Runs(s, k)
           /\ HoldsRow(s, k)' = HoldsRow(s, k)
      /\ \A k \in Keys : Runs(r, k)' <=> c.key = k /\ c.own /\ c.pc \in {"execute", "mark"}
      /\ \A k \in Keys : HoldsRow(r, k)' <=>
           /\ c.key = k
           /\ c.pc \in {"judge", "commit"} \/ (c.pc \in {"execute", "mark"} /\ ~c.own)
  BY <1>2, OthersStay
<1> HIDE DEF c
<1>3. TypeOK'
  <2>1. HoldersKnown'
    BY <1>a, <1>b, HasKey, NullsAreNotValues
       DEF CommitKey, Goto, Release, Call, IInv, TypeOK, HoldersKnown, HoldsRow, KeysOK, CallsKnown
  <2>2. requests' \in [Requests -> Calls]
    BY <1>2 DEF NewCall
  <2> QED BY <2>1, <2>2, HasKey, RecordsAreTyped DEF CommitKey, Goto, Release, Call, IInv, TypeOK, KeysOK, CallsKnown, Calls
<1>4. CallsKnown'
  BY <1>a, <1>2, HasKey, NullsAreNotValues DEF CommitKey, Goto, Release, Call, NewCall, IInv, KeysOK, CallsKnown, Done
<1>5. RecordsTrue'
  BY HasKey, RecordsAreTyped
     DEF CommitKey, Goto, Release, Call, IInv, TypeOK, KeysOK, CallsKnown, RecordsTrue, RunsPending, RunsPendingOf, Runs, HeldIsMissing, HoldsRow
<1>6. RunsAlone'
  <2>1. \A s \in Requests : s # r => ~Runs(s, requests[r].key)
    BY HasKey, RecordsAreTyped DEF CommitKey, Goto, Release, Call, IInv, KeysOK, HeldIsMissing, HoldsRow, RunsPending, RunsPendingOf
  <2> QED BY <2>1, <1>a, <1>b DEF IInv, KeysOK, RunsAlone, Call
<1>7. RunsPending'
  <2>1. \A s \in Requests, k \in Keys : s # r /\ Runs(s, k) =>
          record'[k] = record[k] /\ executed'[k] = executed[k]
    BY HasKey, RecordsAreTyped
       DEF CommitKey, Goto, Release, Call, IInv, TypeOK, KeysOK, RecordsTrue, RunsPending, RunsPendingOf, RunsAlone, Runs, HeldIsMissing, HoldsRow
  <2>2. \A s \in Requests, k \in Keys : s # r => RunsPendingOf(s, k)'
    BY <2>1, <1>b, <1>2 DEF IInv, KeysOK, RunsPending, RunsPendingOf, NewCall
  <2>3. \A k \in Keys : RunsPendingOf(r, k)'
    BY <1>a, <1>b, <1>2, HasKey, RecordsAreTyped
       DEF CommitKey, Goto, Release, Call, NewCall, IInv, TypeOK, KeysOK, RecordsTrue, RunsPending, RunsPendingOf, Runs, HeldIsMissing, HoldsRow
  <2> QED BY <2>2, <2>3 DEF RunsPending
<1>8. HeldIsMissing'
  BY <1>a, <1>b, <1>2, HasKey, RecordsAreTyped
     DEF CommitKey, Goto, Release, Call, NewCall, IInv, TypeOK, HoldersKnown, KeysOK, CallsKnown, HeldIsMissing, HoldsRow
<1>9. SeenIsTrue'
  <2>1. \A k \in Keys : executed[k] # {} => executed'[k] = executed[k]
    BY HasKey, RecordsAreTyped
       DEF CommitKey, Goto, Release, Call, IInv, TypeOK, KeysOK, RecordsTrue, RunsPending, RunsPendingOf, Runs, HeldIsMissing, HoldsRow
  <2>2. \A s \in Requests : s # r => SeenIsTrueOf(s)'
    BY <2>1, <1>2, HasKey DEF IInv, KeysOK, SeenIsTrue, SeenIsTrueOf, NewCall
  <2>3. SeenIsTrueOf(r)'
    BY <1>a, <1>2, HasKey DEF CommitKey, Goto, Release, Call, NewCall, IInv, KeysOK, RecordsTrue, SeenIsTrueOf
  <2> QED BY <2>2, <2>3 DEF SeenIsTrue
<1> QED BY <1>3, <1>4, <1>5, <1>6, <1>7, <1>8, <1>9 DEF IInv, KeysOK

LEMMA CommitFailsIsInductive ==
  ASSUME IInv, NEW r \in Requests, CommitFails(r)
  PROVE  IInv'
<1> DEFINE c == Done
<1>1. c \in Calls /\ requests' = [requests EXCEPT ![r] = c]
  BY RecordsAreTyped, CallsAreTyped, HasKey DEF CommitFails, Finish, Release, Done, Call, Calls, IInv, TypeOK
<1>2. NewCall(r, c)
  BY <1>1, RequestStep
<1>a. c = Done
  OBVIOUS
<1>b. /\ \A s \in Requests, k \in Keys : s # r =>
           /\ Runs(s, k)' = Runs(s, k)
           /\ HoldsRow(s, k)' = HoldsRow(s, k)
      /\ \A k \in Keys : Runs(r, k)' <=> c.key = k /\ c.own /\ c.pc \in {"execute", "mark"}
      /\ \A k \in Keys : HoldsRow(r, k)' <=>
           /\ c.key = k
           /\ c.pc \in {"judge", "commit"} \/ (c.pc \in {"execute", "mark"} /\ ~c.own)
  BY <1>2, OthersStay
<1> HIDE DEF c
<1>3. TypeOK'
  <2>1. HoldersKnown'
    BY <1>a, <1>b, HasKey, NullsAreNotValues
       DEF CommitFails, Finish, Release, Done, Call, IInv, TypeOK, HoldersKnown, HoldsRow, KeysOK, CallsKnown
  <2>2. requests' \in [Requests -> Calls]
    BY <1>2 DEF NewCall
  <2> QED BY <2>1, <2>2, HasKey, RecordsAreTyped DEF CommitFails, Finish, Release, Done, Call, IInv, TypeOK, KeysOK, CallsKnown, Calls
<1>4. CallsKnown'
  BY <1>a, <1>2, HasKey, NullsAreNotValues DEF CommitFails, Finish, Release, Done, Call, NewCall, IInv, KeysOK, CallsKnown
<1>5. RecordsTrue'
  BY HasKey, RecordsAreTyped
     DEF CommitFails, Finish, Release, Done, Call, IInv, TypeOK, KeysOK, CallsKnown, RecordsTrue, RunsPending, RunsPendingOf, Runs, HeldIsMissing, HoldsRow
<1>6. RunsAlone'
  <2>1. \A k \in Keys : Runs(r, k)' => Runs(r, k)
    BY <1>a, <1>b DEF CommitFails, Finish, Release, Done, Call, Runs
  <2> QED BY <2>1, <1>b DEF IInv, KeysOK, RunsAlone
<1>7. RunsPending'
  <2>1. \A s \in Requests, k \in Keys : s # r /\ Runs(s, k) =>
          record'[k] = record[k] /\ executed'[k] = executed[k]
    BY HasKey, RecordsAreTyped
       DEF CommitFails, Finish, Release, Done, Call, IInv, TypeOK, KeysOK, RecordsTrue, RunsPending, RunsPendingOf, RunsAlone, Runs, HeldIsMissing, HoldsRow
  <2>2. \A s \in Requests, k \in Keys : s # r => RunsPendingOf(s, k)'
    BY <2>1, <1>b, <1>2 DEF IInv, KeysOK, RunsPending, RunsPendingOf, NewCall
  <2>3. \A k \in Keys : RunsPendingOf(r, k)'
    BY <1>a, <1>b, <1>2, HasKey, RecordsAreTyped
       DEF CommitFails, Finish, Release, Done, Call, NewCall, IInv, TypeOK, KeysOK, RecordsTrue, RunsPending, RunsPendingOf, Runs, HeldIsMissing, HoldsRow
  <2> QED BY <2>2, <2>3 DEF RunsPending
<1>8. HeldIsMissing'
  BY <1>a, <1>b, <1>2, HasKey, RecordsAreTyped
     DEF CommitFails, Finish, Release, Done, Call, NewCall, IInv, TypeOK, HoldersKnown, KeysOK, RunsPending, RunsPendingOf, Runs, HeldIsMissing, HoldsRow
<1>9. SeenIsTrue'
  <2>1. \A k \in Keys : executed[k] # {} => executed'[k] = executed[k]
    BY HasKey, RecordsAreTyped
       DEF CommitFails, Finish, Release, Done, Call, IInv, TypeOK, KeysOK, RecordsTrue, RunsPending, RunsPendingOf, Runs, HeldIsMissing, HoldsRow
  <2>2. \A s \in Requests : s # r => SeenIsTrueOf(s)'
    BY <2>1, <1>2, HasKey DEF IInv, KeysOK, SeenIsTrue, SeenIsTrueOf, NewCall
  <2>3. SeenIsTrueOf(r)'
    BY <1>a, <1>2, HasKey DEF CommitFails, Finish, Release, Done, Call, NewCall, IInv, KeysOK, RecordsTrue, SeenIsTrueOf
  <2> QED BY <2>2, <2>3 DEF SeenIsTrue
<1> QED BY <1>3, <1>4, <1>5, <1>6, <1>7, <1>8, <1>9 DEF IInv, KeysOK

LEMMA JudgeIsInductive ==
  ASSUME IInv, NEW r \in Requests, Judge(r)
  PROVE  IInv'
<1> DEFINE c == Done
<1>1. c \in Calls /\ requests' = [requests EXCEPT ![r] = c]
  BY RecordsAreTyped, CallsAreTyped, HasKey DEF Judge, Finish, Release, Done, Call, Calls, IInv, TypeOK
<1>2. NewCall(r, c)
  BY <1>1, RequestStep
<1>a. c = Done
  OBVIOUS
<1>b. /\ \A s \in Requests, k \in Keys : s # r =>
           /\ Runs(s, k)' = Runs(s, k)
           /\ HoldsRow(s, k)' = HoldsRow(s, k)
      /\ \A k \in Keys : Runs(r, k)' <=> c.key = k /\ c.own /\ c.pc \in {"execute", "mark"}
      /\ \A k \in Keys : HoldsRow(r, k)' <=>
           /\ c.key = k
           /\ c.pc \in {"judge", "commit"} \/ (c.pc \in {"execute", "mark"} /\ ~c.own)
  BY <1>2, OthersStay
<1> HIDE DEF c
<1>3. TypeOK'
  <2>1. HoldersKnown'
    BY <1>a, <1>b, HasKey, NullsAreNotValues
       DEF Judge, Finish, Release, Done, Call, IInv, TypeOK, HoldersKnown, HoldsRow, KeysOK, CallsKnown
  <2>2. requests' \in [Requests -> Calls]
    BY <1>2 DEF NewCall
  <2> QED BY <2>1, <2>2, HasKey, RecordsAreTyped DEF Judge, Finish, Release, Done, Call, IInv, TypeOK, KeysOK, CallsKnown, Calls
<1>4. CallsKnown'
  BY <1>a, <1>2, HasKey, NullsAreNotValues DEF Judge, Finish, Release, Done, Call, NewCall, IInv, KeysOK, CallsKnown
<1>5. RecordsTrue'
  BY HasKey, RecordsAreTyped
     DEF Judge, Finish, Release, Done, Call, IInv, TypeOK, KeysOK, CallsKnown, RecordsTrue, RunsPending, RunsPendingOf, Runs, HeldIsMissing, HoldsRow
<1>6. RunsAlone'
  <2>1. \A k \in Keys : Runs(r, k)' => Runs(r, k)
    BY <1>a, <1>b DEF Judge, Finish, Release, Done, Call, Runs
  <2> QED BY <2>1, <1>b DEF IInv, KeysOK, RunsAlone
<1>7. RunsPending'
  <2>1. \A s \in Requests, k \in Keys : s # r /\ Runs(s, k) =>
          record'[k] = record[k] /\ executed'[k] = executed[k]
    BY HasKey, RecordsAreTyped
       DEF Judge, Finish, Release, Done, Call, IInv, TypeOK, KeysOK, RecordsTrue, RunsPending, RunsPendingOf, RunsAlone, Runs, HeldIsMissing, HoldsRow
  <2>2. \A s \in Requests, k \in Keys : s # r => RunsPendingOf(s, k)'
    BY <2>1, <1>b, <1>2 DEF IInv, KeysOK, RunsPending, RunsPendingOf, NewCall
  <2>3. \A k \in Keys : RunsPendingOf(r, k)'
    BY <1>a, <1>b, <1>2, HasKey, RecordsAreTyped
       DEF Judge, Finish, Release, Done, Call, NewCall, IInv, TypeOK, KeysOK, RecordsTrue, RunsPending, RunsPendingOf, Runs, HeldIsMissing, HoldsRow
  <2> QED BY <2>2, <2>3 DEF RunsPending
<1>8. HeldIsMissing'
  BY <1>a, <1>b, <1>2, HasKey, RecordsAreTyped
     DEF Judge, Finish, Release, Done, Call, NewCall, IInv, TypeOK, HoldersKnown, KeysOK, RunsPending, RunsPendingOf, Runs, HeldIsMissing, HoldsRow
<1>9. SeenIsTrue'
  <2>1. \A k \in Keys : executed[k] # {} => executed'[k] = executed[k]
    BY HasKey, RecordsAreTyped
       DEF Judge, Finish, Release, Done, Call, IInv, TypeOK, KeysOK, RecordsTrue, RunsPending, RunsPendingOf, Runs, HeldIsMissing, HoldsRow
  <2>2. \A s \in Requests : s # r => SeenIsTrueOf(s)'
    BY <2>1, <1>2, HasKey DEF IInv, KeysOK, SeenIsTrue, SeenIsTrueOf, NewCall
  <2>3. SeenIsTrueOf(r)'
    BY <1>a, <1>2, HasKey DEF Judge, Finish, Release, Done, Call, NewCall, IInv, KeysOK, RecordsTrue, SeenIsTrueOf
  <2> QED BY <2>2, <2>3 DEF SeenIsTrue
<1> QED BY <1>3, <1>4, <1>5, <1>6, <1>7, <1>8, <1>9 DEF IInv, KeysOK

LEMMA ExecuteIsInductive ==
  ASSUME IInv, NEW r \in Requests, NEW outcome \in Outcomes, Execute(r, outcome)
  PROVE  IInv'
<1> DEFINE c == Call("mark", requests[r].key, requests[r].own, requests[r].seen, Response(r, outcome))
<1>1. c \in Calls /\ requests' = [requests EXCEPT ![r] = c]
  BY RecordsAreTyped, CallsAreTyped, HasKey DEF Execute, Call, Response, Responses, Calls, IInv, TypeOK
<1>2. NewCall(r, c)
  BY <1>1, RequestStep
<1>a. c = Call("mark", requests[r].key, requests[r].own, requests[r].seen, Response(r, outcome))
  OBVIOUS
<1>b. /\ \A s \in Requests, k \in Keys : s # r =>
           /\ Runs(s, k)' = Runs(s, k)
           /\ HoldsRow(s, k)' = HoldsRow(s, k)
      /\ \A k \in Keys : Runs(r, k)' <=> c.key = k /\ c.own /\ c.pc \in {"execute", "mark"}
      /\ \A k \in Keys : HoldsRow(r, k)' <=>
           /\ c.key = k
           /\ c.pc \in {"judge", "commit"} \/ (c.pc \in {"execute", "mark"} /\ ~c.own)
  BY <1>2, OthersStay
<1> HIDE DEF c
<1>3. TypeOK'
  <2>1. HoldersKnown'
    BY <1>a, <1>b, HasKey, NullsAreNotValues
       DEF Execute, Call, Response, Responses, IInv, TypeOK, HoldersKnown, HoldsRow, KeysOK, CallsKnown
  <2>2. requests' \in [Requests -> Calls]
    BY <1>2 DEF NewCall
  <2> QED BY <2>1, <2>2, HasKey, RecordsAreTyped DEF Execute, Call, Response, Responses, IInv, TypeOK, KeysOK, CallsKnown, Calls
<1>4. CallsKnown'
  BY <1>a, <1>2, HasKey, NullsAreNotValues DEF Execute, Call, Response, Responses, NewCall, IInv, KeysOK, CallsKnown, Done
<1>5. RecordsTrue'
  BY HasKey, RecordsAreTyped
     DEF Execute, Call, Response, Responses, IInv, TypeOK, KeysOK, CallsKnown, RecordsTrue, RunsPending, RunsPendingOf, Runs, HeldIsMissing, HoldsRow
<1>6. RunsAlone'
  <2>1. \A k \in Keys : Runs(r, k)' => Runs(r, k)
    BY <1>a, <1>b DEF Execute, Call, Response, Responses, Runs
  <2> QED BY <2>1, <1>b DEF IInv, KeysOK, RunsAlone
<1>7. RunsPending'
  <2>1. \A s \in Requests, k \in Keys : s # r /\ Runs(s, k) =>
          record'[k] = record[k] /\ executed'[k] = executed[k]
    BY HasKey, RecordsAreTyped
       DEF Execute, Call, Response, Responses, IInv, TypeOK, KeysOK, RecordsTrue, RunsPending, RunsPendingOf, RunsAlone, Runs, HeldIsMissing, HoldsRow
  <2>2. \A s \in Requests, k \in Keys : s # r => RunsPendingOf(s, k)'
    BY <2>1, <1>b, <1>2 DEF IInv, KeysOK, RunsPending, RunsPendingOf, NewCall
  <2>3. c.key = requests[r].key /\ c.own = requests[r].own /\ c.pc = "mark"
        /\ c.response = Response(r, outcome)
    BY <1>a DEF Call
  <2>4. requests[r].own => executed[requests[r].key] = {} /\ record[requests[r].key] = Pending
    BY HasKey DEF Execute, IInv, KeysOK, RunsPending, RunsPendingOf, Runs
  <2>5. requests[r].own => executed'[requests[r].key] = {Response(r, outcome)}
    BY <2>4, HasKey DEF Execute, IInv, TypeOK
  <2>6. \A k \in Keys : RunsPendingOf(r, k)'
    BY <2>3, <2>4, <2>5, <1>b, <1>2 DEF Execute, RunsPendingOf, NewCall
  <2> QED BY <2>2, <2>6 DEF RunsPending
<1>8. HeldIsMissing'
  BY <1>a, <1>b, <1>2, HasKey, RecordsAreTyped
     DEF Execute, Call, Response, Responses, NewCall, IInv, TypeOK, HoldersKnown, KeysOK, RunsPending, RunsPendingOf, Runs, HeldIsMissing, HoldsRow, Done
<1>9. SeenIsTrue'
  <2>1. \A k \in Keys : executed[k] # {} => executed'[k] = executed[k]
    BY HasKey, RecordsAreTyped
       DEF Execute, Call, Response, Responses, IInv, TypeOK, KeysOK, RecordsTrue, RunsPending, RunsPendingOf, Runs, HeldIsMissing, HoldsRow
  <2>2. \A s \in Requests : s # r => SeenIsTrueOf(s)'
    BY <2>1, <1>2, HasKey DEF IInv, KeysOK, SeenIsTrue, SeenIsTrueOf, NewCall
  <2>3. SeenIsTrueOf(r)'
    BY <1>a, <1>2, HasKey DEF Execute, Call, Response, Responses, NewCall, IInv, KeysOK, RecordsTrue, SeenIsTrueOf
  <2> QED BY <2>2, <2>3 DEF SeenIsTrue
<1> QED BY <1>3, <1>4, <1>5, <1>6, <1>7, <1>8, <1>9 DEF IInv, KeysOK

LEMMA MarkIsInductive ==
  ASSUME IInv, NEW r \in Requests, Mark(r)
  PROVE  IInv'
<1> DEFINE c == Done
<1>1. c \in Calls /\ requests' = [requests EXCEPT ![r] = c]
  BY RecordsAreTyped, CallsAreTyped, HasKey DEF Mark, Finish, Free, Done, Call, Calls, IInv, TypeOK
<1>2. NewCall(r, c)
  BY <1>1, RequestStep
<1>a. c = Done
  OBVIOUS
<1>b. /\ \A s \in Requests, k \in Keys : s # r =>
           /\ Runs(s, k)' = Runs(s, k)
           /\ HoldsRow(s, k)' = HoldsRow(s, k)
      /\ \A k \in Keys : Runs(r, k)' <=> c.key = k /\ c.own /\ c.pc \in {"execute", "mark"}
      /\ \A k \in Keys : HoldsRow(r, k)' <=>
           /\ c.key = k
           /\ c.pc \in {"judge", "commit"} \/ (c.pc \in {"execute", "mark"} /\ ~c.own)
  BY <1>2, OthersStay
<1> HIDE DEF c
<1>3. TypeOK'
  <2>1. HoldersKnown'
    BY <1>a, <1>b, HasKey, NullsAreNotValues
       DEF Mark, Finish, Free, Done, Call, IInv, TypeOK, HoldersKnown, HoldsRow, KeysOK, CallsKnown
  <2>2. requests' \in [Requests -> Calls]
    BY <1>2 DEF NewCall
  <2> QED BY <2>1, <2>2, HasKey, RecordsAreTyped DEF Mark, Finish, Free, Done, Call, IInv, TypeOK, KeysOK, CallsKnown, Calls
<1>4. CallsKnown'
  BY <1>a, <1>2, HasKey, NullsAreNotValues DEF Mark, Finish, Free, Done, Call, NewCall, IInv, KeysOK, CallsKnown
<1>5. RecordsTrue'
  <2>1. executed[requests[r].key] = {requests[r].response} /\ requests[r].response \in Responses
    BY HasKey DEF Mark, IInv, KeysOK, CallsKnown, RunsPending, RunsPendingOf, Runs
  <2>2. \A k \in Keys : record'[k] = IF k = requests[r].key THEN Marked(requests[r].response)
                                                       ELSE record[k]
    BY HasKey DEF Mark, IInv, TypeOK
  <2> QED BY <2>1, <2>2, RecordsAreTyped DEF Mark, IInv, KeysOK, RecordsTrue
<1>6. RunsAlone'
  <2>1. \A k \in Keys : Runs(r, k)' => Runs(r, k)
    BY <1>a, <1>b DEF Mark, Finish, Free, Done, Call, Runs
  <2> QED BY <2>1, <1>b DEF IInv, KeysOK, RunsAlone
<1>7. RunsPending'
  <2>1. \A s \in Requests, k \in Keys : s # r /\ Runs(s, k) =>
          record'[k] = record[k] /\ executed'[k] = executed[k]
    BY HasKey, RecordsAreTyped
       DEF Mark, Finish, Free, Done, Call, IInv, TypeOK, KeysOK, RecordsTrue, RunsPending, RunsPendingOf, RunsAlone, Runs, HeldIsMissing, HoldsRow
  <2>2. \A s \in Requests, k \in Keys : s # r => RunsPendingOf(s, k)'
    BY <2>1, <1>b, <1>2 DEF IInv, KeysOK, RunsPending, RunsPendingOf, NewCall
  <2>3. \A k \in Keys : RunsPendingOf(r, k)'
    BY <1>a, <1>b, <1>2, HasKey, RecordsAreTyped
       DEF Mark, Finish, Free, Done, Call, NewCall, IInv, TypeOK, KeysOK, RecordsTrue, RunsPending, RunsPendingOf, Runs, HeldIsMissing, HoldsRow
  <2> QED BY <2>2, <2>3 DEF RunsPending
<1>8. HeldIsMissing'
  BY <1>a, <1>b, <1>2, HasKey, RecordsAreTyped
     DEF Mark, Finish, Free, Done, Call, NewCall, IInv, TypeOK, HoldersKnown, KeysOK, RunsPending, RunsPendingOf, Runs, HeldIsMissing, HoldsRow
<1>9. SeenIsTrue'
  <2>1. \A k \in Keys : executed[k] # {} => executed'[k] = executed[k]
    BY HasKey, RecordsAreTyped
       DEF Mark, Finish, Free, Done, Call, IInv, TypeOK, KeysOK, RecordsTrue, RunsPending, RunsPendingOf, Runs, HeldIsMissing, HoldsRow
  <2>2. \A s \in Requests : s # r => SeenIsTrueOf(s)'
    BY <2>1, <1>2, HasKey DEF IInv, KeysOK, SeenIsTrue, SeenIsTrueOf, NewCall
  <2>3. SeenIsTrueOf(r)'
    BY <1>a, <1>2, HasKey DEF Mark, Finish, Free, Done, Call, NewCall, IInv, KeysOK, RecordsTrue, SeenIsTrueOf
  <2> QED BY <2>2, <2>3 DEF SeenIsTrue
<1> QED BY <1>3, <1>4, <1>5, <1>6, <1>7, <1>8, <1>9 DEF IInv, KeysOK

LEMMA MarkFailsIsInductive ==
  ASSUME IInv, NEW r \in Requests, MarkFails(r)
  PROVE  IInv'
<1> DEFINE c == Done
<1>1. c \in Calls /\ requests' = [requests EXCEPT ![r] = c]
  BY RecordsAreTyped, CallsAreTyped, HasKey DEF MarkFails, Finish, Done, Call, Calls, IInv, TypeOK
<1>2. NewCall(r, c)
  BY <1>1, RequestStep
<1>a. c = Done
  OBVIOUS
<1>b. /\ \A s \in Requests, k \in Keys : s # r =>
           /\ Runs(s, k)' = Runs(s, k)
           /\ HoldsRow(s, k)' = HoldsRow(s, k)
      /\ \A k \in Keys : Runs(r, k)' <=> c.key = k /\ c.own /\ c.pc \in {"execute", "mark"}
      /\ \A k \in Keys : HoldsRow(r, k)' <=>
           /\ c.key = k
           /\ c.pc \in {"judge", "commit"} \/ (c.pc \in {"execute", "mark"} /\ ~c.own)
  BY <1>2, OthersStay
<1> HIDE DEF c
<1>3. TypeOK'
  <2>1. HoldersKnown'
    BY <1>a, <1>b, HasKey, NullsAreNotValues
       DEF MarkFails, Finish, Done, Call, IInv, TypeOK, HoldersKnown, HoldsRow, KeysOK, CallsKnown
  <2>2. requests' \in [Requests -> Calls]
    BY <1>2 DEF NewCall
  <2> QED BY <2>1, <2>2, HasKey, RecordsAreTyped DEF MarkFails, Finish, Done, Call, IInv, TypeOK, KeysOK, CallsKnown, Calls
<1>4. CallsKnown'
  BY <1>a, <1>2, HasKey, NullsAreNotValues DEF MarkFails, Finish, Done, Call, NewCall, IInv, KeysOK, CallsKnown
<1>5. RecordsTrue'
  BY HasKey, RecordsAreTyped
     DEF MarkFails, Finish, Done, Call, IInv, TypeOK, KeysOK, CallsKnown, RecordsTrue, RunsPending, RunsPendingOf, Runs, HeldIsMissing, HoldsRow
<1>6. RunsAlone'
  <2>1. \A k \in Keys : Runs(r, k)' => Runs(r, k)
    BY <1>a, <1>b DEF MarkFails, Finish, Done, Call, Runs
  <2> QED BY <2>1, <1>b DEF IInv, KeysOK, RunsAlone
<1>7. RunsPending'
  <2>1. \A s \in Requests, k \in Keys : s # r /\ Runs(s, k) =>
          record'[k] = record[k] /\ executed'[k] = executed[k]
    BY HasKey, RecordsAreTyped
       DEF MarkFails, Finish, Done, Call, IInv, TypeOK, KeysOK, RecordsTrue, RunsPending, RunsPendingOf, RunsAlone, Runs, HeldIsMissing, HoldsRow
  <2>2. \A s \in Requests, k \in Keys : s # r => RunsPendingOf(s, k)'
    BY <2>1, <1>b, <1>2 DEF IInv, KeysOK, RunsPending, RunsPendingOf, NewCall
  <2>3. \A k \in Keys : RunsPendingOf(r, k)'
    BY <1>a, <1>b, <1>2, HasKey, RecordsAreTyped
       DEF MarkFails, Finish, Done, Call, NewCall, IInv, TypeOK, KeysOK, RecordsTrue, RunsPending, RunsPendingOf, Runs, HeldIsMissing, HoldsRow
  <2> QED BY <2>2, <2>3 DEF RunsPending
<1>8. HeldIsMissing'
  BY <1>a, <1>b, <1>2, HasKey, RecordsAreTyped
     DEF MarkFails, Finish, Done, Call, NewCall, IInv, TypeOK, HoldersKnown, KeysOK, RunsPending, RunsPendingOf, Runs, HeldIsMissing, HoldsRow
<1>9. SeenIsTrue'
  <2>1. \A k \in Keys : executed[k] # {} => executed'[k] = executed[k]
    BY HasKey, RecordsAreTyped
       DEF MarkFails, Finish, Done, Call, IInv, TypeOK, KeysOK, RecordsTrue, RunsPending, RunsPendingOf, Runs, HeldIsMissing, HoldsRow
  <2>2. \A s \in Requests : s # r => SeenIsTrueOf(s)'
    BY <2>1, <1>2, HasKey DEF IInv, KeysOK, SeenIsTrue, SeenIsTrueOf, NewCall
  <2>3. SeenIsTrueOf(r)'
    BY <1>a, <1>2, HasKey DEF MarkFails, Finish, Done, Call, NewCall, IInv, KeysOK, RecordsTrue, SeenIsTrueOf
  <2> QED BY <2>2, <2>3 DEF SeenIsTrue
<1> QED BY <1>3, <1>4, <1>5, <1>6, <1>7, <1>8, <1>9 DEF IInv, KeysOK

LEMMA MarkAndCommitIsInductive ==
  ASSUME IInv, NEW r \in Requests, MarkAndCommit(r)
  PROVE  IInv'
<1> DEFINE c == Done
<1>1. c \in Calls /\ requests' = [requests EXCEPT ![r] = c]
  BY RecordsAreTyped, CallsAreTyped, HasKey DEF MarkAndCommit, Finish, Release, Done, Call, Calls, IInv, TypeOK
<1>2. NewCall(r, c)
  BY <1>1, RequestStep
<1>a. c = Done
  OBVIOUS
<1>b. /\ \A s \in Requests, k \in Keys : s # r =>
           /\ Runs(s, k)' = Runs(s, k)
           /\ HoldsRow(s, k)' = HoldsRow(s, k)
      /\ \A k \in Keys : Runs(r, k)' <=> c.key = k /\ c.own /\ c.pc \in {"execute", "mark"}
      /\ \A k \in Keys : HoldsRow(r, k)' <=>
           /\ c.key = k
           /\ c.pc \in {"judge", "commit"} \/ (c.pc \in {"execute", "mark"} /\ ~c.own)
  BY <1>2, OthersStay
<1> HIDE DEF c
<1>3. TypeOK'
  <2>1. HoldersKnown'
    BY <1>a, <1>b, HasKey, NullsAreNotValues
       DEF MarkAndCommit, Finish, Release, Done, Call, IInv, TypeOK, HoldersKnown, HoldsRow, KeysOK, CallsKnown
  <2>2. requests' \in [Requests -> Calls]
    BY <1>2 DEF NewCall
  <2> QED BY <2>1, <2>2, HasKey, RecordsAreTyped DEF MarkAndCommit, Finish, Release, Done, Call, IInv, TypeOK, KeysOK, CallsKnown, Calls
<1>4. CallsKnown'
  BY <1>a, <1>2, HasKey, NullsAreNotValues DEF MarkAndCommit, Finish, Release, Done, Call, NewCall, IInv, KeysOK, CallsKnown
<1>5. RecordsTrue'
  BY HasKey, RecordsAreTyped
     DEF MarkAndCommit, Finish, Release, Done, Call, IInv, TypeOK, KeysOK, CallsKnown, RecordsTrue, RunsPending, RunsPendingOf, Runs, HeldIsMissing, HoldsRow
<1>6. RunsAlone'
  <2>1. \A k \in Keys : Runs(r, k)' => Runs(r, k)
    BY <1>a, <1>b DEF MarkAndCommit, Finish, Release, Done, Call, Runs
  <2> QED BY <2>1, <1>b DEF IInv, KeysOK, RunsAlone
<1>7. RunsPending'
  <2>1. \A s \in Requests, k \in Keys : s # r /\ Runs(s, k) =>
          record'[k] = record[k] /\ executed'[k] = executed[k]
    BY HasKey, RecordsAreTyped
       DEF MarkAndCommit, Finish, Release, Done, Call, IInv, TypeOK, KeysOK, RecordsTrue, RunsPending, RunsPendingOf, RunsAlone, Runs, HeldIsMissing, HoldsRow
  <2>2. \A s \in Requests, k \in Keys : s # r => RunsPendingOf(s, k)'
    BY <2>1, <1>b, <1>2 DEF IInv, KeysOK, RunsPending, RunsPendingOf, NewCall
  <2>3. \A k \in Keys : RunsPendingOf(r, k)'
    BY <1>a, <1>b, <1>2, HasKey, RecordsAreTyped
       DEF MarkAndCommit, Finish, Release, Done, Call, NewCall, IInv, TypeOK, KeysOK, RecordsTrue, RunsPending, RunsPendingOf, Runs, HeldIsMissing, HoldsRow
  <2> QED BY <2>2, <2>3 DEF RunsPending
<1>8. HeldIsMissing'
  BY <1>a, <1>b, <1>2, HasKey, RecordsAreTyped
     DEF MarkAndCommit, Finish, Release, Done, Call, NewCall, IInv, TypeOK, HoldersKnown, KeysOK, RunsPending, RunsPendingOf, Runs, HeldIsMissing, HoldsRow
<1>9. SeenIsTrue'
  <2>1. \A k \in Keys : executed[k] # {} => executed'[k] = executed[k]
    BY HasKey, RecordsAreTyped
       DEF MarkAndCommit, Finish, Release, Done, Call, IInv, TypeOK, KeysOK, RecordsTrue, RunsPending, RunsPendingOf, Runs, HeldIsMissing, HoldsRow
  <2>2. \A s \in Requests : s # r => SeenIsTrueOf(s)'
    BY <2>1, <1>2, HasKey DEF IInv, KeysOK, SeenIsTrue, SeenIsTrueOf, NewCall
  <2>3. SeenIsTrueOf(r)'
    BY <1>a, <1>2, HasKey DEF MarkAndCommit, Finish, Release, Done, Call, NewCall, IInv, KeysOK, RecordsTrue, SeenIsTrueOf
  <2> QED BY <2>2, <2>3 DEF SeenIsTrue
<1> QED BY <1>3, <1>4, <1>5, <1>6, <1>7, <1>8, <1>9 DEF IInv, KeysOK

LEMMA AbortIsInductive ==
  ASSUME IInv, NEW r \in Requests, Abort(r)
  PROVE  IInv'
<1> DEFINE c == Done
<1>1. c \in Calls /\ requests' = [requests EXCEPT ![r] = c]
  BY RecordsAreTyped, CallsAreTyped, HasKey DEF Abort, Finish, Done, Call, Calls, IInv, TypeOK
<1>2. NewCall(r, c)
  BY <1>1, RequestStep
<1>a. c = Done
  OBVIOUS
<1>b. /\ \A s \in Requests, k \in Keys : s # r =>
           /\ Runs(s, k)' = Runs(s, k)
           /\ HoldsRow(s, k)' = HoldsRow(s, k)
      /\ \A k \in Keys : Runs(r, k)' <=> c.key = k /\ c.own /\ c.pc \in {"execute", "mark"}
      /\ \A k \in Keys : HoldsRow(r, k)' <=>
           /\ c.key = k
           /\ c.pc \in {"judge", "commit"} \/ (c.pc \in {"execute", "mark"} /\ ~c.own)
  BY <1>2, OthersStay
<1> HIDE DEF c
<1>3. TypeOK'
  <2>1. HoldersKnown'
    BY <1>a, <1>b, HasKey, NullsAreNotValues
       DEF Abort, Finish, Done, Call, IInv, TypeOK, HoldersKnown, HoldsRow, KeysOK, CallsKnown
  <2>2. requests' \in [Requests -> Calls]
    BY <1>2 DEF NewCall
  <2> QED BY <2>1, <2>2, HasKey, RecordsAreTyped DEF Abort, Finish, Done, Call, IInv, TypeOK, KeysOK, CallsKnown, Calls
<1>4. CallsKnown'
  BY <1>a, <1>2, HasKey, NullsAreNotValues DEF Abort, Finish, Done, Call, NewCall, IInv, KeysOK, CallsKnown
<1>5. RecordsTrue'
  BY HasKey, RecordsAreTyped
     DEF Abort, Finish, Done, Call, IInv, TypeOK, KeysOK, CallsKnown, RecordsTrue, RunsPending, RunsPendingOf, Runs, HeldIsMissing, HoldsRow
<1>6. RunsAlone'
  <2>1. \A k \in Keys : Runs(r, k)' => Runs(r, k)
    BY <1>a, <1>b DEF Abort, Finish, Done, Call, Runs
  <2> QED BY <2>1, <1>b DEF IInv, KeysOK, RunsAlone
<1>7. RunsPending'
  <2>1. \A s \in Requests, k \in Keys : s # r /\ Runs(s, k) =>
          record'[k] = record[k] /\ executed'[k] = executed[k]
    BY HasKey, RecordsAreTyped
       DEF Abort, Finish, Done, Call, IInv, TypeOK, KeysOK, RecordsTrue, RunsPending, RunsPendingOf, RunsAlone, Runs, HeldIsMissing, HoldsRow
  <2>2. \A s \in Requests, k \in Keys : s # r => RunsPendingOf(s, k)'
    BY <2>1, <1>b, <1>2 DEF IInv, KeysOK, RunsPending, RunsPendingOf, NewCall
  <2>3. \A k \in Keys : RunsPendingOf(r, k)'
    BY <1>a, <1>b, <1>2, HasKey, RecordsAreTyped
       DEF Abort, Finish, Done, Call, NewCall, IInv, TypeOK, KeysOK, RecordsTrue, RunsPending, RunsPendingOf, Runs, HeldIsMissing, HoldsRow
  <2> QED BY <2>2, <2>3 DEF RunsPending
<1>8. HeldIsMissing'
  BY <1>a, <1>b, <1>2, HasKey, RecordsAreTyped
     DEF Abort, Finish, Done, Call, NewCall, IInv, TypeOK, HoldersKnown, KeysOK, RunsPending, RunsPendingOf, Runs, HeldIsMissing, HoldsRow
<1>9. SeenIsTrue'
  <2>1. \A k \in Keys : executed[k] # {} => executed'[k] = executed[k]
    BY HasKey, RecordsAreTyped
       DEF Abort, Finish, Done, Call, IInv, TypeOK, KeysOK, RecordsTrue, RunsPending, RunsPendingOf, Runs, HeldIsMissing, HoldsRow
  <2>2. \A s \in Requests : s # r => SeenIsTrueOf(s)'
    BY <2>1, <1>2, HasKey DEF IInv, KeysOK, SeenIsTrue, SeenIsTrueOf, NewCall
  <2>3. SeenIsTrueOf(r)'
    BY <1>a, <1>2, HasKey DEF Abort, Finish, Done, Call, NewCall, IInv, KeysOK, RecordsTrue, SeenIsTrueOf
  <2> QED BY <2>2, <2>3 DEF SeenIsTrue
<1> QED BY <1>3, <1>4, <1>5, <1>6, <1>7, <1>8, <1>9 DEF IInv, KeysOK

-----------------------------------------------------------------------------
LEMMA CrashIsInductive ==
  ASSUME IInv, Crash
  PROVE  IInv'
<1>1. /\ requests' \in [Requests -> Calls]
      /\ \A r \in Requests : requests'[r] = Idle \/ requests'[r] = Done
  BY CallsAreTyped DEF Crash, IInv, TypeOK
<1>2. \A r \in Requests, k \in Keys : ~HoldsRow(r, k)' /\ ~Runs(r, k)'
  BY <1>1 DEF HoldsRow, Runs, Idle, Done, Call
<1>3. HoldersKnown'
  BY <1>2, NullsAreNotValues DEF Crash, HoldersKnown
<1>4. lost' \subseteq Keys
  BY HasKey DEF Crash, IInv, TypeOK
<1>5. TypeOK'
  BY <1>1, <1>3, <1>4 DEF Crash, IInv, TypeOK
<1>6. CallsKnown' /\ SeenIsTrue'
  BY <1>1 DEF CallsKnown, SeenIsTrue, SeenIsTrueOf, Idle, Done, Call
<1>7. RecordsTrue'
  BY DEF Crash, IInv, KeysOK, RecordsTrue
<1>8. RunsAlone' /\ RunsPending' /\ HeldIsMissing'
  BY <1>2 DEF RunsAlone, RunsPending, RunsPendingOf, HeldIsMissing
<1> QED BY <1>5, <1>6, <1>7, <1>8 DEF IInv, KeysOK

LEMMA NextIsInductive == IInv /\ [Next]_vars => IInv'
<1> SUFFICES ASSUME IInv, [Next]_vars PROVE IInv'
  OBVIOUS
<1>1. CASE UNCHANGED vars
  <2>1. TypeOK'
    BY <1>1 DEF vars, IInv, TypeOK, HoldersKnown, HoldsRow
  <2>2. CallsKnown' /\ RecordsTrue' /\ SeenIsTrue'
    BY <1>1 DEF vars, IInv, KeysOK, CallsKnown, RecordsTrue, SeenIsTrue, SeenIsTrueOf
  <2>3. RunsAlone' /\ RunsPending'
    BY <1>1 DEF vars, IInv, KeysOK, RunsAlone, RunsPending, RunsPendingOf, Runs
  <2>4. HeldIsMissing'
    BY <1>1 DEF vars, IInv, KeysOK, HeldIsMissing, HoldsRow
  <2> QED BY <2>1, <2>2, <2>3, <2>4 DEF IInv, KeysOK
<1>2. ASSUME NEW r \in Requests, NEW key \in Keys, NEW own \in BOOLEAN, Arrive(r, key, own)
      PROVE  IInv'
  BY <1>2, ArriveIsInductive
<1>3. ASSUME NEW r \in Requests, Step(r) PROVE IInv'
  BY <1>3, FindIsInductive, InsertIsInductive, CommitKeyIsInductive, JudgeIsInductive,
     ExecuteIsInductive, MarkIsInductive, MarkAndCommitIsInductive DEF Step
<1>4. ASSUME NEW r \in Requests, CommitFails(r) \/ MarkFails(r) \/ Abort(r) PROVE IInv'
  BY <1>4, CommitFailsIsInductive, MarkFailsIsInductive, AbortIsInductive
<1>5. CASE Crash
  BY <1>5, CrashIsInductive
<1> QED BY <1>1, <1>2, <1>3, <1>4, <1>5 DEF Next

THEOREM IInvariant == Spec => []IInv
<1>1. Init => IInv
  BY InitIsInductive
<1>2. IInv /\ [Next]_vars => IInv'
  BY NextIsInductive
<1> QED BY <1>1, <1>2, PTL DEF Spec

(* The variables have their types, and a row is locked by exactly the request that is
   between its read or insert and its commit. *)
THEOREM TypeCorrect == Spec => []TypeOK
<1>1. IInv => TypeOK
  BY DEF IInv
<1> QED BY <1>1, IInvariant, PTL

-----------------------------------------------------------------------------
(* An operation takes effect where none has for its key, and what is handed out is what took
   effect. *)
LEMMA StepImplements ==
  ASSUME IInv, [Next]_vars
  PROVE  [Once!Next]_(Once!vars)
<1>1. ASSUME NEW r \in Requests, NEW outcome \in Outcomes, Execute(r, outcome)
      PROVE  [Once!Next]_(Once!vars)
  <2>1. CASE ~requests[r].own
    BY <1>1, <2>1 DEF Execute, Once!vars
  <2>2. CASE requests[r].own
    <3>1. requests[r].key \in Keys /\ executed[requests[r].key] = {}
      BY <1>1, <2>2, HasKey DEF Execute, IInv, KeysOK, RunsPending, RunsPendingOf, Runs
    <3>2. Response(r, outcome) \in Responses
      BY DEF Response, Responses
    <3>3. Once!Choose(requests[r].key, Response(r, outcome))
      BY <1>1, <2>2, <3>1 DEF Execute, Once!Choose
    <3> QED BY <3>1, <3>2, <3>3 DEF Once!Next
  <2> QED BY <2>1, <2>2
<1>2. ASSUME NEW r \in Requests, MarkAndCommit(r)
      PROVE  [Once!Next]_(Once!vars)
  <2>1. /\ requests[r].key \in Keys
        /\ requests[r].response \in Responses
        /\ executed[requests[r].key] = {}
    BY <1>2, HasKey DEF MarkAndCommit, IInv, KeysOK, CallsKnown, RecordsTrue, HeldIsMissing, HoldsRow
  <2>2. Once!Choose(requests[r].key, requests[r].response)
    BY <1>2, <2>1 DEF MarkAndCommit, Once!Choose
  <2> QED BY <2>1, <2>2 DEF Once!Next
<1>3. ASSUME NEW r \in Requests, Judge(r)
      PROVE  [Once!Next]_(Once!vars)
  <2>1. CASE ~IsAnswered(requests[r].seen)
    BY <1>3, <2>1 DEF Judge, Once!vars
  <2>2. CASE IsAnswered(requests[r].seen)
    <3>1. requests[r].key \in Keys /\ requests[r].seen.response \in Responses
      BY <1>3, <2>2, HasKey, RecordsAreTyped DEF Judge, Calls
    <3>2. executed[requests[r].key] = {requests[r].seen.response}
      BY <1>3, <2>2 DEF Judge, IInv, KeysOK, SeenIsTrue, SeenIsTrueOf
    <3>3. Once!Tell(requests[r].key, requests[r].seen.response)
      BY <1>3, <2>2, <3>2 DEF Judge, Once!Tell
    <3> QED BY <3>1, <3>3 DEF Once!Next
  <2> QED BY <2>1, <2>2
<1>4. ASSUME UNCHANGED <<executed, replayed>>
      PROVE  [Once!Next]_(Once!vars)
  BY <1>4 DEF Once!vars
<1>5. [Next]_vars => \/ UNCHANGED <<executed, replayed>>
                    \/ \E r \in Requests : \/ MarkAndCommit(r) \/ Judge(r)
                                            \/ \E outcome \in Outcomes : Execute(r, outcome)
  BY DEF Next, Step, vars, Arrive, Find, Insert, CommitKey, CommitFails, Mark, MarkFails, Abort, Crash
<1> QED BY <1>1, <1>2, <1>3, <1>4, <1>5

(* For any number of keys and requests, whatever fails or crashes, the operation of a key takes
   effect at most once and everybody who is answered from a record is told its response. *)
THEOREM ImplementsOncePerKey == Spec => TakesEffectOnce
<1>1. Init => Once!Init
  BY DEF Init, Once!Init
<1>2. IInv /\ [Next]_vars => [Once!Next]_(Once!vars)
  BY StepImplements
<1> QED BY <1>1, <1>2, IInvariant, PTL DEF Spec, Once!Spec, TakesEffectOnce
=============================================================================
