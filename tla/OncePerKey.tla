----------------------------- MODULE OncePerKey -----------------------------
(***************************************************************************)
(* What a service for idempotency keys promises: an operation takes effect *)
(* at most once for its key, and nobody is told any response but its own.  *)
(* IdempotencyService implements it.                                       *)
(***************************************************************************)
CONSTANTS Keys, Responses

VARIABLES
  chosen,  \* the response of each key's operation, once it took effect
  told     \* <<key, response>>, given to somebody who came again

vars == <<chosen, told>>

Init ==
  /\ chosen = [k \in Keys |-> {}]
  /\ told = {}

Choose(k, s) ==
  /\ chosen[k] = {}
  /\ chosen' = [chosen EXCEPT ![k] = {s}]
  /\ UNCHANGED told

Tell(k, s) ==
  /\ chosen[k] = {s}
  /\ told' = told \union {<<k, s>>}
  /\ UNCHANGED chosen

Next == \E k \in Keys, s \in Responses : Choose(k, s) \/ Tell(k, s)

Spec == Init /\ [][Next]_vars
=============================================================================
