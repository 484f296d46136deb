------------------------------- MODULE Ledger -------------------------------
(***************************************************************************)
(* What the money path promises, without requests, locks or statuses: an   *)
(* entry is made once for its key, and the money of an entry moves once,   *)
(* whole, together with what the entry says of it.  WalletLedger keeps the *)
(* promise while its requests take turns (WalletTurns).                    *)
(***************************************************************************)
EXTENDS Integers

CONSTANTS Wallets, Ids, Keys, NoKey, Amounts, InitialBalance,
          Nothing  \* the entry of an id that nobody has used

VARIABLES
  balance,  \* what a wallet holds
  entry,    \* what was asked for
  state,    \* how far an entry has got
  paid,     \* entries that were paid for at the gateway
  payouts   \* times an entry was paid out

vars == <<balance, entry, state, paid, payouts>>

Entry == [type : {"DEPOSIT", "WITHDRAWAL"}, wallet : Wallets, amount : Amounts,
          key : Keys \cup {NoKey}]

Init ==
  /\ balance = [w \in Wallets |-> InitialBalance]
  /\ entry = [id \in Ids |-> Nothing]
  /\ state = [id \in Ids |-> "absent"]
  /\ paid = {}
  /\ payouts = [id \in Ids |-> 0]

Becomes(id, from, to) == state[id] = from /\ state' = [state EXCEPT ![id] = to]

KeyFree(k) == k = NoKey \/ \A id \in Ids : state[id] # "absent" => entry[id].key # k

Enter(id) ==
  /\ Becomes(id, "absent", "open")
  /\ \E e \in Entry : KeyFree(e.key) /\ entry' = [entry EXCEPT ![id] = e]
  /\ UNCHANGED <<balance, paid, payouts>>

\* the customer, at the gateway
Pay(id) ==
  /\ paid' = paid \cup {id}
  /\ UNCHANGED <<balance, entry, state, payouts>>

Refuse(id) ==
  /\ Becomes(id, "open", "refused")
  /\ UNCHANGED <<balance, entry, paid, payouts>>

Credit(id) ==
  /\ Becomes(id, "open", "settled")
  /\ entry[id].type = "DEPOSIT" /\ id \in paid
  /\ balance' = [balance EXCEPT ![entry[id].wallet] = @ + entry[id].amount]
  /\ UNCHANGED <<entry, paid, payouts>>

Send(id) ==
  /\ Becomes(id, "open", "sent")
  /\ entry[id].type = "WITHDRAWAL"
  /\ payouts' = [payouts EXCEPT ![id] = @ + 1]
  /\ UNCHANGED <<balance, entry, paid>>

Debit(id) ==
  /\ Becomes(id, "sent", "settled")
  /\ balance[entry[id].wallet] >= entry[id].amount
  /\ balance' = [balance EXCEPT ![entry[id].wallet] = @ - entry[id].amount]
  /\ UNCHANGED <<entry, paid, payouts>>

\* paid out of a wallet that no longer covers it
Owe(id) ==
  /\ Becomes(id, "sent", "owed")
  /\ balance[entry[id].wallet] < entry[id].amount
  /\ UNCHANGED <<balance, entry, paid, payouts>>

Next ==
  \E id \in Ids :
    \/ Enter(id) \/ Pay(id) \/ Refuse(id)
    \/ Credit(id) \/ Send(id) \/ Debit(id) \/ Owe(id)

Spec == Init /\ [][Next]_vars
=============================================================================
