----------------------------- MODULE WalletTurns -----------------------------
(***************************************************************************)
(* WalletLedger with a history of whether requests ever overlapped or      *)
(* failed: what the use cases promise only when they take turns is stated  *)
(* next to what they promise always.                                       *)
(***************************************************************************)
EXTENDS WalletLedger

VARIABLE disturbed  \* history: two requests were in progress at once, or one failed

TurnsInit == Init /\ disturbed = FALSE

TurnsNext ==
  /\ Next
  /\ disturbed' = \/ disturbed
                  \/ failures' > 0
                  \/ Cardinality({h \in Handlers : handlers'[h] # Idle}) > 1

TurnsSpec ==
  /\ TurnsInit /\ [][TurnsNext]_<<vars, disturbed>>
  /\ \A h \in Handlers : WF_vars(Continue(h))
  /\ \A id \in TxIds : SF_vars(DeliverSuccess(id))

(* Webhooks that take turns credit a deposit once, however often the gateway
   repeats them.  (Two that overlap may credit it twice.)  LedgerInTurns below implies
   it, and is what the run checks. *)
CreditedOnceInTurns == disturbed \/ CreditedAtMostOnce

(* Approvals that take turns pay a withdrawal out once, and what was paid shows in
   its row as COMPLETED or as marked for reconciliation.  (Two that overlap may both
   pay; one that fails after the payout leaves the row REQUIRES_APPROVAL.) *)
PayoutAccountedInTurns == disturbed \/ (PaidOutAtMostOnce /\ PayoutAccounted)

(* Between requests that take turns every balance is what the COMPLETED
   transactions of its wallet say. *)
BalanceMatchesInTurns == disturbed \/ BalanceMatchesTransactions

-----------------------------------------------------------------------------
(* The ledger of module Ledger that the tables show.  A deposit counts as settled from
   the write of the balance on, before its row says COMPLETED. *)

DepositState(id) ==
  IF credited[id] > 0 THEN "settled"
  ELSE IF tx[id].status = "FAILED" THEN "refused" ELSE "open"

Outcome == [COMPLETED |-> "settled", PAYMENT_FAILED |-> "refused",
            ERROR_INSUFFICIENT_FUNDS_POST_PAYMENT |-> "owed"]

WithdrawalState(id) ==
  IF tx[id].status \in DOMAIN Outcome THEN Outcome[tx[id].status]
  ELSE IF payouts[id] > 0 THEN "sent" ELSE "open"

LedgerState(id) ==
  IF ~Stored(id) THEN "absent"
  ELSE IF tx[id].type = "DEPOSIT" THEN DepositState(id) ELSE WithdrawalState(id)

AsEntry(row) ==
  [type |-> row.type, wallet |-> row.wallet, amount |-> row.amount, key |-> row.key]

Promised == INSTANCE Ledger WITH
  Ids <- TxIds,
  Amounts <- DepositAmounts \cup WithdrawalAmounts,
  Nothing <- AsEntry(NoRow),
  entry <- [id \in TxIds |-> AsEntry(tx[id])],
  state <- [id \in TxIds |-> LedgerState(id)],
  paid <- {id \in TxIds : payments[id] = "paid"}

(* Until two requests overlap or one fails, the use cases implement the ledger: each
   step of a request makes one whole movement of the ledger or none, although the code
   makes it in two writes of two tables. *)
LedgerInTurns == Promised!Init /\ [][Promised!Next \/ disturbed']_(Promised!vars)

=============================================================================
