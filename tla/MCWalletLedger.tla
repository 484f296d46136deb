--------------------------- MODULE MCWalletLedger ---------------------------
(* Small instances of WalletLedger for TLC. *)
EXTENDS WalletLedger, TLC

\* Requests, uuids and keys are interchangeable; no property tells them apart.
Symmetry == Permutations(Handlers) \cup Permutations(TxIds) \cup Permutations(Keys)

=============================================================================
