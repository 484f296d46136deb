--------------------------- MODULE MCUserAccounts ---------------------------
EXTENDS UserAccounts, TLC

Symmetry == Permutations(Requests) \union Permutations(Users) \union Permutations(Emails)
=============================================================================
