----------------------------- MODULE MCMatches -----------------------------
(* Small instances of Matches for TLC. *)
EXTENDS Matches, TLC

\* Submissions are interchangeable.
Symmetry == Permutations(Submissions)

=============================================================================
