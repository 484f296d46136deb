------------------------ MODULE MCMessagingAdapter ------------------------
(* Model values for TLC.  Runs, helpers and connections are interchangeable. *)
EXTENDS MessagingAdapter, TLC

Symmetry == Permutations(Runs) \cup Permutations(Helpers) \cup Permutations(Conns)

=============================================================================
