-------------------------- MODULE MCTeamMembership --------------------------
(* Small instances of TeamMembership for TLC. *)
EXTENDS TeamMembership, TLC

\* Users, invitations and requests are interchangeable: any user may found the team.
Symmetry == Permutations(Users) \cup Permutations(Invites) \cup Permutations(Handlers)

(* Bound: what follows a repository's write over a row it had not read is not explored;
   nothing is claimed of the owner from there on. *)
UpToDate == stale # "row"

(* Bound: invitations are followed while nobody but the founder belongs to the team; no
   step reads both an invitation and a membership. *)
InvitationsApart ==
  \/ /\ \A i \in Invites : invitation[i].status = "ABSENT"
     /\ \A h \in Handlers : handlers[h].pc # "invite"
  \/ \A u \in Users : member[u] \in {NoRow, Row("owner", "active")}

=============================================================================
