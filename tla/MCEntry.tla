------------------------------ MODULE MCEntry ------------------------------
(***************************************************************************)
(* A small tournament for TournamentEntry: two or three places, three      *)
(* captains, one group with two invitations.                               *)
(***************************************************************************)
EXTENDS TournamentEntry, TLC

Symmetry == Permutations(Captain) \cup Permutations(Slot)

=============================================================================
