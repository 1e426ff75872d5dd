----------------------------- MODULE MCMatchDay -----------------------------
(***************************************************************************)
(* A small instance of the parts of MatchDay: the teams of MCEventTeams,   *)
(* two players who stand for the two sides, and two events one of them     *)
(* organizes.                                                              *)
(***************************************************************************)
EXTENDS MatchDay, MCEventTeams

EachForOneSide == [p \in Candidate |-> p]
LowScores == {<<0, 0>>, <<1, 0>>, <<0, 1>>}
HomeOrganizes == [e \in Event |-> Home]

\* The players are the names of the slots, too: one permutation exchanges both.
Alike == Anyone

=============================================================================
