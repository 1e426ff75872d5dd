-------------------------- MODULE MCAccountDeletion --------------------------
(***************************************************************************)
(* One account and two events for AccountDeletion, to look at the requests *)
(* that are refused.                                                       *)
(***************************************************************************)
EXTENDS AccountDeletion, TLC

CONSTANTS e1, e2

Events == {e1, e2}
Alike == Permutations(Events)

=============================================================================
