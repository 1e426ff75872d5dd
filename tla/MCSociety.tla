----------------------------- MODULE MCSociety -----------------------------
(***************************************************************************)
(* Small instances of the parts of Society.  Every identity is a model     *)
(* value; those of one kind may change places.                             *)
(***************************************************************************)
EXTENDS Society, TLC

Alike == Permutations(Slot) \cup Permutations(Event) \cup Permutations(User)

=============================================================================
