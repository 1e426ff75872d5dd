---------------------------- MODULE MCEventFunds ----------------------------
(***************************************************************************)
(* Small groups for EventFunds: the slots are interchangeable.             *)
(***************************************************************************)
EXTENDS EventFunds, TLC

CONSTANTS m1, owner, cashier, e1, x1, s1, s2

AnySlot == Permutations(Slot)

=============================================================================
