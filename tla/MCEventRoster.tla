--------------------------- MODULE MCEventRoster ---------------------------
(***************************************************************************)
(* Small events for EventRoster: the settings an organizer may choose, and *)
(* which constants are interchangeable.                                    *)
(***************************************************************************)
EXTENDS EventRoster, TLC

CONSTANTS p1, p2, g1, g2, g3, w1, s1, s2

\* A private event for one, and a public one for two that takes guests.
SmallThenOpen ==
  {[maxPlayers |-> 1, isPublic |-> FALSE, isAllowExtraPlayer |-> FALSE],
   [maxPlayers |-> 2, isPublic |-> TRUE, isAllowExtraPlayer |-> TRUE]}

\* Only the public event with guests.
Open == {[maxPlayers |-> 2, isPublic |-> TRUE, isAllowExtraPlayer |-> TRUE]}

Anyone == Permutations(Player) \cup Permutations(GuestId) \cup Permutations(Slot)

=============================================================================
