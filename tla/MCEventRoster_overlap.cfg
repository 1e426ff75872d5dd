SPECIFICATION Spec
CONSTANTS
  p1 = p1
  p2 = p2
  g1 = g1
  g2 = g2
  g3 = g3
  w1 = w1
  s1 = s1
  s2 = s2
  Null = Null
  TheEvent = TheEvent
  Player = {p1, p2}
  Manager = {}
  GuestId = {g1}
  WalkIn = {w1}
  MaxGuests = 1
  Kinds = {"match"}
  Setting <- SmallThenOpen
  Slot = {s1, s2}
  Exclusive = {"person"}
  Unforeseen = {}
SYMMETRY Anyone
INVARIANTS CapacityGuarded GuestsHaveSponsors
CHECK_DEADLOCK FALSE
