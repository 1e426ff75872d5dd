SPECIFICATION Spec
CONSTANTS
  p1 = p1
  p2 = p2
  g1 = g1
  g2 = g2
  g3 = g3
  w1 = w1
  s1 = s1
  s2 = s2
  Null = Null
  TheEvent = TheEvent
  Player = {p1, p2}
  Manager = {}
  GuestId = {g1, g2, g3}
  WalkIn = {w1}
  MaxGuests = 2
  Kinds = {"match", "no_match", "challenge"}
  Setting <- SmallThenOpen
  Slot = {s1, s2}
  Exclusive = {"person", "event"}
  Unforeseen = {}
SYMMETRY Anyone
INVARIANTS SeatsConserved CancelRecord
PROPERTIES HistoryStays
CHECK_DEADLOCK FALSE
