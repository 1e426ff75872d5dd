SPECIFICATION Spec
CONSTANTS
  p1 = p1
  p2 = p2
  g1 = g1
  g2 = g2
  g3 = g3
  w1 = w1
  s1 = s1
  s2 = s2
  Null = Null
  TheEvent = TheEvent
  Player = {p1, p2}
  Manager = {}
  GuestId = {g1}
  WalkIn = {}
  MaxGuests = 2
  Kinds = {"match"}
  Setting <- Open
  Slot = {s1}
  Exclusive = {"person", "event"}
  Unforeseen = {"judge_withdrawn"}
INVARIANTS CountMatchesRoster
CHECK_DEADLOCK FALSE
