SPECIFICATION Spec
CONSTANTS
  p1 = p1
  p2 = p2
  g1 = g1
  g2 = g2
  red = red
  blue = blue
  green = green
  lions = lions
  Null = Null
  Player = {p1}
  Guest = {g1, g2}
  Kinds = {"match"}
  TeamColours <- Colours
  Custom <- OwnNames
  Rename = {}
  ChallengeNames <- Agreed
  Length = {25}
  EventDuration = 60
  Size = {2}
  MaxMatches = 3
  MaxScored = 1
  Overfull = TRUE
SYMMETRY Anyone
PROPERTY ShuffleSeatsAll
CHECK_DEADLOCK FALSE
