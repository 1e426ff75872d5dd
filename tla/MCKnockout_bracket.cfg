SPECIFICATION Spec
CONSTANTS
  t1 = t1
  t2 = t2
  t3 = t3
  t4 = t4
  t5 = t5
  Null = Null
  Team = {t1, t2, t3, t4, t5}
  Setup <- Brackets
  Score <- OneGoal
  Absent = {"home"}
  Slot = {1, 2}
  Apart = TRUE
INVARIANTS WinnersAdvance PlacementsCurrent SomethingToPlay
PROPERTIES ResultsLocked WalkoverComes
CHECK_DEADLOCK FALSE
