SPECIFICATION Spec
CONSTANTS
  Captain = {c1, c2, c3}
  Club = {g1}
  Slot = {s1, s2}
  Places = {2, 3}
  MaxInvitations = 2
  Crossed = FALSE
  Null = Null
SYMMETRY Symmetry
INVARIANTS SeatsCounted DrawCurrent
PROPERTIES AnsweredOnce
CHECK_DEADLOCK FALSE
