SPECIFICATION Spec
CONSTANTS
  e1 = e1
  e2 = e2
  Null = Null
  Event <- Events
  Quiet = TRUE
SYMMETRY Alike
PROPERTY RejectedChangesNothing
CHECK_DEADLOCK FALSE
