SPECIFICATION TournamentSpec
CONSTANTS
  Settings <- Disturbed
  Scores <- WinOrDraw
  s1 = s1
  s2 = s2
  Slot = {s1, s2}
  InOrder = FALSE
  MaxMatches = 6
  MaxEdits = 1
  MaxWithdrawals = 2
  Layouts <- LaidOut
  Seedings = {"MANUAL", "RANDOM_DRAW"}
SYMMETRY AnySlot
INVARIANTS DrawnFairly RankingJustified QualifiersSeeded LeagueEnds OutcomeCurrent
PROPERTIES CancelIsFinal
CHECK_DEADLOCK FALSE
