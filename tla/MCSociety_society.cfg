SPECIFICATION SocietySpec
CONSTANTS
  Null = Null
  Slot = {s1, s2}
  User = {u1, u2, u3}
  Limits = {1, 2}
  MaxRows = 2
  Exclusive = {"answers", "birth", "limit"}
  Sport = {a, b}
  Format = {a, f}
  Grouped = {e}
  Alone = {t}
  FriendshipRow = {d1, d2}
  OneAtATime = TRUE
  Person = {a, b}
  Organizer = a
  Invitation = {d1, d2}
  Capacity = 1
  Careful = TRUE
  Club = {a, b}
  ChallengeId = {d1, d2}
  EventId = {x}
  Ordered = {"answers", "matches", "verdicts", "birth"}
  Group = {d1, d2}
  Location = {e, t}
  MaxGroupLocations = 1
  Apart = {"birth", "removal", "teardown"}
  Event = {d1, d2}
  Quiet = TRUE
SYMMETRY Alike
INVARIANTS OneOwner CatalogueSound FriendshipSound InvitationsSound ChallengeSound
PROPERTIES AnswersSettle DeletionSound LocationsSound
CHECK_DEADLOCK FALSE
