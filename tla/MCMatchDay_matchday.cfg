SPECIFICATION DaySpec
CONSTANTS
  p1 = p1
  p2 = p2
  g1 = g1
  g2 = g2
  red = red
  blue = blue
  green = green
  lions = lions
  Null = Null
  Player = {p1, p2}
  Guest = {g1}
  Kinds = {"match", "no_match", "challenge"}
  TeamColours <- Colours
  Custom <- OwnNames
  Rename = {}
  ChallengeNames <- Agreed
  Length = {25}
  EventDuration = 60
  Size = {2}
  MaxMatches = 3
  MaxScored = 1
  Overfull = FALSE
  Slot = {p1, p2}
  Exclusive = {"results", "archive", "uploads", "teardown"}
  Candidate = {home, away}
  Side <- EachForOneSide
  Home = home
  Away = away
  Score <- LowScores
  Event = {e1, e2}
  Club = home
  Photo = {1, 2, 3}
  MaxPhotosPerTarget = 1
  MaxGalleryPhotosPerGroup = 2
  User = {home, away}
  Organizer <- HomeOrganizes
  MaxLikes = 3
  MaxRating = 1
SYMMETRY Alike
INVARIANTS TeamsAgree AftermathSound PhotosSound RatingsSound ListsAgree
PROPERTY NothingLost
CHECK_DEADLOCK FALSE
