------------------------------ MODULE MatchDay ------------------------------
(***************************************************************************)
(* An event around its match: its teams (EventTeams), what is settled      *)
(* after it (Aftermath), its photos (Photos), the likes and ratings it     *)
(* earns (Ratings), and who finds it (EventLists).  The models share no    *)
(* state and stand side by side: a behaviour chooses one of them ("area")  *)
(* and leaves the others at rest.                                          *)
(***************************************************************************)
EXTENDS EventTeams

CONSTANTS Slot, Exclusive,
          Candidate, Side, Home, Away, Score,
          Event, Club, Photo, MaxPhotosPerTarget, MaxGalleryPhotosPerGroup,
          User, Organizer, MaxLikes, MaxRating

VARIABLES area,
          status, result, fixture, joined, members, mvp, won, memory, owed, missed,
          closing,
          course, club, photo, faulty, uploading,
          stage, attending, there, together, like, likeCount, liked, overlap, rating, rated,
          listing, private, host, rival, place, maker

aftermathVars ==
  <<status, result, fixture, joined, members, mvp, won, memory, owed, missed, closing>>
photoVars == <<course, club, photo, faulty, uploading>>
ratingVars == <<stage, attending, there, together, like, likeCount, liked, overlap, rating, rated>>
listVars == <<listing, private, host, rival, place, maker>>
dayVars == <<area, vars, aftermathVars, photoVars, ratingVars, listVars>>

A == INSTANCE Aftermath WITH Player <- Candidate, request <- closing
P == INSTANCE Photos WITH event <- course, request <- uploading
R == INSTANCE Ratings WITH status <- stage, joined <- attending, request <- rated
Lists == INSTANCE EventLists WITH event <- listing, roster <- place

-----------------------------------------------------------------------------
NoList ==
  /\ listing = Null /\ private = Null /\ host = Null /\ rival = Null
  /\ place = Null /\ maker = Null

DayInit ==
  /\ area \in {"teams", "aftermath", "photos", "likes", "ratings", "lists"}
  /\ Init /\ A!Init /\ P!Init /\ R!Init
  /\ area # "teams" => event.kind = "match"
  /\ IF area = "lists" THEN Lists!Init ELSE NoList

DayNext ==
  /\ UNCHANGED area
  /\ IF area = "teams" THEN Next ELSE UNCHANGED vars
  /\ IF area = "aftermath" THEN A!Next ELSE UNCHANGED aftermathVars
  /\ IF area = "photos" THEN P!Next ELSE UNCHANGED photoVars
  /\ CASE area = "likes" -> R!NextLike [] area = "ratings" -> R!NextRating
       [] OTHER -> UNCHANGED ratingVars
  /\ IF area = "lists" THEN Lists!Next ELSE UNCHANGED listVars

DaySpec == DayInit /\ [][DayNext]_dayVars

-----------------------------------------------------------------------------
(* Properties: those of a part, in the behaviours that are about it.  TeamsAgree and
   NothingLost are asked as they are: elsewhere the teams rest as they began. *)

\* Result and awards name one MVP and one winner, unless a request broke off between
\* its writes.
AftermathSound == area = "aftermath" => A!AftermathSound

\* A photo that is listed has its file, the caps hold, and no photo outlives what it is
\* of but those of deleted events.
PhotosSound == area = "photos" => P!PhotosSound

\* Likes are counted, and a rating is of, and by, somebody who was there.
RatingsSound == area \in {"likes", "ratings"} => R!RatingsSound

\* The routes that show an event agree about who may find it.
ListsAgree == area = "lists" => Lists!ListsAgree

=============================================================================
