------------------------------ MODULE Society ------------------------------
(***************************************************************************)
(* How people organize themselves: GroupMembership, Locations,             *)
(* SportCatalogue, Friendship, EventInvitations, Challenge and             *)
(* AccountDeletion.  The models share no state and stand side by side: a   *)
(* behaviour chooses one of them ("area") and leaves the others at rest in *)
(* one state.                                                              *)
(***************************************************************************)
EXTENDS GroupMembership

CONSTANTS Sport, Format, Grouped, Alone,
          FriendshipRow, OneAtATime,
          Person, Organizer, Invitation, Capacity, Careful,
          Club, ChallengeId, EventId,
          Ordered,   \* what does not overlap of the requests about challenges
          Group, Location, MaxGroupLocations,
          Apart,     \* what does not overlap of the requests about locations
          Event, Quiet

VARIABLES area,
          catalogue, groupSport, holder, interest, repeated, work,
          friendship, cooling, sending,
          event, player, friends, invitation, asking,
          challenge, match, squad, calling,
          location, club, moving,
          account, owns, engagement, roster, deletion

catalogueVars == <<catalogue, groupSport, holder, interest, repeated, work>>
friendVars == <<friendship, cooling, sending>>
invitationVars == <<event, player, friends, invitation, asking>>
challengeVars == <<challenge, match, squad, calling>>
locationVars == <<location, club, moving>>
accountVars == <<account, owns, engagement, roster, deletion>>
societyVars == <<area, vars, catalogueVars, friendVars, invitationVars, challengeVars,
                 locationVars, accountVars>>

Sports == INSTANCE SportCatalogue
F == INSTANCE Friendship WITH Request <- FriendshipRow, row <- friendship
I == INSTANCE EventInvitations WITH User <- Person, row <- player, request <- asking
C == INSTANCE Challenge WITH
       Group <- Club, Exclusive <- Ordered, event <- match, request <- calling
L == INSTANCE Locations WITH
       User <- Person, Exclusive <- Apart, group <- club, request <- moving
Q == INSTANCE AccountDeletion WITH event <- engagement

-----------------------------------------------------------------------------
SocietyInit ==
  /\ area \in {"members", "sports", "friends", "invitations", "challenges", "locations",
               "account"}
  /\ Init /\ Sports!Init /\ F!Init /\ I!Init /\ C!Init /\ L!Init /\ Q!Init
  /\ area # "sports" =>
       groupSport = Null /\ \A sport \in Sport : catalogue[sport].formats = {}

SocietyNext ==
  /\ UNCHANGED area
  /\ IF area = "members" THEN Next ELSE UNCHANGED vars
  /\ IF area = "sports" THEN Sports!Next ELSE UNCHANGED catalogueVars
  /\ IF area = "friends" THEN F!Next ELSE UNCHANGED friendVars
  /\ IF area = "invitations" THEN I!Next ELSE UNCHANGED invitationVars
  /\ IF area = "challenges" THEN C!Next ELSE UNCHANGED challengeVars
  /\ IF area = "locations" THEN L!Next ELSE UNCHANGED locationVars
  /\ IF area = "account" THEN Q!Next ELSE UNCHANGED accountVars

SocietySpec == SocietyInit /\ [][SocietyNext]_societyVars

-----------------------------------------------------------------------------
(* Properties: those of a part, in the behaviours that are about it.  OneOwner is
   asked as it is: elsewhere the group rests as before its creation. *)

\* What has been answered stays answered, whoever answers at the same time: a
\* membership ends and its limit is passed only as AnswerSettles says, and a
\* friend request, a challenge and its proposal have one verdict.
AnswersSettle ==
  [][/\ area = "members" => AnswerSettles
     /\ area = "friends" => F!AnsweredForGood
     /\ area = "challenges" => C!AnsweredForGood]_<<area, vars, friendVars, challengeVars>>

\* What is stored is listed, and a change of the catalogue that broke off can be made again.
CatalogueSound == area = "sports" => Sports!CatalogueSound

\* A pair has one live friendship, and who was refused has no request open in the cool-down.
FriendshipSound == area = "friends" => F!FriendshipSound

\* Seats are counted within the capacity, and an accepted invitation is on the roster.
InvitationsSound == area = "invitations" => I!InvitationsSound

\* A challenge has one match, and nothing comes of it before the other side accepts.
ChallengeSound == area = "challenges" => C!ChallengeSound

\* The rows of locations and the lists of groups tell of each other, step by step.
LocationsSound == [][area = "locations" => L!LocationsStep]_<<area, locationVars>>

\* An account is flagged only when it holds nothing any more.
DeletionSound == [][area = "account" => Q!DeletionStep]_<<area, accountVars>>

=============================================================================
