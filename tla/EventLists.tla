----------------------------- MODULE EventLists -----------------------------
(***************************************************************************)
(* Who finds an event, and where (events/events.service.ts,                *)
(* friends/friends.service.ts).  Five routes list events and one opens a   *)
(* single one; each builds its own filter from the event, the group it     *)
(* belongs to and how the caller stands to both.  This module follows one  *)
(* event and one caller while status, date, privacy, membership and roster *)
(* change, and asks whether the routes agree.                              *)
(*                                                                         *)
(* Left out: the narrowings a caller asks for (region, sport, distance,    *)
(* from and to), which every arm of a filter is ANDed with, and how the    *)
(* lists are sorted and paged (module Feed).                               *)
(***************************************************************************)
EXTENDS EventLifecycle

CONSTANT Null

VARIABLES
  event,    \* the event: kind, status, statusBeforeCancel (was), isPublic, and
            \* whether its date is before today (past)
  private,  \* isPrivate of its group, or Null for an event outside any group
  host,     \* the caller's row in the event's group
  rival,    \* and in the opponent's, of a challenge event
  roster,   \* the caller's EventPlayer row
  maker     \* the caller created the event

vars == <<event, private, host, rival, roster, maker>>

Standing == {"none", "pending", "member", "staff"}

Grouped == private # Null
Challenged == event.kind = "challenge"
Member(standing) == standing \in {"member", "staff"}

-----------------------------------------------------------------------------
(* What the routes read about the caller *)

Joined == roster = "joined"                      \* joinedEventIds

InGroup == Grouped /\ Member(host)               \* approvedGroupIds
RunsASide == host = "staff" \/ rival = "staff"   \* adminGroupIds

-----------------------------------------------------------------------------
(* GET /events *)

ListArms ==
  \/ event.isPublic
  \/ Joined
  \/ InGroup /\ ~Challenged
  \/ RunsASide

\* A status that is asked for wins; otherwise what is over is left out.
List(status, includeExpired) ==
  /\ ListArms
  /\ IF status # Null THEN event.status = status ELSE event.status \notin FinishedStatuses
  /\ includeExpired \/ ~event.past

-----------------------------------------------------------------------------
(* GET /events/search: its own copy of the arms *)

SearchArms ==
  \/ event.isPublic
  \/ Joined
  \/ InGroup /\ ~Challenged
  \/ RunsASide

Search(includeExpired) ==
  /\ SearchArms
  /\ includeExpired \/ (~event.past /\ event.status \notin {"done", "cancelled"})

-----------------------------------------------------------------------------
(* GET /events/group/:id *)

GroupListRefused == private = TRUE /\ ~Member(host)

GroupList(status, includeExpired) ==
  /\ Grouped /\ ~GroupListRefused
  /\ Member(host) \/ event.isPublic
  /\ status # Null => event.status = status
  /\ includeExpired \/ (~event.past /\ (status = Null => event.status # "done"))

-----------------------------------------------------------------------------
(* GET /events/joined *)

JoinedList(status, includeExpired) ==
  /\ Joined
  /\ IF status # Null THEN event.status = status ELSE event.status # "done"
  /\ includeExpired \/ ~event.past

-----------------------------------------------------------------------------
(* GET /friends/:userId/events, of a friend who plays in or made the event *)

\* Mutant: public is enough, whatever the group is.
FriendArmsIgnoringGroup == maker \/ Joined \/ InGroup \/ event.isPublic

FriendArms ==
  \/ maker
  \/ Joined
  \/ InGroup
  \/ event.isPublic /\ private # TRUE

-----------------------------------------------------------------------------
(* GET /events/:id: opens for everybody, and says how the caller stands *)

Detail ==
  [userRole     |-> IF InGroup THEN host ELSE Null,
   joinedByMe   |-> roster = "joined",
   seesProposal |-> ~Challenged \/ maker \/ RunsASide]

-----------------------------------------------------------------------------
(* What changes *)

\* create; createChallengeEvent forces a challenge to be private.
Init ==
  /\ event \in [kind : Kind, status : {"join"}, was : {Null}, isPublic : BOOLEAN, past : {FALSE}]
  /\ private \in BOOLEAN \cup {Null}
  /\ host \in Standing /\ rival \in Standing /\ maker \in BOOLEAN
  /\ roster = "none"
  /\ Challenged => private # Null /\ ~event.isPublic
  /\ ~Challenged => rival = "none"
  /\ private = Null => host = "none"
  /\ Grouped /\ maker => "staff" \in {host, rival}

SetStatus(to) ==
  /\ CanTransition(event.kind, event.status, to)
  /\ event' = [event EXCEPT !.status = to, !.was = IF to = "cancelled" THEN event.status ELSE Null]
  /\ UNCHANGED <<private, host, rival, roster, maker>>

Restore ==
  /\ event.status = "cancelled"
  /\ event' = [event EXCEPT !.status = event.was, !.was = Null]
  /\ UNCHANGED <<private, host, rival, roster, maker>>

\* The organizer edits the privacy or the date, or the day goes by.
Edit ==
  /\ CanModify(event.status)
  /\ \E public \in BOOLEAN : event' = [event EXCEPT !.isPublic = public, !.past = FALSE]
  /\ UNCHANGED <<private, host, rival, roster, maker>>

DayPasses ==
  /\ event' = [event EXCEPT !.past = TRUE]
  /\ UNCHANGED <<private, host, rival, roster, maker>>

GroupPrivacy ==
  /\ Grouped /\ private' \in BOOLEAN
  /\ UNCHANGED <<event, host, rival, roster, maker>>

\* Asked, approved, given another role, removed.
Membership ==
  /\ Grouped
  /\ \/ host' \in Standing /\ (host = "none" => host' \in {"none", "pending"})
        /\ UNCHANGED rival
     \/ Challenged /\ rival' \in Standing /\ (rival = "none" => rival' \in {"none", "pending"})
        /\ UNCHANGED host
  /\ UNCHANGED <<event, private, roster, maker>>

\* join; in a challenge, a member of a side who accepts a place in its squad.
Join ==
  /\ CanJoin(event.status) /\ ~Joined
  /\ Challenged => Member(host) \/ Member(rival)
  /\ roster' = "joined"
  /\ UNCHANGED <<event, private, host, rival, maker>>

\* leave; in a challenge, the side's admin takes the player off its squad.
Leave ==
  /\ CanLeave(event.status) /\ Joined
  /\ roster' = "cancelled"
  /\ UNCHANGED <<event, private, host, rival, maker>>

Next ==
  \/ \E to \in Status : SetStatus(to)
  \/ Restore \/ Edit \/ DayPasses \/ GroupPrivacy \/ Membership \/ Join \/ Leave

Spec == Init /\ [][Next]_vars

-----------------------------------------------------------------------------
(* Properties *)

Ask == Status \cup {Null}

\* "Both apply the same THREE-ARM visibility rule": what one of them shows when
\* asked for everything, the other does too (search's comment).
SearchFollowsList == Search(TRUE) = \E s \in Status : List(s, TRUE)

\* A member discovers what the group's own list shows, before joining it, unless
\* it is a challenge match (list's comment).
MembersDiscover ==
  InGroup /\ ~Challenged =>
    \A s \in Status : GroupList(s, TRUE) => List(s, TRUE) /\ Search(TRUE)

\* Being on the roster is enough, in every list that is not one group's, and to
\* be told so by the event itself.
RosterIsEnough ==
  \A s \in Status, e \in BOOLEAN :
    JoinedList(s, e) => List(s, e) /\ Search(TRUE) /\ FriendArms /\ Detail.joinedByMe

\* "The two lists agree on what expired means" (listJoined's comment).
ListsAgreeOnExpired ==
  Joined /\ InGroup => \A s \in Ask : GroupList(s, FALSE) = JoinedList(s, FALSE)

\* "Visibility follows the group event list" (getFriendEvents' comment).
FriendsFollowGroupList ==
  Grouped /\ ~Joined /\ ~maker => FriendArms = GroupList(Null, TRUE)

\* A private event is found by nobody outside it: not its maker, not on its
\* roster, and no approved member of a side.
PrivateStaysInside ==
  ~event.isPublic /\ ~maker /\ ~Joined /\ ~Member(host) /\ ~Member(rival) =>
    /\ ~Search(TRUE) /\ ~FriendArms
    /\ \A s \in Ask : ~List(s, TRUE) /\ ~GroupList(s, TRUE) /\ ~JoinedList(s, TRUE)

\* Whoever the event's page calls a member of its group may open the group's
\* list, and sees the terms of a challenge only from where it can be discovered.
PageAgreesWithLists ==
  /\ Detail.userRole # Null => ~GroupListRefused
  /\ Challenged /\ ~maker /\ Detail.seesProposal => List(event.status, TRUE)

\* The routes that show an event agree about who may find it.
ListsAgree ==
  /\ SearchFollowsList /\ MembersDiscover /\ RosterIsEnough /\ ListsAgreeOnExpired
  /\ FriendsFollowGroupList /\ PrivateStaysInside /\ PageAgreesWithLists
=============================================================================
