-------------------------- MODULE SocietyInvariants --------------------------
(***************************************************************************)
(* What the parts of Society rely on: the inductive invariants of their    *)
(* theorems (SocietyProofs).  The parts share no state: each has its own   *)
(* argument.                                                               *)
(*                                                                         *)
(* Membership.  The owner is safe because nobody asks about a row that is  *)
(* theirs: every request that could change a row was accepted when the row *)
(* was somebody else's or not yet there, and a row cannot become the       *)
(* owner's while such a request waits.  So the invariant speaks of the     *)
(* requests in flight, by the four times of a group: before its creation,  *)
(* before the owner's row, with it, and after its rows are erased.         *)
(*                                                                         *)
(* Locations.  A row and the list that names it are written one after the  *)
(* other, so the invariant says which of the two may be ahead, and of      *)
(* which request it then is.                                               *)
(*                                                                         *)
(* Sports.  The invariant follows a request through its writes: what each  *)
(* has settled by the time it is behind (Ahead), and what may stay as it   *)
(* is when it breaks off (Halfway).  Of profiles without a repetition the  *)
(* two writes of a reassignment leave no mention of the sport that goes.   *)
(*                                                                         *)
(* An account.  What is left to cancel or leave is all that is left.       *)
(*                                                                         *)
(* The handshakes, Friendship, EventInvitations and Challenge.  A handler  *)
(* acts on a document it read some steps ago.  So the invariant of each    *)
(* says, for every request in flight, what of that is still true; a        *)
(* discipline (OneAtATime, Careful, Ordered) is used exactly where nothing *)
(* else would keep it true.                                                *)
(***************************************************************************)
EXTENDS Society, Sequences, FiniteSets

-----------------------------------------------------------------------------
(* Membership *)

\* What a request in flight is.
Requests ==
  {Idle}
  \cup [op : {"own", "ask", "remove"}, on : User]
  \cup [op : {"approve", "reject", "leave"}, on : User, id : 0..MaxRows]
  \cup [op : {"role"}, on : User, role : Assignable]
  \cup [op : {"cashier"}, on : User \cup {Null}]
  \cup [op : {"limit"}, on : Limits]
  \cup [op : {"erase_rows", "erase_group"}]

Types ==
  /\ MembershipTypeOK
  /\ request \in [Slot -> Requests]

\* The requests only an owner or admin makes, and those that may change a row.
Managing == {"approve", "reject", "remove", "role", "limit"}
Changing == {"approve", "reject", "leave", "remove", "role"}

\* Before its creation a group has no rows and nobody asks anything of it.
BeforeCreation ==
  group.phase = "none" =>
    /\ \A s \in Slot : request[s] = Idle
    /\ \A u \in User : member[u] = NoRow(0)
OwnerNamed == group.phase # "none" => group.ownerId \in User /\ group.maxPlayers \in Limits

\* While the owner's row is still to be made nobody is a member, so nobody
\* manages the group, and no request is about the owner but that one.
BeforeOwnerRow ==
  \A s \in Slot : request[s].op = "own" =>
    /\ There /\ request[s].on = group.ownerId
    /\ Approved = {} /\ ~Exists(group.ownerId)
    /\ \A t \in Slot :
         /\ request[t].op = "own" => t = s
         /\ request[t].op \notin Managing \cup {"erase_rows", "erase_group"}
         /\ request[t].op \in {"ask", "leave"} => request[t].on # group.ownerId

\* With the row, no request that may change a row is about the owner.
OwnerSafe ==
  There /\ InFlight({"own", "erase_group"}) = {} =>
    /\ member[group.ownerId].role = "owner" /\ member[group.ownerId].status = "approved"
    /\ \A t \in Slot : request[t].op \in Changing => request[t].on # group.ownerId

OnlyTheOwner == \A u \in User : member[u].role = "owner" => u = group.ownerId

\* A row has at least the _id a request about it has read.
IdsKnown ==
  \A s \in Slot : request[s].op \in {"approve", "reject"} =>
    request[s].id <= member[request[s].on].id

\* Once the rows are erased there are no members, and no approval in flight finds
\* its row: there will be none.
AfterErasure ==
  group.phase = "deleted" \/ InFlight({"erase_group"}) # {} =>
    /\ Approved = {} /\ InFlight({"own"}) = {}
    /\ \A s \in Slot : request[s].op = "approve" =>
         ~Exists(request[s].on) \/ request[s].id < member[request[s].on].id

OwnerInv ==
  /\ Types /\ BeforeCreation /\ OwnerNamed /\ BeforeOwnerRow /\ OwnerSafe /\ OnlyTheOwner
  /\ IdsKnown /\ AfterErasure

\* Answers in flight are about different people, and the row one finds still waits.
AnswersApart ==
  \A s \in Slot : request[s].op \in {"approve", "reject"} =>
    /\ \A t \in Slot : request[t].op \in {"approve", "reject"} /\ request[t].on = request[s].on =>
         t = s
    /\ Exists(request[s].on) /\ member[request[s].on].id = request[s].id =>
         member[request[s].on].status = "pending"

\* The members and the approvals in flight: each was accepted below the limit.
ApprovalsBounded ==
  InFlight({"approve"}) # {} =>
    /\ InFlight({"limit"}) = {}
    /\ Cardinality(Approved) + Cardinality(InFlight({"approve"}))
         <= group.maxPlayers + Cardinality(Slot) - 1

\* What is asked of answers, by the disciplines that ask it.
AnswersInv ==
  /\ "answers" \in Exclusive => AnswersApart
  /\ "limit" \in Exclusive => ApprovalsBounded

-----------------------------------------------------------------------------
(* Locations: what the requests in flight rely on *)

Bearing == {"birth", "adopt"}           \* making a group with the locations named
Adding == {"attach", "undo"}            \* a row that no list has yet
Erasing == {"delete", "pull"}           \* removing a row from wherever it is listed
Placing == Adding \cup Erasing \cup {"detach"}
Ending == {"purge", "drop"}             \* deleting a group

MovingShape(r) ==
  \/ r.op = "idle" /\ r = [op |-> "idle"]
  \/ r.op = "insert" /\ r = [op |-> "insert", g |-> r.g, by |-> r.by] /\ r.g \in Group
  \/ r.op \in Placing /\ r = [op |-> r.op, g |-> r.g, l |-> r.l] /\ r.g \in Group /\ r.l \in Location
  \/ /\ r.op \in Bearing /\ r = [op |-> r.op, g |-> r.g, by |-> r.by, ids |-> r.ids]
     /\ r.g \in Group /\ r.ids \subseteq Location
  \/ r.op \in Ending /\ r = [op |-> r.op, g |-> r.g] /\ r.g \in Group

LocationShapes ==
  /\ location = [l \in Location |-> location[l]]
  /\ \A l \in Location : location[l] = [phase |-> location[l].phase,
                                        createdBy |-> location[l].createdBy,
                                        groupId |-> location[l].groupId]
  /\ club = [g \in Group |-> club[g]]
  /\ \A g \in Group : club[g] = [phase |-> club[g].phase, owner |-> club[g].owner,
                                 staff |-> club[g].staff, locations |-> club[g].locations]
  /\ moving = [s \in Slot |-> moving[s]]
  /\ \A s \in Slot : MovingShape(moving[s])

\* No list is longer than the cap, nor is one that a new group will have.
UnderTheCap ==
  /\ \A g \in Group : /\ club[g].locations \subseteq Location
                      /\ Cardinality(club[g].locations) <= MaxGroupLocations
  /\ \A s \in Slot : moving[s].op = "birth" => Cardinality(moving[s].ids) <= MaxGroupLocations

\* What is referred to has been made.
Referred ==
  /\ \A g \in Group : \A l \in club[g].locations : location[l].phase # "none"
  /\ \A l \in Location : location[l].groupId # Null =>
       location[l].groupId \in Group /\ club[location[l].groupId].phase # "none"
  /\ \A s \in Slot :
       /\ moving[s].op \in Placing => location[moving[s].l].phase # "none"
       /\ moving[s].op \in Bearing => \A l \in moving[s].ids : location[l].phase # "none"
       /\ moving[s].op = "birth" => club[moving[s].g].phase = "none"
       /\ moving[s].op \notin {"idle", "birth"} => club[moving[s].g].phase # "none"

\* Who keeps out of whose way.
KeptApart ==
  \A s, t \in Slot :
    /\ moving[s].op \in Bearing /\ moving[t].op # "idle" /\ s # t => moving[t].g # moving[s].g
    /\ moving[s].op \in Ending /\ moving[t].op \in Adding \cup {"insert"} => moving[t].g # moving[s].g
    /\ moving[s].op \in Bearing /\ moving[t].op \in Erasing => moving[t].l \notin moving[s].ids
    /\ moving[s].op \in Adding /\ moving[t].op \in Placing /\ s # t => moving[t].l # moving[s].l

\* What a request knows of its row and its group.
Informed ==
  \A s \in Slot :
    LET r == moving[s]
    IN  /\ r.op \in Adding =>
             /\ location[r.l].phase = "there" /\ location[r.l].groupId = r.g
             /\ \A g \in Group : r.l \notin club[g].locations
             /\ \A t \in Slot : moving[t].op \in Bearing => r.l \notin moving[t].ids
        /\ r.op = "adopt" => club[r.g].phase = "there" /\ r.ids \subseteq club[r.g].locations
        /\ r.op = "detach" => location[r.l].groupId # r.g
        /\ r.op = "pull" => location[r.l].phase # "there"
        /\ r.op = "drop" => \A l \in Location : location[l].groupId = r.g => location[l].phase # "there"

Dropping(g) == \E t \in Slot : moving[t].op = "drop" /\ moving[t].g = g
Pulling(l) == \E t \in Slot : moving[t].op = "pull" /\ moving[t].l = l

\* The row went with its group, which is deleted or about to be.
WentAlong(l) ==
  /\ location[l].groupId \in Group
  /\ club[location[l].groupId].phase # "there" \/ Dropping(location[l].groupId)

\* What a group lists is there, or went with another group, or is about to be pulled.
ListsLive ==
  /\ \A g \in Group : club[g].phase = "there" => \A l \in club[g].locations :
       \/ location[l].phase = "there"
       \/ location[l].groupId # g /\ WentAlong(l)
       \/ Pulling(l) \/ Dropping(g)
  /\ \A s \in Slot : moving[s].op = "birth" => \A l \in moving[s].ids :
       location[l].phase = "there" \/ WentAlong(l)

\* What a group owns it lists, or is about to.
OwnedListed ==
  \A l \in Location : location[l].phase = "there" /\ location[l].groupId # Null =>
    \/ /\ club[location[l].groupId].phase = "there"
       /\ l \in club[location[l].groupId].locations
    \/ \E t \in Slot : moving[t].op \in Adding /\ moving[t].l = l

LocationInv ==
  /\ LocationShapes /\ UnderTheCap /\ Referred /\ KeptApart
  /\ Informed /\ ListsLive /\ OwnedListed

\* A group is made before others act on it and while its locations are not removed, and
\* none is created in one that is being deleted.
Orderly == {"birth", "removal", "teardown"} \subseteq Apart

\* The rows there will ever be are finitely many, and a group has a cap.
LocationBounds ==
  IsFiniteSet(Location) /\ MaxGroupLocations \in Nat /\ Null \notin Group

-----------------------------------------------------------------------------
(* The catalogue of sports: a request of several writes, and how far it is *)

\* What is left of each request, from each of its writes on.
DeleteOn == <<"delete">>
SwapOn == <<"swap", "delete">>
DropOn == <<"drop", "swap", "delete">>
GroupOn == <<"group", "drop", "swap", "delete">>
TakeOn == <<"take", "group", "drop", "swap", "delete">>
MoveOn == <<"move", "group", "drop", "swap", "delete">>
ClearOn == <<"clear", "move", "group", "drop", "swap", "delete">>
RowOn == <<"row">>
RenameOn == <<"rename", "row">>
FitOn == <<"fit">>
CarryOn == <<"carry", "fit">>
SetOn == <<"set", "carry", "fit">>

Holders == Grouped \cup Alone
Used(h) == h \in Holders /\ holder[h].sport # Null

SportShapes ==
  /\ catalogue = [x \in Sport |-> catalogue[x]]
  /\ \A x \in Sport : catalogue[x] = [listed |-> catalogue[x].listed, formats |-> catalogue[x].formats]
  /\ holder = [h \in Holders |-> holder[h]]
  /\ \A h \in Holders : holder[h] = [sport |-> holder[h].sport, format |-> holder[h].format]
  /\ interest \in [Sport -> Nat]

\* Sports that are stored are listed, at every write of every request.
SportsListed ==
  /\ \A h \in Holders : holder[h].sport # Null =>
       holder[h].sport \in Sport /\ catalogue[holder[h].sport].listed
  /\ groupSport # Null => groupSport \in Sport /\ catalogue[groupSport].listed
  /\ ~repeated => \A x \in Sport : interest[x] > 0 => interest[x] = 1 /\ catalogue[x].listed

\* The format of a holder is one of its sport's.
Fits(d) == d.format = Null \/ d.format \in catalogue[d.sport].formats

\* The sports of a request, and what it asked of the catalogue.
Sensible(a) ==
  /\ \/ a.op = "group" /\ a.to \in Sport
     \/ a.op = "remove" /\ a.of \in Sport /\ a.to \in Sport \cup {Null}
     \/ a.op = "rename" /\ a.of \in Sport
  /\ a.op = "group" => catalogue[a.to].listed
  /\ a.op = "remove" =>
       /\ catalogue[a.of].listed /\ a.to # a.of
       /\ a.to # Null => catalogue[a.to].listed
       /\ a.to = Null => /\ groupSport # a.of /\ interest[a.of] = 0
                         /\ \A h \in Holders : holder[h].sport # a.of
  /\ a.op = "rename" =>
       /\ catalogue[a.of].listed /\ a.from \in catalogue[a.of].formats
       /\ a.to \notin catalogue[a.of].formats

\* What a request may leave as it is when it breaks off.
Halfway(a) ==
  /\ \A h \in Holders : holder[h].sport # Null =>
       \/ Fits(holder[h])
       \/ a.op = "group" /\ h \in Grouped
       \/ a.op = "rename" /\ holder[h] = [sport |-> a.of, format |-> a.to]
  /\ a.op # "group" => \A h \in Grouped : holder[h].sport # Null /\ groupSport # Null =>
       \/ holder[h].sport = groupSport
       \/ a.op = "remove" /\ groupSport = a.of /\ holder[h].sport = a.to

\* How far it is.
Ahead(a, left) ==
  \/ /\ a.op = "group"
     /\ left \in {SetOn, CarryOn, FitOn}
     /\ left # SetOn => groupSport = a.to
     /\ left = FitOn => \A h \in Grouped : holder[h].sport # Null => holder[h].sport = a.to
  \/ /\ a.op = "rename"
     /\ left \in {RenameOn, RowOn}
     /\ left = RowOn => \A h \in Holders : holder[h] # [sport |-> a.of, format |-> a.from]
  \/ a.op = "remove" /\ a.to = Null /\ left = DeleteOn
  \/ /\ a.op = "remove" /\ a.to # Null
     /\ left \in {TakeOn, ClearOn, MoveOn, GroupOn, DropOn, SwapOn, DeleteOn}
     /\ left = TakeOn => a.of \in catalogue[a.to].formats
     /\ left = MoveOn => \A h \in Holders : holder[h].sport = a.of =>
          holder[h].format = Null \/ holder[h].format \in catalogue[a.to].formats
     /\ left \in {GroupOn, DropOn, SwapOn, DeleteOn} => \A h \in Holders : holder[h].sport # a.of
     /\ left \in {DropOn, SwapOn, DeleteOn} => groupSport # a.of
     /\ left = SwapOn => interest[a.of] = 0 \/ interest[a.to] = 0
     /\ left = DeleteOn /\ ~repeated => interest[a.of] = 0

AtRest ==
  /\ \A h \in Holders : holder[h].sport # Null => Fits(holder[h])
  /\ groupSport # Null => \A h \in Grouped : holder[h].sport # Null => holder[h].sport = groupSport

WorkInHand ==
  \/ work = [op |-> "rest"] /\ AtRest
  \/ /\ work = [op |-> "failed", asked |-> work.asked]
     /\ Sensible(work.asked) /\ Halfway(work.asked)
  \/ /\ work = [op |-> "doing", asked |-> work.asked, left |-> work.left]
     /\ Sensible(work.asked) /\ Halfway(work.asked) /\ Ahead(work.asked, work.left)

SportInv == SportShapes /\ SportsListed /\ WorkInHand

\* A value that is missing is no sport and no format.
NullIsNothing == Null \notin Sport /\ Null \notin Format

-----------------------------------------------------------------------------
(* The deletion of an account: what its request relies on *)

Finals == {"after_match", "done", "cancelled"}

Going == Q!Status \ {"cancelled"}

\* An event has its fields, and a cancelled one the status it had.
AccountShapes ==
  /\ engagement = [e \in Event |-> engagement[e]]
  /\ \A e \in Event :
       LET d == engagement[e]
       IN  /\ d = [kind |-> d.kind, status |-> d.status, was |-> d.was, mine |-> d.mine]
           /\ d.kind \in Q!Kind \cup {Null} /\ d.status \in Q!Status
           /\ d.status = "cancelled" => d.was \in Going
  /\ roster = [e \in Event |-> roster[e]]
  /\ deletion = [stage |-> deletion.stage, left |-> deletion.left,
                 changed |-> deletion.changed, end |-> deletion.end]
  /\ deletion.stage \in {"idle", "cancel", "leave"}

\* The account's unfinished events, and the open rosters it is on, of events d with rows r.
Unfinished(d) == {e \in Event : d[e].kind # Null /\ d[e].mine /\ d[e].status \notin Finals}
OpenOn(d, r) == {e \in Event : d[e].kind # Null /\ r[e] = "joined" /\ d[e].status = "join"}

\* What is left to do is all there is to do, and is the account's.
Departing ==
  /\ deletion.stage # "idle" => owns = FALSE
  /\ deletion.stage = "cancel" =>
       /\ Unfinished(engagement) \subseteq deletion.left
       /\ \A e \in deletion.left : e \in Event /\ engagement[e].kind # Null /\ engagement[e].mine
  /\ deletion.stage = "leave" =>
       /\ Unfinished(engagement) = {}
       /\ OpenOn(engagement, roster) \subseteq deletion.left
       /\ \A e \in deletion.left : e \in Event

AccountInv == AccountShapes /\ Departing

-----------------------------------------------------------------------------
(* Friendship *)

LiveStatus == {"PENDING", "ACCEPTED"}

\* The rows are rows, and the flag follows the status.
FriendshipRows ==
  /\ friendship = [r \in FriendshipRow |-> friendship[r]]
  /\ \A r \in FriendshipRow :
       /\ friendship[r] = [from |-> friendship[r].from, to |-> friendship[r].to,
                           status |-> friendship[r].status, active |-> friendship[r].active]
       /\ friendship[r].active \in BOOLEAN
       /\ friendship[r].active <=> friendship[r].status \in LiveStatus

\* No two live rows of one pair (what the unique index is for).
OneLiveEach ==
  \A r, q \in FriendshipRow :
    /\ friendship[r].status \in LiveStatus /\ friendship[q].status \in LiveStatus
    /\ {friendship[r].from, friendship[r].to} = {friendship[q].from, friendship[q].to}
    => r = q

Sendings == sending = [s \in Slot |-> sending[s]]

\* Who is about to create a row found none to the same person, nor a cooldown, and
\* nobody else can have made either since: they send one request at a time.
FreshSends ==
  \A s \in Slot : sending[s] # F!Idle =>
    /\ \A t \in Slot : sending[t] # F!Idle /\ sending[t].from = sending[s].from => t = s
    /\ sending[s].op = "create" =>
         /\ <<sending[s].from, sending[s].to>> \notin cooling
         /\ \A r \in FriendshipRow :
              friendship[r].status \in LiveStatus =>
                friendship[r].from # sending[s].from \/ friendship[r].to # sending[s].to

LiveAreWarm ==
  \A r \in FriendshipRow :
    friendship[r].status \in LiveStatus => <<friendship[r].from, friendship[r].to>> \notin cooling

FriendshipInv ==
  /\ FriendshipRows /\ OneLiveEach /\ Sendings
  /\ OneAtATime => FreshSends /\ LiveAreWarm

-----------------------------------------------------------------------------
(* Invitations: what they rely on *)

AcceptOps == {"expire", "claim_only", "seat", "claim", "row", "unseat"}
OwedOps == {"claim", "row", "unseat", "join_row", "leave_count"}

\* A request has what its step needs.
IsAsking(r) ==
  \/ r.op = "idle" /\ r = [op |-> "idle"]
  \/ r.op = "invite" /\ r = [op |-> r.op, on |-> r.on, by |-> r.by, to |-> r.to]
  \/ r.op \in AcceptOps /\ r = [op |-> r.op, on |-> r.on, id |-> r.id, had |-> r.had]
  \/ r.op \in {"join_seat", "join_row"} /\ r = [op |-> r.op, on |-> r.on, had |-> r.had]
  \/ r.op \in {"leave_row", "leave_count", "unfriend"} /\ r = [op |-> r.op, on |-> r.on]

EventRow ==
  /\ event = [status |-> event.status, started |-> event.started,
              joinedCount |-> event.joinedCount]
  /\ event.joinedCount \in Nat

InvitationRows ==
  /\ invitation = [i \in Invitation |-> invitation[i]]
  /\ \A i \in Invitation :
       /\ invitation[i] = [by |-> invitation[i].by, to |-> invitation[i].to,
                           status |-> invitation[i].status]
       /\ invitation[i].status # "none" => invitation[i].to \in Person

InvitationShapes ==
  /\ EventRow /\ InvitationRows
  /\ player \in [Person -> {"none", "joined", "cancelled"}]
  /\ asking = [s \in Slot |-> asking[s]]
  /\ \A s \in Slot : IsAsking(asking[s])

\* An acceptance is about its invitation's invitee, of whom it remembers that they
\* were not on the roster; an invitation in flight rests on a friendship, and who is
\* about to leave is on the roster, since nobody ends or leaves the same twice.
AskingHolds ==
  \A s \in Slot :
    /\ asking[s].op \in AcceptOps =>
         /\ asking[s].id \in Invitation
         /\ invitation[asking[s].id].status # "none"
         /\ asking[s].on = invitation[asking[s].id].to
         /\ asking[s].op = "row" => invitation[asking[s].id].status = "ACCEPTED"
         /\ asking[s].op = "claim_only" => player[asking[s].on] # "none"
         /\ asking[s].op \in {"seat", "claim", "row"} => asking[s].had # "joined"
    /\ asking[s].op \in {"join_seat", "join_row", "leave_row"} => asking[s].on \in Person
    /\ asking[s].op = "invite" =>
         /\ asking[s].to \in Person /\ asking[s].on = {asking[s].by, asking[s].to}
         /\ Careful => asking[s].on \in friends
    /\ Careful /\ asking[s].op = "leave_row" =>
         /\ player[asking[s].on] = "joined"
         /\ \A t \in Slot : asking[t].op = "leave_row" /\ asking[t].on = asking[s].on => t = s

\* The counter covers the seats taken, those held for a request, and those given up
\* whose departure is not counted yet.
Owed == {s \in Slot : asking[s].op \in OwedOps}
SeatsCovered ==
  Careful => /\ event.joinedCount >= Cardinality(I!Joined) + Cardinality(Owed)
             /\ event.joinedCount <= Capacity

\* Once an invitation is accepted, its row is there or about to be.
AcceptedSeated ==
  \A i \in Invitation :
    /\ invitation[i].status = "ACCEPTED"
    /\ \A s \in Slot : asking[s].op = "row" => asking[s].id # i
    => player[invitation[i].to] # "none"

\* I!RestsOnFriendship, by invitation.
RestsOn ==
  Careful => \A i \in Invitation : invitation[i].status = "PENDING" =>
    \/ {invitation[i].by, invitation[i].to} \in friends
    \/ \E s \in Slot : asking[s].op = "unfriend"
                          /\ asking[s].on = {invitation[i].by, invitation[i].to}

InvitationInv ==
  InvitationShapes /\ AskingHolds /\ SeatsCovered /\ AcceptedSeated /\ RestsOn

-----------------------------------------------------------------------------
(* Challenges: what they rely on *)

Building == {"event", "type", "link"}

\* A request has what its step needs.
IsCall(r) ==
  \/ r.op = "idle" /\ r = [op |-> "idle"]
  \/ r.op = "create" /\ r = [op |-> r.op, from |-> r.from, to |-> r.to]
  \/ r.op = "respond" /\ r = [op |-> r.op, id |-> r.id, answer |-> r.answer]
  \/ r.op = "event" /\ r = [op |-> r.op, id |-> r.id, group |-> r.group,
                            opponent |-> r.opponent]
  \/ r.op \in {"type", "link"} /\ r = [op |-> r.op, id |-> r.id, event |-> r.event,
                                       opponent |-> r.opponent]
  \/ r.op = "propose" /\ r = [op |-> r.op, id |-> r.id, proposal |-> r.proposal]
  \/ r.op = "assign" /\ r = [op |-> r.op, id |-> r.id]
  \/ r.op = "status" /\ r = [op |-> r.op, id |-> r.id, status |-> r.status,
                             before |-> r.before]

ChallengeShapes ==
  /\ challenge = [c \in ChallengeId |-> challenge[c]]
  /\ \A c \in ChallengeId :
       challenge[c] = [from |-> challenge[c].from, to |-> challenge[c].to,
                       status |-> challenge[c].status, eventId |-> challenge[c].eventId,
                       unread |-> challenge[c].unread]
  /\ match = [e \in EventId |-> match[e]]
  /\ \A e \in EventId :
       match[e] = [type |-> match[e].type, of |-> match[e].of, group |-> match[e].group,
                   opponent |-> match[e].opponent, proposal |-> match[e].proposal,
                   status |-> match[e].status, before |-> match[e].before]
  /\ calling = [s \in Slot |-> calling[s]]
  /\ \A s \in Slot : IsCall(calling[s])

\* Who is about to answer a challenge is alone with it, and it is still open.
Answering ==
  \A s \in Slot : calling[s].op = "respond" =>
    /\ calling[s].id \in ChallengeId /\ challenge[calling[s].id].status = "proposed"
    /\ \A t \in Slot : calling[t].op = "respond" /\ calling[t].id = calling[s].id => t = s

\* Who is making the match of a challenge is alone with it; it is accepted and has
\* no match before the second write, and it does not point at one before the third.
Underway ==
  \A s \in Slot : calling[s].op \in Building =>
    /\ calling[s].id \in ChallengeId
    /\ challenge[calling[s].id].status = "accepted"
    /\ challenge[calling[s].id].eventId = Null
    /\ \A t \in Slot : calling[t].op \in Building /\ calling[t].id = calling[s].id => t = s
    /\ calling[s].op \in {"event", "type"} =>
         \A f \in EventId : match[f].type = "challenge" => match[f].of # calling[s].id
    /\ calling[s].op = "event" =>
         {calling[s].group, calling[s].opponent} =
           {challenge[calling[s].id].from, challenge[calling[s].id].to}

\* The event that is about to become a match is new, and nothing has happened to it.
Newborn ==
  \A s \in Slot : calling[s].op = "type" =>
    /\ calling[s].event \in EventId /\ match[calling[s].event].type = "normal"
    /\ match[calling[s].event].status = "join" /\ match[calling[s].event].before = Null
    /\ {match[calling[s].event].group, calling[s].opponent} =
         {challenge[calling[s].id].from, challenge[calling[s].id].to}
    /\ \A t \in Slot : calling[t].op = "type" /\ calling[t].event = calling[s].event => t = s

EventsBorn ==
  \A e \in EventId :
    /\ match[e].type \in {"none", "normal", "challenge"}
    /\ match[e].type = "normal" =>
         \E s \in Slot : calling[s].op = "type" /\ calling[s].event = e

\* A match is the one of its challenge, as C!OneMatch has it.
Linking ==
  \A s \in Slot : calling[s].op = "link" =>
    /\ calling[s].event \in EventId /\ match[calling[s].event].type = "challenge"
    /\ match[calling[s].event].of = calling[s].id

MatchesOf ==
  \A e \in EventId : match[e].type = "challenge" =>
    /\ match[e].of \in ChallengeId /\ challenge[match[e].of].status = "accepted"
    /\ {match[e].group, match[e].opponent} =
         {challenge[match[e].of].from, challenge[match[e].of].to}
    /\ \/ challenge[match[e].of].eventId = e
       \/ \E s \in Slot : calling[s].op = "link" /\ calling[s].event = e
    /\ \A f \in EventId : match[f].type = "challenge" /\ match[f].of = match[e].of => f = e

PointsBack ==
  \A c \in ChallengeId : challenge[c].eventId # Null =>
    /\ challenge[c].eventId \in EventId /\ match[challenge[c].eventId].type = "challenge"
    /\ match[challenge[c].eventId].of = c

\* Who is about to save a verdict is alone with the proposal, which has none in favour.
Judging ==
  \A s \in Slot : calling[s].op = "propose" =>
    /\ calling[s].id \in EventId /\ match[calling[s].id].type = "challenge"
    /\ match[calling[s].id].proposal # "accepted"
    /\ \A t \in Slot : calling[t].op = "propose" /\ calling[t].id = calling[s].id => t = s

\* What runs on a match, or is about to, waited for the verdict; the rest only calls
\* it off and back.
Waiting ==
  /\ \A e \in squad : /\ e \in EventId /\ match[e].type = "challenge"
                      /\ match[e].proposal = "accepted"
  /\ \A e \in EventId : match[e].type = "challenge" /\ match[e].proposal # "accepted" =>
       match[e].status \in {"join", "cancelled"} /\ match[e].before \in {Null, "join"}
  /\ \A s \in Slot : calling[s].op = "assign" =>
       /\ calling[s].id \in EventId /\ match[calling[s].id].type = "challenge"
       /\ match[calling[s].id].proposal = "accepted"
  /\ \A s \in Slot : calling[s].op = "status" =>
       /\ calling[s].id \in EventId /\ match[calling[s].id].type = "challenge"
       /\ match[calling[s].id].proposal # "accepted" =>
            calling[s].status \in {"join", "cancelled"} /\ calling[s].before \in {Null, "join"}

ChallengeInv ==
  /\ ChallengeShapes /\ Answering /\ Underway /\ Newborn /\ EventsBorn
  /\ Linking /\ MatchesOf /\ PointsBack /\ Judging /\ Waiting

=============================================================================
