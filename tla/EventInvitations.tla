-------------------------- MODULE EventInvitations --------------------------
(***************************************************************************)
(* Friends who invite friends to one event                                 *)
(* (friends/event-invitations.service.ts), with what an acceptance meets   *)
(* there: the event's seats, the invitee's own join and leave              *)
(* (EventsService), the organizer who closes it, and the end of a          *)
(* friendship, which takes the invitations between the two along           *)
(* (FriendsService.unfriend).  How friendships come about is in Friendship.*)
(*                                                                         *)
(* accept takes a seat, claims the invitation and writes the roster row,   *)
(* one step each, and gives the seat back when the claim or the row fails. *)
(***************************************************************************)
EXTENDS Integers, FiniteSets

CONSTANTS User, Organizer,
          Invitation,   \* EventInvitation rows over time (a bound)
          Capacity,     \* the event's maxPlayers
          Slot,         \* requests in flight at a time (a bound)
          Careful,      \* two departures of one person do not overlap, nor an
                        \* invitation and the end of the friendship it rests on
          Null

VARIABLES
  event,       \* the Event document: status, whether it has started, joinedCount
  row,         \* EventPlayer rows: their status
  friends,     \* accepted friendships, as sets of two users
  invitation,  \* EventInvitation rows
  request      \* what each request in flight still has to do

store == <<event, row, friends, invitation>>
vars == <<store, request>>

-----------------------------------------------------------------------------
NoInvitation == [by |-> Null, to |-> Null, status |-> "none"]
Pending == {i \in Invitation : invitation[i].status = "PENDING"}

\* isEventOpen, of an event that is no challenge
Open == event.status = "join" /\ ~event.started
HasRoom == event.joinedCount < Capacity
Joined == {u \in User : row[u] = "joined"}

Idle == [op |-> "idle"]
At(s, op) == request[s].op = op
Proceed(s, r) == request' = [request EXCEPT ![s] = r]
Advance(s, op) == Proceed(s, [request[s] EXCEPT !.op = op])
Finish(s) == Proceed(s, Idle)
Begin(s, r) == request[s] = Idle /\ Proceed(s, r) /\ UNCHANGED store

Overlaps(s, op, who) == Careful /\ \E t \in Slot \ {s} : At(t, op) /\ request[t].on = who

\* setStatus: from PENDING only.
Settle(i, status) ==
  invitation' = IF i \in Pending THEN [invitation EXCEPT ![i].status = status] ELSE invitation

-----------------------------------------------------------------------------
(* invite *)

TakesPart(u) == u = Organizer \/ row[u] = "joined"
PendingFor(u) == {i \in Pending : invitation[i].to = u}

Invite(s, u, v) ==
  /\ TakesPart(u) /\ Open
  /\ {u, v} \in friends /\ row[v] # "joined" /\ PendingFor(v) = {} /\ HasRoom
  /\ ~Overlaps(s, "unfriend", {u, v})
  /\ Begin(s, [op |-> "invite", on |-> {u, v}, by |-> u, to |-> v])

\* One invitation per event and invitee may be pending (unique index).
CreateInvitation(s) ==
  /\ At(s, "invite")
  /\ LET q == request[s]
     IN  IF PendingFor(q.to) # {} THEN UNCHANGED invitation
         ELSE \E i \in Invitation :
                /\ invitation[i].status = "none"
                /\ invitation' = [invitation EXCEPT ![i] = [by |-> q.by, to |-> q.to,
                                                            status |-> "PENDING"]]
  /\ Finish(s) /\ UNCHANGED <<event, row, friends>>

-----------------------------------------------------------------------------
(* accept *)

Accept(s, i) ==
  /\ i \in Pending
  /\ LET u == invitation[i].to
         op == IF ~Open THEN "expire" ELSE IF row[u] = "joined" THEN "claim_only" ELSE "seat"
     IN  Begin(s, [op |-> op, on |-> u, id |-> i, had |-> row[u]])

Expire(s) ==
  /\ At(s, "expire") /\ Settle(request[s].id, "EXPIRED")
  /\ Finish(s) /\ UNCHANGED <<event, row, friends>>

ClaimOnly(s) ==
  /\ At(s, "claim_only") /\ Settle(request[s].id, "ACCEPTED")
  /\ Finish(s) /\ UNCHANGED <<event, row, friends>>

\* The seat is taken by one conditional update, which does not look at the time.
Seat(s) ==
  /\ At(s, "seat")
  /\ IF event.status = "join" /\ HasRoom
     THEN event' = [event EXCEPT !.joinedCount = @ + 1] /\ Advance(s, "claim")
     ELSE UNCHANGED event /\ IF Open THEN Finish(s) ELSE Advance(s, "expire")
  /\ UNCHANGED <<row, friends, invitation>>

\* Mutant: the row is written whether or not the claim succeeded.
ClaimAnyway(s) == Settle(request[s].id, "ACCEPTED") /\ Advance(s, "row")
ClaimOrUnseat(s) ==
  /\ Settle(request[s].id, "ACCEPTED")
  /\ Advance(s, IF request[s].id \in Pending THEN "row" ELSE "unseat")

Claim(s) == At(s, "claim") /\ ClaimOrUnseat(s) /\ UNCHANGED <<event, row, friends>>

\* The row that was read is reactivated; otherwise one is created, which the unique
\* index refuses if the invitee joined meanwhile.
PutRow(s) ==
  /\ At(s, "row")
  /\ LET q == request[s]
     IN  IF q.had = "cancelled" \/ row[q.on] = "none"
         THEN row' = [row EXCEPT ![q.on] = "joined"] /\ Finish(s)
         ELSE UNCHANGED row /\ Advance(s, "unseat")
  /\ UNCHANGED <<event, friends, invitation>>

GiveBack == IF event.joinedCount > 0 THEN event.joinedCount - 1 ELSE 0

Unseat(s) ==
  /\ At(s, "unseat")
  /\ event' = [event EXCEPT !.joinedCount = GiveBack]
  /\ Finish(s) /\ UNCHANGED <<row, friends, invitation>>

-----------------------------------------------------------------------------
(* decline, revoke, expireClosed *)

Answer(i, status) ==
  /\ i \in Pending /\ Settle(i, status)
  /\ UNCHANGED <<event, row, friends, request>>

\* When the invitee reads the list of the invitations received.
ExpireClosed(u) ==
  /\ ~Open /\ PendingFor(u) # {}
  /\ invitation' = [i \in Invitation |-> IF i \in PendingFor(u)
                                         THEN [invitation[i] EXCEPT !.status = "EXPIRED"]
                                         ELSE invitation[i]]
  /\ UNCHANGED <<event, row, friends, request>>

-----------------------------------------------------------------------------
(* Friendships *)

Befriend(u, v) ==
  /\ u # v /\ {u, v} \notin friends
  /\ friends' = friends \cup {{u, v}} /\ UNCHANGED <<event, row, invitation, request>>

Unfriend(s, u, v) ==
  /\ {u, v} \in friends /\ request[s] = Idle /\ ~Overlaps(s, "invite", {u, v})
  /\ friends' = friends \ {{u, v}}
  /\ Proceed(s, [op |-> "unfriend", on |-> {u, v}])
  /\ UNCHANGED <<event, row, invitation>>

Between(i, pair) == {invitation[i].by, invitation[i].to} = pair

RevokeBetween(s) ==
  /\ At(s, "unfriend")
  /\ invitation' = [i \in Invitation |-> IF i \in Pending /\ Between(i, request[s].on)
                                         THEN [invitation[i] EXCEPT !.status = "REVOKED"]
                                         ELSE invitation[i]]
  /\ Finish(s) /\ UNCHANGED <<event, row, friends>>

-----------------------------------------------------------------------------
(* The event: join, leave, setStatus, and time *)

Join(s, u) == row[u] # "joined" /\ Begin(s, [op |-> "join_seat", on |-> u, had |-> row[u]])

JoinSeat(s) ==
  /\ At(s, "join_seat")
  /\ IF event.status = "join" /\ HasRoom
     THEN event' = [event EXCEPT !.joinedCount = @ + 1] /\ Advance(s, "join_row")
     ELSE UNCHANGED event /\ Finish(s)
  /\ UNCHANGED <<row, friends, invitation>>

\* Unlike accept, join keeps the seat when the row turns out to be there.
JoinRow(s) ==
  /\ At(s, "join_row")
  /\ LET q == request[s]
     IN  row' = [row EXCEPT ![q.on] = IF q.had = "cancelled" \/ @ = "none" THEN "joined" ELSE @]
  /\ Finish(s) /\ UNCHANGED <<event, friends, invitation>>

Leave(s, u) ==
  /\ event.status = "join" /\ row[u] = "joined"
  /\ ~Overlaps(s, "leave_row", u) /\ ~Overlaps(s, "leave_count", u)
  /\ Begin(s, [op |-> "leave_row", on |-> u])

LeaveRow(s) ==
  /\ At(s, "leave_row")
  /\ row' = [row EXCEPT ![request[s].on] = "cancelled"]
  /\ Advance(s, "leave_count") /\ UNCHANGED <<event, friends, invitation>>

LeaveCount(s) ==
  /\ At(s, "leave_count")
  /\ event' = IF event.status = "join" THEN [event EXCEPT !.joinedCount = GiveBack] ELSE event
  /\ Finish(s) /\ UNCHANGED <<row, friends, invitation>>

SetStatus(status) ==
  /\ event.status # status /\ event' = [event EXCEPT !.status = status]
  /\ UNCHANGED <<row, friends, invitation, request>>

Starts ==
  /\ ~event.started /\ event' = [event EXCEPT !.started = TRUE]
  /\ UNCHANGED <<row, friends, invitation, request>>

-----------------------------------------------------------------------------
Init ==
  /\ event = [status |-> "join", started |-> FALSE, joinedCount |-> 0]
  /\ row = [u \in User |-> "none"]
  /\ friends = {}
  /\ invitation = [i \in Invitation |-> NoInvitation]
  /\ request = [s \in Slot |-> Idle]

Next ==
  \/ \E s \in Slot :
       \/ CreateInvitation(s) \/ Expire(s) \/ ClaimOnly(s) \/ Seat(s) \/ Claim(s) \/ PutRow(s)
       \/ Unseat(s) \/ RevokeBetween(s) \/ JoinSeat(s) \/ JoinRow(s) \/ LeaveRow(s) \/ LeaveCount(s)
       \/ \E i \in Invitation : Accept(s, i)
       \/ \E u \in User : Join(s, u) \/ Leave(s, u)
       \/ \E u, v \in User : Invite(s, u, v) \/ Unfriend(s, u, v)
  \/ \E i \in Invitation, status \in {"DECLINED", "REVOKED"} : Answer(i, status)
  \/ \E u \in User : ExpireClosed(u)
  \/ \E u, v \in User : Befriend(u, v)
  \/ \E status \in {"join", "preparation"} : SetStatus(status)
  \/ Starts

Spec == Init /\ [][Next]_vars

-----------------------------------------------------------------------------
(* Properties *)

Holding(s) == request[s].op \in {"claim", "row", "unseat", "join_row"}

\* The counter is never short of the seats in use or promised: acceptances, which
\* may come while the invitee joins on their own, give back their own seat and
\* only that; so nobody is seated beyond the capacity.
SeatsPromised ==
  /\ event.joinedCount >= Cardinality(Joined) + Cardinality({s \in Slot : Holding(s)})
  /\ event.joinedCount <= Capacity

\* Whoever's invitation counts as accepted got onto the roster, even if they left
\* again, once the acceptance has returned (and no write of it failed); and one that
\* was declined or revoked while it was being accepted puts nobody there.
AcceptedGotIn ==
  /\ \A s \in Slot : At(s, "row") => invitation[request[s].id].status = "ACCEPTED"
  /\ \A i \in Invitation :
       /\ invitation[i].status = "ACCEPTED"
       /\ \A s \in Slot : request[s].op \in {"claim", "row"} => request[s].id # i
       => row[invitation[i].to] # "none"

\* A pending invitation rests on a friendship, until the end of it has been dealt
\* with ("A confirmed friendship is the only thing an invitation needs",
\* event-invitations.service.ts:42).
RestsOnFriendship ==
  Careful => \A i \in Pending :
    {invitation[i].by, invitation[i].to} \in
      friends \cup {request[s].on : s \in {t \in Slot : At(t, "unfriend")}}

InvitationsSound == SeatsPromised /\ AcceptedGotIn /\ RestsOnFriendship

=============================================================================
