---------------------------- MODULE EventRoster ----------------------------
(***************************************************************************)
(* One event's roster and lifecycle (events/events.service.ts): who holds  *)
(* a seat, and the counter Event.joinedCount that is kept beside the       *)
(* roster rows and guards the capacity.  Registered players join and       *)
(* leave, or are assigned to a challenge and answer; walk-ins join a       *)
(* public event; members bring guests whom an organizer judges; organizers *)
(* remove people, edit the event, move its status, cancel and restore it.  *)
(*                                                                         *)
(* Granularity.  A handler is a request that first reads (the guard of the *)
(* action that begins it) and then takes one step per write it awaits: the *)
(* row, the counter, the guests that go along.  MongoDB makes each write   *)
(* atomic and nothing more, so other requests run in between.              *)
(*                                                                         *)
(* Organizers (assertOrganizer) are not told apart: which of them asks     *)
(* leaves no trace.  Reads of one handler that precede its first write are *)
(* merged.  assignPlayers works through its list one player at a time, so  *)
(* each is a request of its own.                                           *)
(***************************************************************************)
EXTENDS Integers, FiniteSets, Functions, EventLifecycle

CONSTANTS Player,      \* registered users
          Manager,     \* those who own or administer the event's group
          GuestId,     \* guest rows (a bound)
          WalkIn,      \* walk-in rows (a bound)
          MaxGuests,   \* MAX_GUESTS_PER_MEMBER
          Kinds,       \* kinds of event explored
          Setting,     \* what an organizer may set: capacity, public, takes guests
          Slot,        \* requests in flight at a time (a bound)
          Exclusive,   \* "person": requests in flight concern different people;
                       \* "event": a request about the event itself runs alone
          Unforeseen,  \* requests the code accepts beyond those its comments expect
          TheEvent,    \* whom the requests about the event itself concern
          Null

ASSUME RosterAssumption ==
  /\ IsFiniteSet(Player) /\ IsFiniteSet(GuestId) /\ IsFiniteSet(WalkIn) /\ IsFiniteSet(Slot)
  /\ Manager \subseteq Player
  /\ MaxGuests \in Nat
  /\ Kinds \subseteq Kind
  /\ Setting \subseteq [maxPlayers : Nat, isPublic : BOOLEAN, isAllowExtraPlayer : BOOLEAN]
  /\ Exclusive \subseteq {"person", "event"}
  /\ Unforeseen \subseteq {"judge_withdrawn", "public_challenge"}
  /\ TheEvent \notin Player \cup WalkIn
  /\ Null \notin Nat \cup Status

VARIABLES
  event,    \* the Event document
  row,      \* EventPlayer rows of registered players: their status
  guest,    \* EventPlayer rows of guests
  walkIn,   \* EventPlayer rows of walk-ins: their status
  request   \* what each request in flight still has to do

store == <<event, row, guest, walkIn>>
vars == <<store, request>>

-----------------------------------------------------------------------------
(* Rows and requests *)

RowStatus == {"none", "joined", "cancelled", "invited"}
NoGuest == [sponsor |-> Null, approval |-> "none", status |-> "none"]
Idle == [op |-> "idle"]

IsChallenge == event.kind = "challenge"
ProposalAccepted == IsChallenge => event.proposal = "accepted"

\* Which requests may overlap is not the code's doing: it has no such locks.
Clear(s, who) ==
  \A t \in Slot \ {s} : request[t] # Idle =>
    /\ "person" \in Exclusive => request[t].on # who \/ who = TheEvent
    /\ "event" \in Exclusive => TheEvent \notin {who, request[t].on}

Begin(s, who, r) ==
  /\ request[s] = Idle /\ Clear(s, who)
  /\ request' = [request EXCEPT ![s] = r]
  /\ UNCHANGED store

At(s, op) == request[s].op = op
Proceed(s, r) == request' = [request EXCEPT ![s] = r]
Finish(s) == Proceed(s, Idle)

-----------------------------------------------------------------------------
(* The counter *)

\* Mutant: the capacity is off by one.
HasRoomForOneMore == event.maxPlayers # Null /\ event.joinedCount <= event.maxPlayers

\* No number is below a null capacity.
HasRoom == event.maxPlayers # Null /\ event.joinedCount < event.maxPlayers

\* A request that has moved a row and has yet to move the counter: by delta,
\* only while registration is open or in any status, with the sponsor's guests
\* to follow or not.
ToCount(who, delta, whileOpen, cascade) ==
  [op |-> "count", on |-> who, delta |-> delta, whileOpen |-> whileOpen,
   cascade |-> cascade]

\* Decrements are guarded against a negative count.
Count(s) ==
  /\ At(s, "count")
  /\ LET r == request[s]
     IN  /\ event' = IF (r.whileOpen => event.status = "join")
                        /\ event.joinedCount + r.delta >= 0
                     THEN [event EXCEPT !.joinedCount = @ + r.delta]
                     ELSE event
         /\ Proceed(s, IF r.cascade THEN [op |-> "cascade", on |-> r.on] ELSE Idle)
  /\ UNCHANGED <<row, guest, walkIn>>

\* The seat is taken by one conditional update, before there is a row for it.
TakeSeat(s, r) ==
  /\ IF CanJoin(event.status) /\ HasRoom
     THEN /\ event' = [event EXCEPT !.joinedCount = @ + 1]
          /\ Proceed(s, r)
     ELSE UNCHANGED event /\ Finish(s)
  /\ UNCHANGED <<row, guest, walkIn>>

-----------------------------------------------------------------------------
(* join *)

JoinRead(s, p) ==
  /\ ~IsChallenge
  /\ row[p] # "joined"
  /\ Begin(s, p, [op |-> "join_seat", on |-> p, had |-> row[p]])

JoinSeat(s) ==
  /\ At(s, "join_seat")
  /\ TakeSeat(s, [request[s] EXCEPT !.op = "join_row"])

\* The cancelled row that was read is reactivated; otherwise a row is created,
\* which the unique index refuses, seat taken, if another request did so first.
JoinRow(s) ==
  /\ At(s, "join_row")
  /\ LET r == request[s]
     IN  row' = [row EXCEPT ![r.on] =
                   IF r.had = "cancelled" \/ @ = "none" THEN "joined" ELSE @]
  /\ Finish(s)
  /\ UNCHANGED <<event, guest, walkIn>>

-----------------------------------------------------------------------------
(* leave, removePlayer *)

MayLeave(p) == CanLeave(event.status) /\ row[p] = "joined"

LeaveRead(s, p) ==
  /\ ~IsChallenge /\ MayLeave(p)
  /\ Begin(s, p, [op |-> "leave", on |-> p])

\* Mutant: a player is removed whatever the lifecycle says.
MayRemoveAnytime(p) == row[p] = "joined"

MayRemove(p) == CanLeave(event.status) /\ row[p] = "joined"

RemoveRead(s, p) ==
  /\ MayRemove(p)
  /\ Begin(s, p, [op |-> "leave", on |-> p])

LeaveRow(s) ==
  /\ At(s, "leave")
  /\ row' = [row EXCEPT ![request[s].on] = "cancelled"]
  /\ Proceed(s, ToCount(request[s].on, -1, TRUE, TRUE))
  /\ UNCHANGED <<event, guest, walkIn>>

-----------------------------------------------------------------------------
(* Guests *)

Joined(g) == guest[g].status = "joined"

\* Mutant: only the guests who were let in go with their sponsor.
ApprovedGuestsOf(p) ==
  {g \in GuestId : guest[g].sponsor = p /\ Joined(g) /\ guest[g].approval = "approved"}

GuestsOf(p) == {g \in GuestId : guest[g].sponsor = p /\ Joined(g)}

SeatsOf(gs) == Cardinality({g \in gs : guest[g].approval = "approved"})

\* cancelGuestRows, on the rows as they were read.
WithdrawGuests(who, gs) ==
  [op |-> "withdraw", on |-> who, guests |-> gs, seats |-> SeatsOf(gs)]

\* cascadeGuestsOfSponsor.
Cascade(s) ==
  /\ At(s, "cascade")
  /\ LET gs == GuestsOf(request[s].on)
     IN  Proceed(s, IF gs = {} THEN Idle ELSE WithdrawGuests(request[s].on, gs))
  /\ UNCHANGED store

Withdraw(s) ==
  /\ At(s, "withdraw")
  /\ LET r == request[s]
     IN  /\ guest' = [g \in GuestId |->
                        IF g \in r.guests THEN [guest[g] EXCEPT !.status = "cancelled"]
                        ELSE guest[g]]
         /\ Proceed(s, IF r.seats > 0 THEN ToCount(r.on, -r.seats, FALSE, FALSE) ELSE Idle)
  /\ UNCHANGED <<event, row, walkIn>>

\* Mutant: a guest who is no longer on the roster is withdrawn again.
RemoveGuestAgain(s, g) ==
  /\ guest[g] # NoGuest
  /\ Begin(s, guest[g].sponsor, WithdrawGuests(guest[g].sponsor, {g}))

RemoveGuest(s, g) ==
  /\ Joined(g)
  /\ Begin(s, guest[g].sponsor, WithdrawGuests(guest[g].sponsor, {g}))

\* Who manages the group brings guests without an allowance.
WithinAllowance(p) ==
  \/ p \in Manager
  \/ Cardinality({g \in GuestsOf(p) : guest[g].approval # "rejected"}) < MaxGuests

FreeGuestIds == {g \in GuestId : guest[g] = NoGuest}
AddingGuests == {s \in Slot : At(s, "add_guest")}

AddGuestRead(s, p) ==
  /\ ~IsChallenge /\ CanJoin(event.status) /\ event.isAllowExtraPlayer
  /\ row[p] = "joined" /\ WithinAllowance(p)
  /\ Cardinality(AddingGuests) < Cardinality(FreeGuestIds)
  /\ Begin(s, p, [op |-> "add_guest", on |-> p])

AddGuest(s) ==
  /\ At(s, "add_guest")
  /\ \E g \in FreeGuestIds :
       guest' = [guest EXCEPT ![g] = [sponsor |-> request[s].on, approval |-> "pending",
                                      status |-> "joined"]]
  /\ Finish(s)
  /\ UNCHANGED <<event, row, walkIn>>

\* setGuestApproval asks for the row's id, not for its status, and not for the
\* event's either.
JudgeRead(s, g, verdict) ==
  /\ guest[g] # NoGuest /\ guest[g].approval # verdict
  /\ ~Joined(g) => "judge_withdrawn" \in Unforeseen
  /\ Begin(s, guest[g].sponsor,
           [op |-> "judge", on |-> guest[g].sponsor, guest |-> g,
            was |-> guest[g].approval, verdict |-> verdict])

\* Into and out of approved the counter follows; capacity does not refuse.
Judge(s) ==
  /\ At(s, "judge")
  /\ LET r == request[s]
     IN  /\ guest' = [guest EXCEPT ![r.guest].approval = r.verdict]
         /\ Proceed(s, CASE r.verdict = "approved" -> ToCount(r.on, 1, FALSE, FALSE)
                         [] r.verdict # "approved" /\ r.was = "approved" ->
                              ToCount(r.on, -1, FALSE, FALSE)
                         [] OTHER -> Idle)
  /\ UNCHANGED <<event, row, walkIn>>

-----------------------------------------------------------------------------
(* joinAnonymous, removeAnonymous *)

WalkInRead(s, w) ==
  /\ event.isPublic
  /\ walkIn[w] = "none" /\ \A t \in Slot : request[t] # Idle => request[t].on # w
  /\ Begin(s, w, [op |-> "walk_in_seat", on |-> w])

WalkInSeat(s) ==
  /\ At(s, "walk_in_seat")
  /\ TakeSeat(s, [request[s] EXCEPT !.op = "walk_in_row"])

WalkInRow(s) ==
  /\ At(s, "walk_in_row")
  /\ walkIn' = [walkIn EXCEPT ![request[s].on] = "joined"]
  /\ Finish(s)
  /\ UNCHANGED <<event, row, guest>>

RemoveWalkIn(s, w) ==
  /\ walkIn[w] = "joined"
  /\ Begin(s, w, [op |-> "walk_in_out", on |-> w])

WalkInOut(s) ==
  /\ At(s, "walk_in_out")
  /\ walkIn' = [walkIn EXCEPT ![request[s].on] = "cancelled"]
  /\ Proceed(s, ToCount(request[s].on, -1, FALSE, FALSE))
  /\ UNCHANGED <<event, row, guest>>

-----------------------------------------------------------------------------
(* Challenges: assignPlayers, respondInvitation, unassignPlayer *)

MayAssign(p) ==
  /\ IsChallenge /\ ProposalAccepted /\ CanJoin(event.status)
  /\ row[p] \notin {"joined", "invited"}

AssignRead(s, p) ==
  /\ MayAssign(p)
  /\ Begin(s, p, [op |-> "assign", on |-> p, had |-> row[p]])

Assign(s) ==
  /\ At(s, "assign")
  /\ LET r == request[s]
     IN  row' = [row EXCEPT ![r.on] =
                   IF r.had = "cancelled" \/ @ = "none" THEN "invited" ELSE @]
  /\ Finish(s)
  /\ UNCHANGED <<event, guest, walkIn>>

RespondRead(s, p, accept) ==
  /\ IsChallenge /\ row[p] = "invited"
  /\ Begin(s, p, [op |-> "respond", on |-> p, accept |-> accept])

Respond(s) ==
  /\ At(s, "respond")
  /\ LET r == request[s]
     IN  /\ row' = [row EXCEPT ![r.on] = IF r.accept THEN "joined" ELSE "cancelled"]
         /\ Proceed(s, IF r.accept THEN ToCount(r.on, 1, FALSE, FALSE) ELSE Idle)
  /\ UNCHANGED <<event, guest, walkIn>>

UnassignRead(s, p) ==
  /\ IsChallenge /\ row[p] \in {"joined", "invited"}
  /\ Begin(s, p, [op |-> "unassign", on |-> p, had |-> row[p]])

Unassign(s) ==
  /\ At(s, "unassign")
  /\ LET r == request[s]
     IN  /\ row' = [row EXCEPT ![r.on] = "cancelled"]
         /\ Proceed(s, IF r.had = "joined" THEN ToCount(r.on, -1, FALSE, FALSE) ELSE Idle)
  /\ UNCHANGED <<event, guest, walkIn>>

-----------------------------------------------------------------------------
(* The event itself: each handler loads it, decides, and saves the fields it  *)
(* changed, whatever the document has become meanwhile.                       *)

Save(s, changed) ==
  /\ event' = changed
  /\ Finish(s)
  /\ UNCHANGED <<row, guest, walkIn>>

\* reviewProposal by the other side; resubmitProposal by an organizer.
ProposalRead(s, verdict) ==
  /\ IsChallenge
  /\ event.proposal = IF verdict = "proposed" THEN "rejected" ELSE "proposed"
  /\ Begin(s, TheEvent, [op |-> "proposal", on |-> TheEvent, to |-> verdict])

ProposalSave(s) ==
  /\ At(s, "proposal")
  /\ Save(s, [event EXCEPT !.proposal = request[s].to])

SetStatusRead(s, to) ==
  /\ ProposalAccepted
  /\ to # "cancelled" /\ CanTransition(event.kind, event.status, to)
  /\ Begin(s, TheEvent, [op |-> "status", on |-> TheEvent, to |-> to])

SetStatusSave(s) ==
  /\ At(s, "status")
  /\ Save(s, [event EXCEPT !.status = request[s].to])

CancelRead(s) ==
  /\ CanTransition(event.kind, event.status, "cancelled")
  /\ Begin(s, TheEvent, [op |-> "cancel", on |-> TheEvent, was |-> event.status])

CancelSave(s) ==
  /\ At(s, "cancel")
  /\ Save(s, [event EXCEPT !.statusBeforeCancel = request[s].was,
                           !.status = "cancelled",
                           !.cancelReason = TRUE])

RestoredStatus(before) == IF before = Null THEN "join" ELSE before

\* The creator's weekly plan may refuse: then the request never begins.
RestoreRead(s) ==
  /\ event.status = "cancelled"
  /\ Begin(s, TheEvent, [op |-> "restore", on |-> TheEvent,
                         to |-> RestoredStatus(event.statusBeforeCancel)])

\* Mutant: the record of the cancellation stays.
RestoredOnly(to) == [event EXCEPT !.status = to, !.statusBeforeCancel = Null]

Restored(to) ==
  [event EXCEPT !.status = to, !.statusBeforeCancel = Null, !.cancelReason = FALSE]

RestoreSave(s) == At(s, "restore") /\ Save(s, Restored(request[s].to))

\* PATCH /events/:id: the type of the event is not looked at.
UpdateRead(s, st) ==
  /\ CanModify(event.status)
  /\ IsChallenge /\ st.isPublic => "public_challenge" \in Unforeseen
  /\ Begin(s, TheEvent, [op |-> "update", on |-> TheEvent, to |-> st])

UpdateSave(s) ==
  /\ At(s, "update")
  /\ LET st == request[s].to
     IN  Save(s, [event EXCEPT !.maxPlayers = st.maxPlayers, !.isPublic = st.isPublic,
                               !.isAllowExtraPlayer = st.isAllowExtraPlayer])

\* applyGroupSportType: the group's new sport has the other table.
ChangeSport ==
  /\ ~IsChallenge
  /\ {"match", "no_match"} \subseteq Kinds
  /\ event' = [event EXCEPT !.kind = IF @ = "match" THEN "no_match" ELSE "match"]
  /\ UNCHANGED <<row, guest, walkIn, request>>

-----------------------------------------------------------------------------
\* A new event (create, createChallengeEvent), or one that was cancelled before
\* cancellations recorded where they came from.
Init ==
  /\ \E kind \in Kinds, st \in Setting, legacy \in BOOLEAN :
       /\ kind = "challenge" => ~st.isPublic
       /\ event \in [kind : {kind},
                     status : {IF legacy THEN "cancelled" ELSE "join"},
                     statusBeforeCancel : {Null},
                     cancelReason : {legacy},
                     proposal : {IF kind = "challenge" THEN "proposed" ELSE "none"},
                     maxPlayers : {st.maxPlayers} \cup
                                  (IF kind = "challenge" THEN {Null} ELSE {}),
                     isPublic : {st.isPublic},
                     isAllowExtraPlayer : {st.isAllowExtraPlayer},
                     joinedCount : {0}]
  /\ row = [p \in Player |-> "none"]
  /\ guest = [g \in GuestId |-> NoGuest]
  /\ walkIn = [w \in WalkIn |-> "none"]
  /\ request = [s \in Slot |-> Idle]

Players ==
  \E s \in Slot :
    \/ \E p \in Player : JoinRead(s, p) \/ LeaveRead(s, p) \/ RemoveRead(s, p)
    \/ JoinSeat(s) \/ JoinRow(s) \/ LeaveRow(s) \/ Cascade(s) \/ Count(s)

Guests ==
  \E s \in Slot :
    \/ \E p \in Player : AddGuestRead(s, p)
    \/ \E g \in GuestId : RemoveGuest(s, g)
    \/ \E g \in GuestId, verdict \in {"approved", "rejected"} : JudgeRead(s, g, verdict)
    \/ AddGuest(s) \/ Withdraw(s) \/ Judge(s)

WalkIns ==
  \E s \in Slot :
    \/ \E w \in WalkIn : WalkInRead(s, w) \/ RemoveWalkIn(s, w)
    \/ WalkInSeat(s) \/ WalkInRow(s) \/ WalkInOut(s)

Challenges ==
  \E s \in Slot :
    \/ \E p \in Player : AssignRead(s, p) \/ UnassignRead(s, p)
    \/ \E p \in Player, accept \in BOOLEAN : RespondRead(s, p, accept)
    \/ \E verdict \in {"proposed", "accepted", "rejected"} : ProposalRead(s, verdict)
    \/ Assign(s) \/ Respond(s) \/ Unassign(s) \/ ProposalSave(s)

Organizers ==
  \/ \E s \in Slot :
       \/ \E to \in Status : SetStatusRead(s, to)
       \/ \E st \in Setting : UpdateRead(s, st)
       \/ CancelRead(s) \/ RestoreRead(s)
       \/ SetStatusSave(s) \/ UpdateSave(s) \/ CancelSave(s) \/ RestoreSave(s)
  \/ ChangeSport

Next == Players \/ Guests \/ WalkIns \/ Challenges \/ Organizers

Spec == Init /\ [][Next]_vars

-----------------------------------------------------------------------------
(* Types *)

Person == Player \cup WalkIn
Request ==
  {Idle}
  \cup [op : {"leave", "cascade", "add_guest"}, on : Player]
  \cup [op : {"walk_in_seat", "walk_in_row", "walk_in_out"}, on : WalkIn]
  \cup [op : {"join_seat", "join_row", "assign", "unassign"}, on : Player, had : RowStatus]
  \cup [op : {"count"}, on : Person, delta : Int, whileOpen : {FALSE}, cascade : {FALSE}]
  \cup [op : {"count"}, on : Player, delta : {-1}, whileOpen : {TRUE}, cascade : {TRUE}]
  \cup [op : {"withdraw"}, on : Player, guests : SUBSET GuestId, seats : Nat]
  \cup [op : {"judge"}, on : Player, guest : GuestId,
        was : {"pending", "approved", "rejected"}, verdict : {"approved", "rejected"}]
  \cup [op : {"respond"}, on : Player, accept : BOOLEAN]
  \cup [op : {"proposal"}, on : {TheEvent}, to : {"proposed", "accepted", "rejected"}]
  \cup [op : {"status", "restore"}, on : {TheEvent}, to : Status \ {"cancelled"}]
  \cup [op : {"cancel"}, on : {TheEvent}, was : Status \ {"cancelled"}]
  \cup [op : {"update"}, on : {TheEvent}, to : Setting]

TypeOK ==
  /\ event \in [kind : Kind, status : Status,
                statusBeforeCancel : (Status \ {"cancelled"}) \cup {Null},
                cancelReason : BOOLEAN,
                proposal : {"none", "proposed", "accepted", "rejected"},
                maxPlayers : Nat \cup {Null}, isPublic : BOOLEAN,
                isAllowExtraPlayer : BOOLEAN, joinedCount : Nat]
  /\ row \in [Player -> RowStatus]
  /\ guest \in [GuestId -> [sponsor : Player, approval : {"pending", "approved", "rejected"},
                            status : {"joined", "cancelled"}] \cup {NoGuest}]
  /\ walkIn \in [WalkIn -> {"none", "joined", "cancelled"}]
  /\ request \in [Slot -> Request]

-----------------------------------------------------------------------------
(* Seats *)

OnRoster == {p \in Player : row[p] = "joined"}
GuestsIn == {g \in GuestId : Joined(g) /\ guest[g].approval = "approved"}
WalkInsIn == {w \in WalkIn : walkIn[w] = "joined"}
Seated == Cardinality(OnRoster) + Cardinality(GuestsIn) + Cardinality(WalkInsIn)

\* Seats taken by requests that have yet to write the row.
Reserved == Cardinality({s \in Slot : request[s].op \in {"join_row", "walk_in_row"}})

\* Moves of the counter that lag behind the rows.
Lag == SumFunctionOnSet([s \in Slot |-> IF At(s, "count") THEN request[s].delta ELSE 0], Slot)

\* joinedCount is the roster: with what is in flight accounted for, the counter
\* that guards the capacity is the number of people with a seat, whoever joins,
\* leaves, is removed, judged, withdrawn or restored in whichever order; and
\* every document stays of its type, the counter a number that is not negative.
SeatsConserved ==
  /\ TypeOK
  /\ event.joinedCount + Lag = Seated + Reserved

\* The counter that guards the capacity never falls short of the seats in use,
\* also while the status changes, and is cancelled and restored, under requests
\* that have moved a row and not yet the counter: then it errs by counting too
\* many, never by offering a seat that is taken.
SeatsNeverShort == event.joinedCount + Lag >= Seated + Reserved

\* The same while nothing is in flight: what event detail shows is true
\* (findById: "`joinedCount` says how many people joined").
AllIdle == \A s \in Slot : request[s] = Idle
CountMatchesRoster == AllIdle => event.joinedCount = Seated

\* The capacity update admits nobody past the cap: members, walk-ins and those
\* on their way in never exceed the largest capacity the event has had.
\* (Approved guests may, by decision; challenges have no cap.)
LargestCap == CHOOSE n \in {st.maxPlayers : st \in Setting} :
                \A st \in Setting : st.maxPlayers <= n
NeverOversold ==
  ~IsChallenge => Cardinality(OnRoster) + Cardinality(WalkInsIn) + Reserved <= LargestCap

\* The counter guards the capacity under every overlap: it is never short of the
\* seats in use, and nobody is admitted past the cap.
CapacityGuarded == SeatsNeverShort /\ NeverOversold

\* A guest is somebody's plus-one: none stays on the roster without the sponsor
\* on it, except while the request that takes the sponsor off is under way
\* (cascadeGuestsOfSponsor: "Leaving them on the roster would quietly convert
\* them into an unattached player").
Leaving(p) ==
  \E s \in Slot : request[s] # Idle /\ request[s].on = p /\ request[s].op # "join_seat"
GuestsHaveSponsors ==
  \A g \in GuestId : Joined(g) => row[guest[g].sponsor] = "joined" \/ Leaving(guest[g].sponsor)

-----------------------------------------------------------------------------
(* Lifecycle *)

\* A challenge the other group has not accepted has nobody on it and runs no
\* lifecycle (assertProposalAccepted: "the match only exists on paper, so
\* nothing downstream (roster, teams, shuffle, lifecycle) may run").
OnPaper ==
  IsChallenge /\ event.proposal # "accepted" =>
    Seated + Reserved = 0 /\ event.status \in {"join", "cancelled"}

\* The reason is there exactly while the event is cancelled (restore: 'so the
\* "cancelReason exists iff cancelled" invariant holds'), what a restore would
\* go back to is a status a cancellation may leave, and a challenge that is
\* still on paper has neither a roster nor a lifecycle.
CancelRecord ==
  /\ event.status = "cancelled" <=> event.cancelReason
  /\ event.statusBeforeCancel # Null =>
       /\ event.status = "cancelled"
       /\ CanTransition(event.kind, event.statusBeforeCancel, "cancelled")
  /\ OnPaper

\* A match that was played stays played (events.lifecycle.ts: "that history
\* must not be erasable"; "archival is terminal").
PlayedStays ==
  /\ event.status = "done" => event'.status = "done"
  /\ event.status = "after_match" => event'.status \in {"after_match", "done"}

\* Once registration has closed, nobody joins or leaves a self-join event: the
\* teams and fixtures built from the roster stay about the same people
\* (removePlayer: "Past that point teams and fixtures reference the roster").
RosterFrozen == ~IsChallenge /\ event.status # "join" => UNCHANGED row

\* What the lifecycle closed stays closed: history, and the roster it was about.
HistoryStays == [][PlayedStays /\ RosterFrozen]_vars

=============================================================================
