-------------------------- MODULE EventRosterProofs --------------------------
(***************************************************************************)
(* What the event roster keeps to, for every number of players, guests,    *)
(* walk-ins and requests in flight.                                        *)
(*                                                                         *)
(* Types: what a step of Next is (a request begins, or goes on), what each *)
(* request carries and has just read when it begins, and where the         *)
(* lifecycle's tables lead.                                                *)
(*                                                                         *)
(* The seats.  The argument has two parts.  Reads: what a request read     *)
(* about its person still holds when it acts on it, because requests in    *)
(* flight are about different people (OnlyAbout says what a step leaves    *)
(* alone, ReadsStep that it then keeps Reads).                             *)
(* Balance: a step moves the counter, what is owed to it, the rows and the *)
(* reserved seats by amounts that cancel (Tally), except for a move        *)
(* downwards that is skipped; and those still owed a higher count have     *)
(* seats (LagBound).                                                       *)
(*                                                                         *)
(* Then the lifecycle, and the counter while it moves.  Requests about the *)
(* event itself run alone, so that what such a request read (EventFits)    *)
(* still holds when it saves, and registration stays open while a row      *)
(* written under it has yet to be counted.  CancelStaysRecorded and        *)
(* HistoryIsKept need nothing about requests of people;                    *)
(* SeatsStayConserved adds the seats: no move of the counter is skipped.   *)
(***************************************************************************)
EXTENDS EventRoster, SumLemmas

-----------------------------------------------------------------------------
(* Steps *)

\* A request begins: it has read, and nothing is written yet.
Opens(s, r) ==
  /\ request[s] = Idle /\ Clear(s, r.on)
  /\ Proceed(s, r)
  /\ UNCHANGED store

\* A request begins, by the handler.
Reading ==
  \E s \in Slot :
    \/ \E p \in Player :
         \/ JoinRead(s, p) \/ LeaveRead(s, p) \/ RemoveRead(s, p) \/ AddGuestRead(s, p)
         \/ AssignRead(s, p) \/ UnassignRead(s, p)
         \/ \E accept \in BOOLEAN : RespondRead(s, p, accept)
    \/ \E g \in GuestId : RemoveGuest(s, g)
    \/ \E g \in GuestId, verdict \in {"approved", "rejected"} : JudgeRead(s, g, verdict)
    \/ \E w \in WalkIn : WalkInRead(s, w) \/ RemoveWalkIn(s, w)
    \/ \E verdict \in {"proposed", "accepted", "rejected"} : ProposalRead(s, verdict)
    \/ \E to \in Status : SetStatusRead(s, to)
    \/ \E st \in Setting : UpdateRead(s, st)
    \/ CancelRead(s) \/ RestoreRead(s)

\* A request goes on, by the handler.
Writing(s) ==
  \/ JoinSeat(s) \/ JoinRow(s) \/ LeaveRow(s) \/ Cascade(s) \/ Count(s)
  \/ AddGuest(s) \/ Withdraw(s) \/ Judge(s)
  \/ WalkInSeat(s) \/ WalkInRow(s) \/ WalkInOut(s)
  \/ Assign(s) \/ Respond(s) \/ Unassign(s)
  \/ ProposalSave(s) \/ SetStatusSave(s) \/ UpdateSave(s) \/ CancelSave(s) \/ RestoreSave(s)

\* Every step begins a request, takes one further, or changes the sport.
LEMMA NextSteps == Next <=> Reading \/ (\E s \in Slot : Writing(s)) \/ ChangeSport
BY ZenonT(60) DEF Next, Players, Guests, WalkIns, Challenges, Organizers, Reading, Writing

-----------------------------------------------------------------------------
(* Types *)

\* A record of each of the shapes is a request.
LEMMA RequestRecords ==
  /\ Idle \in Request
  /\ \A p \in Player :
       /\ \A op \in {"leave", "cascade", "add_guest"} : [op |-> op, on |-> p] \in Request
       /\ \A op \in {"join_seat", "join_row", "assign", "unassign"}, had \in RowStatus :
            [op |-> op, on |-> p, had |-> had] \in Request
       /\ \A gs \in SUBSET GuestId, n \in Nat :
            [op |-> "withdraw", on |-> p, guests |-> gs, seats |-> n] \in Request
       /\ \A g \in GuestId, was \in {"pending", "approved", "rejected"},
             verdict \in {"approved", "rejected"} :
            [op |-> "judge", on |-> p, guest |-> g, was |-> was, verdict |-> verdict] \in Request
       /\ \A accept \in BOOLEAN : [op |-> "respond", on |-> p, accept |-> accept] \in Request
  /\ \A w \in WalkIn, op \in {"walk_in_seat", "walk_in_row", "walk_in_out"} :
       [op |-> op, on |-> w] \in Request
  /\ \A to \in {"proposed", "accepted", "rejected"} :
       [op |-> "proposal", on |-> TheEvent, to |-> to] \in Request
  /\ \A op \in {"status", "restore"}, to \in Status \ {"cancelled"} :
       [op |-> op, on |-> TheEvent, to |-> to] \in Request
  /\ \A was \in Status \ {"cancelled"} :
       [op |-> "cancel", on |-> TheEvent, was |-> was] \in Request
  /\ \A st \in Setting : [op |-> "update", on |-> TheEvent, to |-> st] \in Request
<1>1. Idle \in Request BY DEF Request
<1>2. ASSUME NEW p \in Player, NEW op \in {"leave", "cascade", "add_guest"}
      PROVE  [op |-> op, on |-> p] \in Request
  BY DEF Request
<1>3. ASSUME NEW p \in Player, NEW had \in RowStatus,
             NEW op \in {"join_seat", "join_row", "assign", "unassign"}
      PROVE  [op |-> op, on |-> p, had |-> had] \in Request
  BY DEF Request
<1>4. ASSUME NEW p \in Player, NEW gs \in SUBSET GuestId, NEW n \in Nat
      PROVE  [op |-> "withdraw", on |-> p, guests |-> gs, seats |-> n] \in Request
  BY DEF Request
<1>5. ASSUME NEW p \in Player, NEW g \in GuestId,
             NEW was \in {"pending", "approved", "rejected"},
             NEW verdict \in {"approved", "rejected"}
      PROVE  [op |-> "judge", on |-> p, guest |-> g, was |-> was, verdict |-> verdict] \in Request
  BY DEF Request
<1>6. ASSUME NEW p \in Player, NEW accept \in BOOLEAN
      PROVE  [op |-> "respond", on |-> p, accept |-> accept] \in Request
  BY DEF Request
<1>7. ASSUME NEW w \in WalkIn, NEW op \in {"walk_in_seat", "walk_in_row", "walk_in_out"}
      PROVE  [op |-> op, on |-> w] \in Request
  BY DEF Request
<1>8. ASSUME NEW to \in {"proposed", "accepted", "rejected"}
      PROVE  [op |-> "proposal", on |-> TheEvent, to |-> to] \in Request
  BY DEF Request
<1>9. ASSUME NEW op \in {"status", "restore"}, NEW to \in Status \ {"cancelled"}
      PROVE  [op |-> op, on |-> TheEvent, to |-> to] \in Request
  BY DEF Request
<1>10. ASSUME NEW was \in Status \ {"cancelled"}
       PROVE  [op |-> "cancel", on |-> TheEvent, was |-> was] \in Request
  BY DEF Request
<1>11. ASSUME NEW st \in Setting
       PROVE  [op |-> "update", on |-> TheEvent, to |-> st] \in Request
  BY DEF Request
<1> QED BY <1>1, <1>2, <1>3, <1>4, <1>5, <1>6, <1>7, <1>8, <1>9, <1>10, <1>11

\* What is still owed to the counter is a request.
LEMMA CountRecords ==
  /\ \A p \in Person, delta \in Int : /\ ToCount(p, delta, FALSE, FALSE) \in Request
                                    /\ ToCount(p, delta, FALSE, FALSE).op = "count"
  /\ \A p \in Player : /\ ToCount(p, -1, TRUE, TRUE) \in Request
                       /\ ToCount(p, -1, TRUE, TRUE).op = "count"
BY DEF Request, ToCount, Person

\* What a request in flight carries, by the step it is at.
Carries(r) ==
  /\ r.op = "idle" => r = Idle
  /\ r.op \in {"leave", "cascade", "add_guest", "join_seat", "join_row", "assign",
               "unassign", "withdraw", "judge", "respond"} => r.on \in Player
  /\ r.op \in {"walk_in_seat", "walk_in_row", "walk_in_out"} =>
       r.on \in WalkIn /\ r = [op |-> r.op, on |-> r.on]
  /\ r.op \in {"proposal", "status", "restore", "cancel", "update"} => r.on = TheEvent
  /\ r.op \in {"join_seat", "join_row", "assign", "unassign"} =>
       r.had \in RowStatus /\ r = [op |-> r.op, on |-> r.on, had |-> r.had]
  /\ r.op = "withdraw" => r.guests \in SUBSET GuestId /\ r.seats \in Nat
  /\ r.op = "judge" => /\ r.guest \in GuestId
                       /\ r.was \in {"pending", "approved", "rejected"}
                       /\ r.verdict \in {"approved", "rejected"}
  /\ r.op = "respond" => r.accept \in BOOLEAN
  /\ r.op = "proposal" => r.to \in {"proposed", "accepted", "rejected"}
  /\ r.op \in {"status", "restore"} => r.to \in Status \ {"cancelled"}
  /\ r.op = "cancel" => r.was \in Status \ {"cancelled"}
  /\ r.op = "update" => r.to \in Setting
  /\ r.op = "count" =>
       /\ r.on \in Person /\ r.delta \in Int
       /\ r.whileOpen \in BOOLEAN /\ r.cascade \in BOOLEAN
       /\ r.whileOpen \/ r.cascade =>
            r.whileOpen /\ r.cascade /\ r.delta = -1 /\ r.on \in Player
  /\ r # Idle => r.on \in Person \cup {TheEvent}

\* Every request carries what its step needs.
LEMMA RequestShape ==
  ASSUME NEW r \in Request
  PROVE  Carries(r)
<1>1. CASE r \in {Idle} BY <1>1 DEF Carries, Idle
<1>2. CASE r \in [op : {"leave", "cascade", "add_guest"}, on : Player]
  BY <1>2 DEF Carries, Person
<1>3. CASE r \in [op : {"walk_in_seat", "walk_in_row", "walk_in_out"}, on : WalkIn]
  BY <1>3 DEF Carries, Person
<1>4. CASE r \in [op : {"join_seat", "join_row", "assign", "unassign"}, on : Player,
                  had : RowStatus]
  BY <1>4 DEF Carries, Person
<1>5. CASE r \in [op : {"count"}, on : Person, delta : Int, whileOpen : {FALSE},
                  cascade : {FALSE}]
  BY <1>5 DEF Carries, Person
<1>6. CASE r \in [op : {"count"}, on : Player, delta : {-1}, whileOpen : {TRUE},
                  cascade : {TRUE}]
  <2>1. /\ r.op = "count" /\ r.on \in Player /\ r.delta = -1
        /\ r.whileOpen = TRUE /\ r.cascade = TRUE
    BY <1>6
  <2>2. r.delta \in Int /\ r.on \in Person \cup {TheEvent} BY <2>1 DEF Person
  <2>3. r.whileOpen \in BOOLEAN /\ r.cascade \in BOOLEAN BY <2>1, Zenon
  <2>4. r.whileOpen \/ r.cascade =>
          r.whileOpen /\ r.cascade /\ r.delta = -1 /\ r.on \in Player
    BY <2>1, Zenon
  <2> QED BY <2>1, <2>2, <2>3, <2>4 DEF Carries, Person
<1>7. CASE r \in [op : {"withdraw"}, on : Player, guests : SUBSET GuestId, seats : Nat]
  BY <1>7 DEF Carries, Person
<1>8. CASE r \in [op : {"judge"}, on : Player, guest : GuestId,
                  was : {"pending", "approved", "rejected"}, verdict : {"approved", "rejected"}]
  BY <1>8 DEF Carries, Person
<1>9. CASE r \in [op : {"respond"}, on : Player, accept : BOOLEAN] BY <1>9 DEF Carries, Person
<1>10. CASE r \in [op : {"proposal"}, on : {TheEvent}, to : {"proposed", "accepted", "rejected"}]
  BY <1>10 DEF Carries, Person
<1>11. CASE r \in [op : {"status", "restore"}, on : {TheEvent}, to : Status \ {"cancelled"}]
  BY <1>11 DEF Carries, Person
<1>12. CASE r \in [op : {"cancel"}, on : {TheEvent}, was : Status \ {"cancelled"}]
  BY <1>12 DEF Carries, Person
<1>13. CASE r \in [op : {"update"}, on : {TheEvent}, to : Setting] BY <1>13 DEF Carries, Person
<1> QED BY <1>1, <1>2, <1>3, <1>4, <1>5, <1>6, <1>7, <1>8, <1>9, <1>10, <1>11, <1>12, <1>13, Zenon
        DEF Request

\* The request that asked for a seat, once it has one.
LEMMA JoinSeatRecord ==
  ASSUME NEW r \in Request, r.op = "join_seat"
  PROVE  [r EXCEPT !.op = "join_row"] = [op |-> "join_row", on |-> r.on, had |-> r.had]
<1>1. r = [op |-> r.op, on |-> r.on, had |-> r.had] BY RequestShape DEF Carries
<1> QED BY <1>1

\* The same for a walk-in.
LEMMA WalkInSeatRecord ==
  ASSUME NEW r \in Request, r.op = "walk_in_seat"
  PROVE  [r EXCEPT !.op = "walk_in_row"] = [op |-> "walk_in_row", on |-> r.on]
<1>1. r = [op |-> r.op, on |-> r.on] BY RequestShape DEF Carries
<1> QED BY <1>1

-----------------------------------------------------------------------------
(* Moves of the lifecycle *)

\* The statuses an event can be called off from.
Cancellable == {"join", "preparation", "ready_to_play", "playing"}

\* The tables, status by status, as far as they agree on what ends an event.
LEMMA Table ==
  ASSUME NEW kind \in Kind
  PROVE  LET moves == TransitionsFor(kind)
         IN  /\ moves["join"] \in {{"preparation", "cancelled"}, {"ready_to_play", "cancelled"}}
             /\ moves["preparation"] = {"ready_to_play", "join", "cancelled"}
             /\ moves["ready_to_play"] \in {{"playing", "preparation", "cancelled"},
                                           {"playing", "join", "cancelled"}}
             /\ moves["playing"] = {"after_match", "cancelled"}
             /\ moves["after_match"] = {"done"}
             /\ moves["done"] = {}
             /\ moves["cancelled"] = {}
<1>1. CASE kind = "match" BY <1>1 DEF TransitionsFor, MatchTransitions
<1>2. CASE kind = "no_match" BY <1>2 DEF TransitionsFor, NoMatchTransitions, MatchTransitions
<1>3. CASE kind = "challenge"
  BY <1>3 DEF TransitionsFor, ChallengeTransitions, MatchTransitions
<1> QED BY <1>1, <1>2, <1>3 DEF Kind

\* Where the tables lead: calling off is for events not yet played, and what was
\* played only moves on.
LEMMA Transitions ==
  ASSUME NEW kind \in Kind, NEW from \in Status, NEW to \in Status,
         CanTransition(kind, from, to)
  PROVE  /\ from # "done" /\ from # "cancelled"
         /\ to = "cancelled" => from \in Cancellable
         /\ from = "after_match" => to = "done"
BY Table DEF CanTransition, Status, Cancellable

\* Whatever kind of event: what may be called off may be called off.
LEMMA CancelFrom ==
  ASSUME NEW kind \in Kind, NEW from \in Status
  PROVE  CanTransition(kind, from, "cancelled") <=> from \in Cancellable
BY Table DEF CanTransition, Status, Cancellable

-----------------------------------------------------------------------------
(* What a request has read when it begins *)

\* The guard of the handler that begins r, at the moment it begins.
Fresh(r) ==
  \/ r.op = "join_seat" /\ ~IsChallenge /\ r.had = row[r.on] /\ r.had # "joined"
  \/ r.op = "leave" /\ row[r.on] = "joined" /\ event.status = "join"
  \/ r.op = "add_guest" /\ ~IsChallenge /\ row[r.on] = "joined"
  \/ /\ r.op = "assign" /\ IsChallenge /\ ProposalAccepted
     /\ r.had = row[r.on] /\ r.had \notin {"joined", "invited"}
  \/ r.op = "unassign" /\ IsChallenge /\ r.had = row[r.on] /\ r.had \in {"joined", "invited"}
  \/ r.op = "respond" /\ IsChallenge /\ row[r.on] = "invited"
  \/ /\ r.op = "withdraw"
     /\ \E g \in GuestId : Joined(g) /\ guest[g].sponsor = r.on /\ r.guests = {g}
     /\ r.seats = SeatsOf(r.guests)
  \/ /\ r.op = "judge" /\ guest[r.guest] # NoGuest /\ guest[r.guest].sponsor = r.on
     /\ r.was = guest[r.guest].approval /\ r.was # r.verdict
     /\ ~Joined(r.guest) => "judge_withdrawn" \in Unforeseen
  \/ r.op = "walk_in_seat" /\ event.isPublic /\ walkIn[r.on] = "none"
  \/ r.op = "walk_in_out" /\ walkIn[r.on] = "joined"
  \/ /\ r.op = "proposal" /\ IsChallenge
     /\ event.proposal = IF r.to = "proposed" THEN "rejected" ELSE "proposed"
  \/ r.op = "status" /\ ProposalAccepted /\ CanTransition(event.kind, event.status, r.to)
  \/ r.op = "cancel" /\ r.was = event.status /\ CanTransition(event.kind, r.was, "cancelled")
  \/ /\ r.op = "restore" /\ event.status = "cancelled"
     /\ r.to = RestoredStatus(event.statusBeforeCancel)
  \/ /\ r.op = "update" /\ CanModify(event.status)
     /\ IsChallenge /\ r.to.isPublic => "public_challenge" \in Unforeseen

\* A guest who is on file has a sponsor and a verdict; one on the roster is on file.
LEMMA GuestType ==
  ASSUME TypeOK, NEW g \in GuestId
  PROVE  /\ guest[g] # NoGuest => /\ guest[g].sponsor \in Player
                                  /\ guest[g].approval \in {"pending", "approved", "rejected"}
                                  /\ guest[g].status \in {"joined", "cancelled"}
         /\ Joined(g) => guest[g] # NoGuest
BY DEF TypeOK, Joined, NoGuest

\* The seats some guests hold are a number of seats.
LEMMA SeatsType ==
  ASSUME NEW gs \in SUBSET GuestId
  PROVE  SeatsOf(gs) \in Nat
<1>1. {g \in gs : guest[g].approval = "approved"} \in SUBSET GuestId OBVIOUS
<1> QED BY <1>1, RosterAssumption, FS_Subset, FS_CardinalityType DEF SeatsOf

\* Every handler's first step begins a request that has just read what its guard asks.
LEMMA ReadingOpens ==
  ASSUME TypeOK, Reading
  PROVE  \E s \in Slot, r \in Request : Opens(s, r) /\ Fresh(r)
<1> USE RequestRecords
<1>1. PICK s \in Slot :
       \/ \E p \in Player :
            \/ JoinRead(s, p) \/ LeaveRead(s, p) \/ RemoveRead(s, p) \/ AddGuestRead(s, p)
            \/ AssignRead(s, p) \/ UnassignRead(s, p)
            \/ \E accept \in BOOLEAN : RespondRead(s, p, accept)
       \/ \E g \in GuestId : RemoveGuest(s, g)
       \/ \E g \in GuestId, verdict \in {"approved", "rejected"} : JudgeRead(s, g, verdict)
       \/ \E w \in WalkIn : WalkInRead(s, w) \/ RemoveWalkIn(s, w)
       \/ \E verdict \in {"proposed", "accepted", "rejected"} : ProposalRead(s, verdict)
       \/ \E to \in Status : SetStatusRead(s, to)
       \/ \E st \in Setting : UpdateRead(s, st)
       \/ CancelRead(s) \/ RestoreRead(s)
  BY DEF Reading
<1>2. ASSUME NEW p \in Player, JoinRead(s, p)
      PROVE  \E r \in Request : Opens(s, r) /\ Fresh(r)
  <2> DEFINE r == [op |-> "join_seat", on |-> p, had |-> row[p]]
  <2>1. r \in Request BY DEF TypeOK
  <2>2. Opens(s, r) /\ Fresh(r) BY <1>2 DEF JoinRead, Begin, Opens, Proceed, Fresh
  <2> QED BY <2>1, <2>2
<1>3. ASSUME NEW p \in Player, LeaveRead(s, p) \/ RemoveRead(s, p)
      PROVE  \E r \in Request : Opens(s, r) /\ Fresh(r)
  <2> DEFINE r == [op |-> "leave", on |-> p]
  <2>1. r \in Request OBVIOUS
  <2>2. Opens(s, r) /\ Fresh(r)
    BY <1>3 DEF LeaveRead, RemoveRead, MayLeave, MayRemove, CanLeave, Begin, Opens, Proceed, Fresh
  <2> QED BY <2>1, <2>2
<1>4. ASSUME NEW p \in Player, AddGuestRead(s, p)
      PROVE  \E r \in Request : Opens(s, r) /\ Fresh(r)
  <2> DEFINE r == [op |-> "add_guest", on |-> p]
  <2>1. r \in Request OBVIOUS
  <2>2. Opens(s, r) /\ Fresh(r) BY <1>4 DEF AddGuestRead, Begin, Opens, Proceed, Fresh
  <2> QED BY <2>1, <2>2
<1>5. ASSUME NEW p \in Player, AssignRead(s, p)
      PROVE  \E r \in Request : Opens(s, r) /\ Fresh(r)
  <2> DEFINE r == [op |-> "assign", on |-> p, had |-> row[p]]
  <2>1. r \in Request BY DEF TypeOK
  <2>2. Opens(s, r) /\ Fresh(r) BY <1>5 DEF AssignRead, MayAssign, Begin, Opens, Proceed, Fresh
  <2> QED BY <2>1, <2>2
<1>6. ASSUME NEW p \in Player, UnassignRead(s, p)
      PROVE  \E r \in Request : Opens(s, r) /\ Fresh(r)
  <2> DEFINE r == [op |-> "unassign", on |-> p, had |-> row[p]]
  <2>1. r \in Request BY DEF TypeOK
  <2>2. Opens(s, r) /\ Fresh(r) BY <1>6 DEF UnassignRead, Begin, Opens, Proceed, Fresh
  <2> QED BY <2>1, <2>2
<1>7. ASSUME NEW p \in Player, NEW accept \in BOOLEAN, RespondRead(s, p, accept)
      PROVE  \E r \in Request : Opens(s, r) /\ Fresh(r)
  <2> DEFINE r == [op |-> "respond", on |-> p, accept |-> accept]
  <2>1. r \in Request OBVIOUS
  <2>2. Opens(s, r) /\ Fresh(r) BY <1>7 DEF RespondRead, Begin, Opens, Proceed, Fresh
  <2> QED BY <2>1, <2>2
<1>8. ASSUME NEW g \in GuestId, RemoveGuest(s, g)
      PROVE  \E r \in Request : Opens(s, r) /\ Fresh(r)
  <2> DEFINE r == WithdrawGuests(guest[g].sponsor, {g})
  <2>1. Joined(g) /\ guest[g].sponsor \in Player BY <1>8, GuestType DEF RemoveGuest
  <2>2. r \in Request BY <2>1, SeatsType DEF WithdrawGuests
  <2>3. Opens(s, r) BY <1>8 DEF RemoveGuest, Begin, Opens, Proceed, WithdrawGuests
  <2>4. Fresh(r) BY <2>1 DEF Fresh, WithdrawGuests
  <2> QED BY <2>2, <2>3, <2>4
<1>9. ASSUME NEW g \in GuestId, NEW verdict \in {"approved", "rejected"}, JudgeRead(s, g, verdict)
      PROVE  \E r \in Request : Opens(s, r) /\ Fresh(r)
  <2> DEFINE r == [op |-> "judge", on |-> guest[g].sponsor, guest |-> g,
                   was |-> guest[g].approval, verdict |-> verdict]
  <2>1. r \in Request BY <1>9, GuestType DEF JudgeRead
  <2>2. Opens(s, r) /\ Fresh(r) BY <1>9 DEF JudgeRead, Begin, Opens, Proceed, Fresh
  <2> QED BY <2>1, <2>2
<1>10. ASSUME NEW w \in WalkIn, WalkInRead(s, w) \/ RemoveWalkIn(s, w)
       PROVE  \E r \in Request : Opens(s, r) /\ Fresh(r)
  <2>1. CASE WalkInRead(s, w)
    <3> DEFINE r == [op |-> "walk_in_seat", on |-> w]
    <3>1. r \in Request OBVIOUS
    <3>2. Opens(s, r) /\ Fresh(r) BY <2>1 DEF WalkInRead, Begin, Opens, Proceed, Fresh
    <3> QED BY <3>1, <3>2
  <2>2. CASE RemoveWalkIn(s, w)
    <3> DEFINE r == [op |-> "walk_in_out", on |-> w]
    <3>1. r \in Request OBVIOUS
    <3>2. Opens(s, r) /\ Fresh(r) BY <2>2 DEF RemoveWalkIn, Begin, Opens, Proceed, Fresh
    <3> QED BY <3>1, <3>2
  <2> QED BY <1>10, <2>1, <2>2
<1>11. ASSUME NEW verdict \in {"proposed", "accepted", "rejected"}, ProposalRead(s, verdict)
       PROVE  \E r \in Request : Opens(s, r) /\ Fresh(r)
  <2> DEFINE r == [op |-> "proposal", on |-> TheEvent, to |-> verdict]
  <2>1. r \in Request OBVIOUS
  <2>2. Opens(s, r) /\ Fresh(r) BY <1>11 DEF ProposalRead, Begin, Opens, Proceed, Fresh
  <2> QED BY <2>1, <2>2
<1>12. ASSUME NEW to \in Status, SetStatusRead(s, to)
       PROVE  \E r \in Request : Opens(s, r) /\ Fresh(r)
  <2> DEFINE r == [op |-> "status", on |-> TheEvent, to |-> to]
  <2>1. r \in Request BY <1>12 DEF SetStatusRead
  <2>2. Opens(s, r) /\ Fresh(r) BY <1>12 DEF SetStatusRead, Begin, Opens, Proceed, Fresh
  <2> QED BY <2>1, <2>2
<1>13. ASSUME NEW st \in Setting, UpdateRead(s, st)
       PROVE  \E r \in Request : Opens(s, r) /\ Fresh(r)
  <2> DEFINE r == [op |-> "update", on |-> TheEvent, to |-> st]
  <2>1. r \in Request OBVIOUS
  <2>2. Opens(s, r) /\ Fresh(r) BY <1>13 DEF UpdateRead, Begin, Opens, Proceed, Fresh
  <2> QED BY <2>1, <2>2
<1>14. ASSUME CancelRead(s)
       PROVE  \E r \in Request : Opens(s, r) /\ Fresh(r)
  <2> DEFINE r == [op |-> "cancel", on |-> TheEvent, was |-> event.status]
  <2>1. event.status \in Status \ {"cancelled"}
    BY <1>14, CancelFrom DEF CancelRead, TypeOK, Cancellable, Status
  <2>2. r \in Request BY <2>1
  <2>3. Opens(s, r) /\ Fresh(r) BY <1>14 DEF CancelRead, Begin, Opens, Proceed, Fresh
  <2> QED BY <2>2, <2>3
<1>15. ASSUME RestoreRead(s)
       PROVE  \E r \in Request : Opens(s, r) /\ Fresh(r)
  <2> DEFINE r == [op |-> "restore", on |-> TheEvent,
                   to |-> RestoredStatus(event.statusBeforeCancel)]
  <2>1. RestoredStatus(event.statusBeforeCancel) \in Status \ {"cancelled"}
    BY DEF TypeOK, RestoredStatus, Status
  <2>2. r \in Request BY <2>1
  <2>3. Opens(s, r) /\ Fresh(r) BY <1>15 DEF RestoreRead, Begin, Opens, Proceed, Fresh
  <2> QED BY <2>2, <2>3
<1> QED BY <1>1, <1>2, <1>3, <1>4, <1>5, <1>6, <1>7, <1>8, <1>9, <1>10, <1>11, <1>12, <1>13,
           <1>14, <1>15, Zenon

-----------------------------------------------------------------------------
(* Every document stays of its type *)

\* The guests a request holds are on file.
Known(r) ==
  /\ r.op = "judge" => guest[r.guest] # NoGuest
  /\ r.op = "withdraw" => \A g \in r.guests : guest[g] # NoGuest

\* Types alone are not kept: judging or withdrawing a guest keeps the guest's type
\* only because the guest is on file.
TypeInv == TypeOK /\ \A s \in Slot : Known(request[s])

\* One request goes on and nobody is struck off the file: then what every request
\* holds stays known.
LEMMA TypeStep ==
  ASSUME TypeInv, NEW s \in Slot, NEW r \in Request, Proceed(s, r), Known(r)',
         \A g \in GuestId : guest[g] # NoGuest => guest'[g] # NoGuest
  PROVE  /\ request' \in [Slot -> Request]
         /\ \A t \in Slot : Known(request[t])'
<1>1. request \in [Slot -> Request] BY DEF TypeInv, TypeOK
<1>2. request' = [request EXCEPT ![s] = r] BY DEF Proceed
<1>3. request' \in [Slot -> Request] BY <1>1, <1>2
<1>4. ASSUME NEW t \in Slot PROVE Known(request[t])'
  <2>1. CASE t = s BY <1>1, <1>2, <2>1 DEF Known
  <2>2. CASE t # s
    <3>1. request'[t] = request[t] /\ request[t] \in Request BY <1>1, <1>2, <2>2
    <3>2. Known(request[t]) BY DEF TypeInv
    <3> QED BY <3>1, <3>2, RequestShape DEF Known, Carries
  <2> QED BY <2>1, <2>2
<1> QED BY <1>3, <1>4

\* Beginning a request keeps the types.
LEMMA TypeOpens ==
  ASSUME TypeInv, NEW s \in Slot, NEW r \in Request, Opens(s, r), Fresh(r)
  PROVE  TypeInv'
<1>1. UNCHANGED <<event, row, guest, walkIn>> BY DEF Opens, store
<1>2. Known(r)' BY <1>1, GuestType DEF Fresh, Known, TypeInv
<1>3. request' \in [Slot -> Request] /\ \A t \in Slot : Known(request[t])'
  BY <1>1, <1>2, TypeStep DEF Opens
<1> QED BY <1>1, <1>3 DEF TypeInv, TypeOK

\* Handlers that write neither guests nor hold any keep the types if what they
\* write is of its type.
LEMMA TypeElsewhere ==
  ASSUME TypeInv, NEW s \in Slot, NEW r \in Request, Proceed(s, r), UNCHANGED guest,
         r.op \notin {"judge", "withdraw"}
  PROVE  request' \in [Slot -> Request] /\ \A t \in Slot : Known(request[t])'
BY TypeStep DEF Known

\* Taking a seat keeps the types.
LEMMA TypeTakeSeat ==
  ASSUME TypeInv, NEW s \in Slot, NEW r \in Request, TakeSeat(s, r),
         r.op \notin {"judge", "withdraw"}
  PROVE  TypeInv'
<1> DEFINE r2 == IF CanJoin(event.status) /\ HasRoom THEN r ELSE Idle
<1>1. r2 \in Request /\ r2.op \notin {"judge", "withdraw"} BY RequestRecords DEF Idle
<1>2. Proceed(s, r2) /\ UNCHANGED <<row, guest, walkIn>> BY DEF TakeSeat, Finish
<1>3. request' \in [Slot -> Request] /\ \A t \in Slot : Known(request[t])'
  BY <1>1, <1>2, TypeElsewhere
<1>4. event' = event \/ event' = [event EXCEPT !.joinedCount = @ + 1] BY DEF TakeSeat
<1> QED BY <1>2, <1>3, <1>4 DEF TypeInv, TypeOK

\* A request at a step carries what the step needs.
LEMMA InFlight ==
  ASSUME TypeOK, NEW s \in Slot
  PROVE  request[s] \in Request /\ Carries(request[s])
BY RequestShape DEF TypeOK

\* Writing a registered player's row keeps the types.
LEMMA TypeRow ==
  ASSUME TypeInv, NEW s \in Slot,
         JoinRow(s) \/ LeaveRow(s) \/ Assign(s) \/ Respond(s) \/ Unassign(s)
  PROVE  TypeInv'
<1> DEFINE p == request[s].on
<1>1. TypeOK /\ Carries(request[s]) BY InFlight DEF TypeInv
<1>2. p \in Player
  BY <1>1 DEF Carries, At, JoinRow, LeaveRow, Assign, Respond, Unassign
<1>3. PICK r \in Request : Proceed(s, r) /\ r.op \notin {"judge", "withdraw"}
  <2> DEFINE Plain(r) == r \in Request /\ r.op \notin {"judge", "withdraw"}
  <2>1. /\ Plain(Idle)
        /\ Plain(ToCount(p, 1, FALSE, FALSE))
        /\ Plain(ToCount(p, -1, FALSE, FALSE))
        /\ Plain(ToCount(p, -1, TRUE, TRUE))
    <3>1. p \in Person /\ 1 \in Int /\ -1 \in Int BY <1>2 DEF Person
    <3>2. Idle \in Request /\ Idle.op = "idle" BY RequestRecords DEF Idle
    <3>3. ToCount(p, 1, FALSE, FALSE) \in Request /\ ToCount(p, 1, FALSE, FALSE).op = "count"
      BY <3>1, CountRecords, Zenon
    <3>4. ToCount(p, -1, FALSE, FALSE) \in Request /\ ToCount(p, -1, FALSE, FALSE).op = "count"
      BY <3>1, CountRecords, Zenon
    <3>5. ToCount(p, -1, TRUE, TRUE) \in Request /\ ToCount(p, -1, TRUE, TRUE).op = "count"
      BY <1>2, CountRecords, Zenon
    <3> QED BY <3>2, <3>3, <3>4, <3>5
  <2> SUFFICES \E r : Plain(r) /\ Proceed(s, r) OBVIOUS
  <2> HIDE DEF Plain
  <2>2. CASE JoinRow(s) \/ Assign(s) BY <2>1, <2>2 DEF JoinRow, Assign, Finish
  <2>3. CASE LeaveRow(s) BY <2>1, <2>3, Zenon DEF LeaveRow
  <2>4. CASE Respond(s) BY <2>1, <2>4, Zenon DEF Respond
  <2>5. CASE Unassign(s) BY <2>1, <2>5 DEF Unassign
  <2> QED BY <2>2, <2>3, <2>4, <2>5
<1>4. /\ UNCHANGED <<event, guest, walkIn>>
      /\ \E v \in RowStatus : row' = [row EXCEPT ![p] = v]
  <2>1. row[p] \in RowStatus BY <1>1, <1>2 DEF TypeOK
  <2> QED BY <2>1 DEF JoinRow, LeaveRow, Assign, Respond, Unassign, RowStatus
<1>5. row' \in [Player -> RowStatus] BY <1>1, <1>4 DEF TypeOK
<1>6. request' \in [Slot -> Request] /\ \A t \in Slot : Known(request[t])'
  BY <1>3, <1>4, TypeElsewhere
<1> QED BY <1>1, <1>4, <1>5, <1>6 DEF TypeInv, TypeOK

\* Withdrawing what is on the roster holds guests on file.
LEMMA WithdrawType ==
  ASSUME TypeOK, NEW p \in Player, NEW gs \in SUBSET GuestsOf(p)
  PROVE  WithdrawGuests(p, gs) \in Request /\ Known(WithdrawGuests(p, gs))
<1>1. gs \in SUBSET GuestId BY DEF GuestsOf
<1>2. \A g \in gs : guest[g] # NoGuest BY GuestType DEF GuestsOf
<1>3. WithdrawGuests(p, gs) \in Request BY <1>1, SeatsType, RequestRecords DEF WithdrawGuests
<1> QED BY <1>2, <1>3 DEF WithdrawGuests, Known

\* Gathering the guests who go along keeps the types.
LEMMA TypeCascade ==
  ASSUME TypeInv, NEW s \in Slot, Cascade(s)
  PROVE  TypeInv'
<1> DEFINE p == request[s].on
<1>1. TypeOK /\ p \in Player BY InFlight DEF TypeInv, Cascade, At, Carries
<1>2. UNCHANGED <<event, row, guest, walkIn>> BY DEF Cascade, store
<1>3. PICK r \in Request : Proceed(s, r) /\ Known(r)
  <2>1. Idle \in Request /\ Known(Idle) BY RequestRecords DEF Idle, Known
  <2>2. WithdrawGuests(p, GuestsOf(p)) \in Request /\ Known(WithdrawGuests(p, GuestsOf(p)))
    BY <1>1, WithdrawType
  <2> QED BY <2>1, <2>2 DEF Cascade
<1>4. Known(r)' BY <1>2, <1>3 DEF Known
<1>5. request' \in [Slot -> Request] /\ \A t \in Slot : Known(request[t])'
  BY <1>2, <1>3, <1>4, TypeStep
<1> QED BY <1>1, <1>2, <1>5 DEF TypeInv, TypeOK

\* Moving the counter keeps the types: a move below zero is not made.
LEMMA TypeCount ==
  ASSUME TypeInv, NEW s \in Slot, Count(s)
  PROVE  TypeInv'
<1> DEFINE q == request[s]
<1>1. TypeOK /\ q.on \in Person /\ q.delta \in Int /\ (q.cascade => q.on \in Player)
  BY InFlight DEF TypeInv, Count, At, Carries
<1>2. PICK r \in Request : Proceed(s, r) /\ r.op \notin {"judge", "withdraw"}
  <2>1. Idle \in Request /\ Idle.op \notin {"judge", "withdraw"} BY RequestRecords DEF Idle
  <2>2. CASE q.cascade
    <3>1. Proceed(s, [op |-> "cascade", on |-> q.on]) BY <2>2 DEF Count
    <3>2. [op |-> "cascade", on |-> q.on] \in Request BY <1>1, <2>2, RequestRecords
    <3> QED BY <3>1, <3>2
  <2>3. CASE ~q.cascade BY <2>1, <2>3 DEF Count
  <2> QED BY <2>2, <2>3
<1>3. UNCHANGED <<row, guest, walkIn>> BY DEF Count
<1>4. request' \in [Slot -> Request] /\ \A t \in Slot : Known(request[t])'
  BY <1>2, <1>3, TypeElsewhere
<1>5. \/ event' = event
      \/ event.joinedCount + q.delta >= 0 /\ event' = [event EXCEPT !.joinedCount = @ + q.delta]
  BY DEF Count
<1> QED BY <1>1, <1>3, <1>4, <1>5 DEF TypeInv, TypeOK

\* Writing guests keeps the types.
LEMMA TypeGuests ==
  ASSUME TypeInv, NEW s \in Slot, AddGuest(s) \/ Withdraw(s) \/ Judge(s)
  PROVE  TypeInv'
<1> DEFINE q == request[s]
           GuestRow == [sponsor : Player, approval : {"pending", "approved", "rejected"},
                        status : {"joined", "cancelled"}]
<1>1. TypeOK /\ Carries(q) /\ Known(q) BY InFlight DEF TypeInv
<1>2. q.on \in Player BY <1>1 DEF Carries, At, AddGuest, Withdraw, Judge
<1>3. UNCHANGED <<event, row, walkIn>> BY DEF AddGuest, Withdraw, Judge
<1>4. guest \in [GuestId -> GuestRow \cup {NoGuest}] BY <1>1 DEF TypeOK
<1>5. NoGuest \notin GuestRow BY DEF NoGuest
<1>6. \A n \in {-1, 1} : ToCount(q.on, n, FALSE, FALSE) \in Request
                        /\ ToCount(q.on, n, FALSE, FALSE).op = "count"
  <2>1. q.on \in Person /\ -1 \in Int /\ 1 \in Int BY <1>2 DEF Person
  <2> QED BY <2>1, CountRecords, Zenon
<1>7. Idle \in Request /\ Idle.op = "idle" BY RequestRecords DEF Idle
<1>8. CASE AddGuest(s)
  <2>1. PICK g \in FreeGuestIds :
          guest' = [guest EXCEPT ![g] = [sponsor |-> q.on, approval |-> "pending",
                                         status |-> "joined"]]
    BY <1>8 DEF AddGuest
  <2>2. [sponsor |-> q.on, approval |-> "pending", status |-> "joined"] \in GuestRow BY <1>2
  <2>3. guest' \in [GuestId -> GuestRow \cup {NoGuest}] BY <1>4, <2>1, <2>2
  <2>4. \A h \in GuestId : guest[h] # NoGuest => guest'[h] # NoGuest
    BY <1>4, <1>5, <2>1, <2>2 DEF FreeGuestIds
  <2>5. request' \in [Slot -> Request] /\ \A t \in Slot : Known(request[t])'
    BY <1>7, <1>8, <2>4, TypeStep DEF AddGuest, Finish, Known
  <2> QED BY <1>1, <1>3, <2>3, <2>5 DEF TypeInv, TypeOK
<1>9. CASE Withdraw(s)
  <2>1. q.guests \in SUBSET GuestId /\ q.seats \in Nat /\ \A g \in q.guests : guest[g] # NoGuest
    BY <1>1, <1>9 DEF Withdraw, At, Carries, Known
  <2>2. guest' = [g \in GuestId |-> IF g \in q.guests THEN [guest[g] EXCEPT !.status = "cancelled"]
                                    ELSE guest[g]]
    BY <1>9 DEF Withdraw
  <2>3. \A g \in q.guests : [guest[g] EXCEPT !.status = "cancelled"] \in GuestRow BY <1>4, <2>1
  <2>4. guest' \in [GuestId -> GuestRow \cup {NoGuest}] BY <1>4, <2>2, <2>3
  <2>5. \A h \in GuestId : guest[h] # NoGuest => guest'[h] # NoGuest BY <1>4, <1>5, <2>2, <2>3
  <2>6. PICK r \in Request : Proceed(s, r) /\ r.op \notin {"judge", "withdraw"}
    <3>1. -q.seats \in Int /\ q.on \in Person BY <1>2, <2>1 DEF Person
    <3>2. ToCount(q.on, -q.seats, FALSE, FALSE) \in Request
          /\ ToCount(q.on, -q.seats, FALSE, FALSE).op = "count"
      BY <3>1, CountRecords, Zenon
    <3> QED BY <1>7, <1>9, <3>2 DEF Withdraw
  <2>7. request' \in [Slot -> Request] /\ \A t \in Slot : Known(request[t])'
    BY <2>5, <2>6, TypeStep DEF Known
  <2> QED BY <1>1, <1>3, <2>4, <2>7 DEF TypeInv, TypeOK
<1>10. CASE Judge(s)
  <2>1. /\ q.guest \in GuestId /\ q.verdict \in {"approved", "rejected"} /\ guest[q.guest] # NoGuest
        /\ guest' = [guest EXCEPT ![q.guest].approval = q.verdict]
    BY <1>1, <1>10 DEF Judge, At, Carries, Known
  <2>2. [guest[q.guest] EXCEPT !.approval = q.verdict] \in GuestRow BY <1>4, <2>1
  <2>3. guest' \in [GuestId -> GuestRow \cup {NoGuest}] BY <1>4, <2>1, <2>2
  <2>4. \A h \in GuestId : guest[h] # NoGuest => guest'[h] # NoGuest BY <1>4, <1>5, <2>1, <2>2
  <2>5. PICK r \in Request : Proceed(s, r) /\ r.op \notin {"judge", "withdraw"}
    BY <1>6, <1>7, <1>10 DEF Judge
  <2>6. request' \in [Slot -> Request] /\ \A t \in Slot : Known(request[t])'
    BY <2>4, <2>5, TypeStep DEF Known
  <2> QED BY <1>1, <1>3, <2>3, <2>6 DEF TypeInv, TypeOK
<1> QED BY <1>8, <1>9, <1>10

\* Writing a walk-in's row keeps the types.
LEMMA TypeWalkIn ==
  ASSUME TypeInv, NEW s \in Slot, WalkInRow(s) \/ WalkInOut(s)
  PROVE  TypeInv'
<1> DEFINE w == request[s].on
<1>1. TypeOK /\ w \in WalkIn
  BY InFlight DEF TypeInv, WalkInRow, WalkInOut, At, Carries
<1>2. UNCHANGED <<event, row, guest>> BY DEF WalkInRow, WalkInOut
<1>3. PICK r \in Request : Proceed(s, r) /\ r.op \notin {"judge", "withdraw"}
  <2>1. Idle \in Request /\ Idle.op = "idle" BY RequestRecords DEF Idle
  <2>2. w \in Person /\ -1 \in Int BY <1>1 DEF Person
  <2>3. ToCount(w, -1, FALSE, FALSE) \in Request /\ ToCount(w, -1, FALSE, FALSE).op = "count"
    BY <2>2, CountRecords, Zenon
  <2> QED BY <2>1, <2>3 DEF WalkInRow, WalkInOut, Finish
<1>4. walkIn' \in [WalkIn -> {"none", "joined", "cancelled"}]
  BY <1>1 DEF TypeOK, WalkInRow, WalkInOut
<1>5. request' \in [Slot -> Request] /\ \A t \in Slot : Known(request[t])'
  BY <1>2, <1>3, TypeElsewhere
<1> QED BY <1>1, <1>2, <1>4, <1>5 DEF TypeInv, TypeOK

\* Saving the event keeps the types.
LEMMA TypeSave ==
  ASSUME TypeInv, NEW s \in Slot,
         ProposalSave(s) \/ SetStatusSave(s) \/ UpdateSave(s) \/ CancelSave(s) \/ RestoreSave(s)
  PROVE  TypeInv'
<1> DEFINE q == request[s]
<1>1. TypeOK /\ Carries(q) BY InFlight DEF TypeInv
<1>2. UNCHANGED <<row, guest, walkIn>> /\ Proceed(s, Idle)
  BY DEF ProposalSave, SetStatusSave, UpdateSave, CancelSave, RestoreSave, Save, Finish
<1>3. Idle \in Request /\ Idle.op = "idle" BY RequestRecords DEF Idle
<1>4. request' \in [Slot -> Request] /\ \A t \in Slot : Known(request[t])'
  BY <1>2, <1>3, TypeElsewhere
<1> DEFINE Document == [kind : Kind, status : Status,
                        statusBeforeCancel : (Status \ {"cancelled"}) \cup {Null},
                        cancelReason : BOOLEAN,
                        proposal : {"none", "proposed", "accepted", "rejected"},
                        maxPlayers : Nat \cup {Null}, isPublic : BOOLEAN,
                        isAllowExtraPlayer : BOOLEAN, joinedCount : Nat]
<1>5. event \in Document BY <1>1 DEF TypeOK
<1>6. CASE ProposalSave(s)
  <2>1. /\ q.to \in {"none", "proposed", "accepted", "rejected"}
        /\ event' = [event EXCEPT !.proposal = q.to]
    BY <1>1, <1>6 DEF ProposalSave, At, Save, Carries
  <2> QED BY <1>1, <1>2, <1>4, <1>5, <2>1 DEF TypeInv, TypeOK
<1>7. CASE SetStatusSave(s)
  <2>1. q.to \in Status /\ event' = [event EXCEPT !.status = q.to]
    BY <1>1, <1>7 DEF SetStatusSave, At, Save, Carries
  <2> QED BY <1>1, <1>2, <1>4, <1>5, <2>1 DEF TypeInv, TypeOK
<1>8. CASE UpdateSave(s)
  <2>1. q.to \in Setting /\ UpdateSave(s) BY <1>1, <1>8 DEF UpdateSave, At, Carries
  <2>2. q.to \in [maxPlayers : Nat, isPublic : BOOLEAN, isAllowExtraPlayer : BOOLEAN]
    BY <2>1, RosterAssumption
  <2>3. event' \in Document BY <1>5, <2>1, <2>2 DEF UpdateSave, Save
  <2> QED BY <1>1, <1>2, <1>4, <2>3 DEF TypeInv, TypeOK
<1>9. CASE CancelSave(s)
  <2>1. q.was \in Status \ {"cancelled"} BY <1>1, <1>9 DEF CancelSave, At, Carries
  <2>2. event' \in Document BY <1>5, <1>9, <2>1 DEF CancelSave, Save, Status
  <2> QED BY <1>1, <1>2, <1>4, <2>2 DEF TypeInv, TypeOK
<1>10. CASE RestoreSave(s)
  <2>1. q.to \in Status BY <1>1, <1>10 DEF RestoreSave, At, Carries
  <2>2. event' \in Document BY <1>5, <1>10, <2>1 DEF RestoreSave, Save, Restored
  <2> QED BY <1>1, <1>2, <1>4, <2>2 DEF TypeInv, TypeOK
<1> QED BY <1>6, <1>7, <1>8, <1>9, <1>10

\* A change of sport keeps the types.
LEMMA TypeSport ==
  ASSUME TypeInv, ChangeSport
  PROVE  TypeInv'
BY RequestShape DEF TypeInv, TypeOK, ChangeSport, Kind, Known

\* A new event, and one cancelled long ago, is of its type.
LEMMA TypeInit == Init => TypeInv
<1> SUFFICES ASSUME Init PROVE TypeInv OBVIOUS
<1>1. PICK kind \in Kinds, st \in Setting, legacy \in BOOLEAN :
       event \in [kind : {kind},
                  status : {IF legacy THEN "cancelled" ELSE "join"},
                  statusBeforeCancel : {Null},
                  cancelReason : {legacy},
                  proposal : {IF kind = "challenge" THEN "proposed" ELSE "none"},
                  maxPlayers : {st.maxPlayers} \cup (IF kind = "challenge" THEN {Null} ELSE {}),
                  isPublic : {st.isPublic},
                  isAllowExtraPlayer : {st.isAllowExtraPlayer},
                  joinedCount : {0}]
  BY DEF Init
<1>2. kind \in Kind /\ st \in [maxPlayers : Nat, isPublic : BOOLEAN, isAllowExtraPlayer : BOOLEAN]
  BY RosterAssumption
<1>3. event \in [kind : Kind, status : Status,
                statusBeforeCancel : (Status \ {"cancelled"}) \cup {Null},
                cancelReason : BOOLEAN,
                proposal : {"none", "proposed", "accepted", "rejected"},
                maxPlayers : Nat \cup {Null}, isPublic : BOOLEAN,
                isAllowExtraPlayer : BOOLEAN, joinedCount : Nat]
  BY <1>1, <1>2 DEF Status
<1>4. request \in [Slot -> Request] /\ \A s \in Slot : Known(request[s])
  BY RequestRecords DEF Init, Known, Idle
<1>5. /\ row \in [Player -> RowStatus]
      /\ guest \in [GuestId -> [sponsor : Player, approval : {"pending", "approved", "rejected"},
                                status : {"joined", "cancelled"}] \cup {NoGuest}]
      /\ walkIn \in [WalkIn -> {"none", "joined", "cancelled"}]
  BY DEF Init, RowStatus
<1> QED BY <1>3, <1>4, <1>5 DEF TypeInv, TypeOK

\* Every step keeps the types.
LEMMA TypeNext ==
  ASSUME TypeInv, [Next]_vars
  PROVE  TypeInv'
<1>0. TypeOK BY DEF TypeInv
<1>1. CASE UNCHANGED vars BY <1>1 DEF vars, store, TypeInv, TypeOK, Known
<1>2. CASE Reading BY <1>0, <1>2, ReadingOpens, TypeOpens
<1>3. ASSUME NEW s \in Slot, Writing(s) PROVE TypeInv'
  <2>1. Carries(request[s]) BY <1>0, InFlight
  <2>2. CASE JoinSeat(s)
    <3>1. At(s, "join_seat") /\ TakeSeat(s, [request[s] EXCEPT !.op = "join_row"])
      BY <2>2 DEF JoinSeat
    <3>2. [request[s] EXCEPT !.op = "join_row"]
            = [op |-> "join_row", on |-> request[s].on, had |-> request[s].had]
      BY <1>0, <3>1, InFlight, JoinSeatRecord DEF At
    <3> QED BY <2>1, <3>1, <3>2, RequestRecords, TypeTakeSeat DEF At, Carries
  <2>3. CASE WalkInSeat(s)
    <3>1. At(s, "walk_in_seat") /\ TakeSeat(s, [request[s] EXCEPT !.op = "walk_in_row"])
      BY <2>3 DEF WalkInSeat
    <3>2. [request[s] EXCEPT !.op = "walk_in_row"] = [op |-> "walk_in_row", on |-> request[s].on]
      BY <1>0, <3>1, InFlight, WalkInSeatRecord DEF At
    <3> QED BY <2>1, <3>1, <3>2, RequestRecords, TypeTakeSeat DEF At, Carries
  <2> QED BY <1>3, <2>2, <2>3, TypeRow, TypeCascade, TypeCount, TypeGuests, TypeWalkIn, TypeSave
          DEF Writing
<1> QED BY <1>1, <1>2, <1>3, TypeSport, NextSteps

\* The event document, its rows and the requests about it stay of their types,
\* and the counter that guards the capacity never goes below zero, whichever
\* requests overlap (the guarded $inc of leave, cancelGuestRows, setGuestApproval,
\* unassignPlayer and removeAnonymous).
THEOREM TypeCorrect == Spec => []TypeOK
<1>1. TypeInv /\ [Next]_vars => TypeInv' BY TypeNext
<1>2. TypeInv => TypeOK BY DEF TypeInv
<1> QED BY <1>1, <1>2, TypeInit, PTL DEF Spec

-----------------------------------------------------------------------------
(* What requests in flight rely on *)

\* Requests in flight are about different people.
Apart ==
  \A s, t \in Slot :
    s # t /\ request[s] # Idle /\ request[t] # Idle /\ request[s].on = request[t].on
      => request[s].on = TheEvent

\* A seat of somebody whose count has yet to go up: their own on a challenge, that of
\* a guest of theirs elsewhere.
Backed(p) ==
  IF IsChallenge THEN p \in OnRoster ELSE \E g \in GuestsIn : guest[g].sponsor = p

\* What request r read about its person still holds.
RowFits(r) ==
  /\ r.op \in {"join_seat", "join_row"} =>
       ~IsChallenge /\ row[r.on] = r.had /\ r.had \in {"none", "cancelled"}
  /\ r.op = "assign" => IsChallenge /\ row[r.on] = r.had /\ r.had \in {"none", "cancelled"}
  /\ r.op = "unassign" => IsChallenge /\ row[r.on] = r.had /\ r.had \in {"joined", "invited"}
  /\ r.op = "respond" => IsChallenge /\ row[r.on] = "invited"
  /\ r.op = "leave" => row[r.on] = "joined"
  /\ r.op \in {"walk_in_seat", "walk_in_row"} => walkIn[r.on] = "none"
  /\ r.op = "walk_in_out" => walkIn[r.on] = "joined"

\* What request r read about guests still holds.
GuestFits(r) ==
  /\ r.op = "add_guest" => ~IsChallenge /\ row[r.on] = "joined"
  /\ r.op = "judge" =>
       /\ Joined(r.guest) /\ guest[r.guest].sponsor = r.on
       /\ guest[r.guest].approval = r.was /\ r.was # r.verdict
  /\ r.op = "withdraw" => r.guests \subseteq GuestsOf(r.on) /\ r.seats = SeatsOf(r.guests)
  /\ r.op = "count" => r.delta <= 1 /\ (r.delta > 0 => r.delta = 1 /\ Backed(r.on))

\* What a request read still holds.
Fits(r) == RowFits(r) /\ GuestFits(r)

\* Who is on the roster suits the kind of event.
SuitsKind ==
  /\ IsChallenge => \A g \in GuestId : guest[g] = NoGuest
  /\ ~IsChallenge => \A p \in Player : row[p] # "invited"

\* A request that takes p's guests along is under way.
Following(p) ==
  \E s \in Slot :
    /\ request[s] # Idle /\ request[s].on = p
    /\ \/ request[s].op = "count" /\ request[s].cascade
       \/ request[s].op = "cascade"
       \/ request[s].op = "withdraw" /\ request[s].guests = GuestsOf(p)

\* Whose guests are on the roster is on it too, or such a request is under way.
Accompanied(p) == GuestsOf(p) # {} => row[p] = "joined" \/ Following(p)

\* No type says what a request still knows: the seats and the sponsors are right
\* only because every request in flight acts on what it read.
Reads ==
  /\ Apart /\ SuitsKind
  /\ \A s \in Slot : Fits(request[s])
  /\ \A p \in Player : Accompanied(p)

\* Inductive where requests in flight are about different people.
RosterInv == TypeInv /\ Reads

-----------------------------------------------------------------------------
(* One person's step disturbs nobody else's *)

\* The step leaves the rows, walk-ins and guests of everybody but p alone.
OnlyAbout(p) ==
  /\ IsChallenge' <=> IsChallenge
  /\ \A q \in Player : q # p => row'[q] = row[q]
  /\ \A w \in WalkIn : w # p => walkIn'[w] = walkIn[w]
  /\ \A g \in GuestId : guest'[g] # guest[g] =>
       guest'[g].sponsor = p /\ (guest[g] = NoGuest \/ guest[g].sponsor = p)

\* The guests of the others, and what was decided about them, stay.
LEMMA GuestsElsewhere ==
  ASSUME TypeOK, NEW p, OnlyAbout(p), NEW q, q # p
  PROVE  /\ GuestsOf(q)' = GuestsOf(q)
         /\ \A g \in GuestsOf(q) : guest'[g] = guest[g]
         /\ \A g \in GuestId : Joined(g)' /\ guest'[g].sponsor = q => guest'[g] = guest[g]
<1>1. \A g \in GuestId : Joined(g) => guest[g] # NoGuest BY GuestType
<1>2. \A g \in GuestsOf(q) : guest'[g] = guest[g] BY <1>1 DEF GuestsOf, OnlyAbout
<1>3. \A g \in GuestId : guest'[g].sponsor = q => guest'[g] = guest[g] BY DEF OnlyAbout
<1> QED BY <1>2, <1>3 DEF GuestsOf, Joined

\* What a request about somebody else has read still holds.
LEMMA StaysFit ==
  ASSUME TypeOK, NEW p, OnlyAbout(p), NEW r \in Request, r # Idle, r.on # p, Fits(r)
  PROVE  Fits(r)'
<1>1. Carries(r) BY RequestShape
<1>2. RowFits(r)' BY <1>1 DEF RowFits, Fits, Carries, OnlyAbout
<1>3. ASSUME r.op = "add_guest" PROVE ~IsChallenge' /\ row'[r.on] = "joined"
  BY <1>1, <1>3 DEF Fits, GuestFits, Carries, OnlyAbout
<1>4. ASSUME r.op = "judge" PROVE guest'[r.guest] = guest[r.guest]
  <2>1. r.guest \in GuestsOf(r.on) BY <1>1, <1>4 DEF Fits, GuestFits, Carries, GuestsOf
  <2> QED BY <2>1, GuestsElsewhere
<1>5. ASSUME r.op = "withdraw"
      PROVE  r.guests \subseteq GuestsOf(r.on)' /\ r.seats = SeatsOf(r.guests)'
  <2>1. r.guests \subseteq GuestsOf(r.on) /\ r.seats = SeatsOf(r.guests)
    BY <1>5 DEF Fits, GuestFits
  <2>2. \A g \in r.guests : guest'[g] = guest[g] BY <2>1, GuestsElsewhere
  <2>3. {g \in r.guests : guest'[g].approval = "approved"}
          = {g \in r.guests : guest[g].approval = "approved"}
    BY <2>2
  <2> QED BY <2>1, <2>3, GuestsElsewhere DEF SeatsOf
<1>6. ASSUME r.op = "count", r.delta > 0 PROVE Backed(r.on)'
  <2>1. Backed(r.on) BY <1>6 DEF Fits, GuestFits
  <2>2. CASE IsChallenge
    <3>1. r.on \in OnRoster /\ IsChallenge' BY <2>1, <2>2 DEF Backed, OnlyAbout
    <3>2. r.on \in OnRoster' BY <3>1 DEF OnRoster, OnlyAbout
    <3> QED BY <3>1, <3>2 DEF Backed
  <2>3. CASE ~IsChallenge
    <3>1. PICK g \in GuestsIn : guest[g].sponsor = r.on BY <2>1, <2>3 DEF Backed
    <3>2. g \in GuestsOf(r.on) BY <3>1 DEF GuestsIn, GuestsOf
    <3>3. guest'[g] = guest[g] BY <3>2, GuestsElsewhere
    <3>4. ~IsChallenge' BY <2>3 DEF OnlyAbout
    <3> QED BY <3>1, <3>3, <3>4 DEF Backed, GuestsIn, Joined
  <2> QED BY <2>2, <2>3
<1>7. GuestFits(r)' BY <1>3, <1>4, <1>5, <1>6 DEF Fits, GuestFits, Joined
<1> QED BY <1>2, <1>7 DEF Fits

\* The requests after a step of request s, which goes on as r.
LEMMA Requests ==
  ASSUME TypeOK, NEW s \in Slot, NEW r, Proceed(s, r)
  PROVE  request'[s] = r /\ \A t \in Slot : t # s => request'[t] = request[t]
BY DEF TypeOK, Proceed

\* A request that begins about somebody nobody else is busy with, or goes on about the
\* same person, keeps requests apart.
LEMMA ApartKept ==
  ASSUME TypeOK, Apart, NEW s \in Slot, NEW r \in Request, Proceed(s, r),
         \/ r = Idle
         \/ request[s] # Idle /\ r.on = request[s].on
         \/ \A t \in Slot \ {s} : request[t] # Idle => request[t].on # r.on \/ r.on = TheEvent
  PROVE  Apart'
<1>1. request'[s] = r /\ \A t \in Slot : t # s => request'[t] = request[t] BY Requests
<1>2. ASSUME NEW t \in Slot, t # s, request[t] # Idle, r # Idle, request[t].on = r.on
      PROVE  r.on = TheEvent
  BY <1>2 DEF Apart
<1>3. ASSUME NEW t \in Slot, NEW u \in Slot, t # u,
             request'[t] # Idle, request'[u] # Idle, request'[t].on = request'[u].on
      PROVE  request'[t].on = TheEvent
  BY <1>1, <1>2, <1>3 DEF Apart
<1> QED BY <1>3 DEF Apart

\* What a request that did not move has read, in the next state.
LEMMA FitsNext ==
  ASSUME NEW r, NEW t, request'[t] = r, Fits(r)'
  PROVE  Fits(request[t])'
BY DEF Fits, RowFits, GuestFits, Backed, GuestsOf, SeatsOf, Joined, GuestsIn, OnRoster

\* While request s takes a step about its person, what the others have read holds, and
\* the others' guests are with them or followed.
LEMMA OthersKept ==
  ASSUME RosterInv, TypeOK', NEW s \in Slot, NEW r \in Request, Proceed(s, r),
         NEW p, request[s] = Idle \/ request[s].on = p, OnlyAbout(p),
         \A t \in Slot \ {s} : request[t] # Idle => request[t].on # p \/ p = TheEvent
  PROVE  /\ \A t \in Slot \ {s} : Fits(request[t])'
         /\ \A q \in Player \ {p} : Accompanied(q)'
<1>0. TypeOK BY DEF RosterInv, TypeInv
<1>1. request'[s] = r /\ \A t \in Slot : t # s => request'[t] = request[t] BY <1>0, Requests
<1>2. ASSUME NEW t \in Slot \ {s} PROVE Fits(request[t])'
  <2>1. PICK q \in Request : q = request[t] BY <1>0 DEF TypeOK
  <2>2. request'[t] = q /\ Fits(q) BY <1>1, <2>1 DEF RosterInv, Reads, Fits
  <2>3. CASE q = Idle BY <2>2, <2>3 DEF Fits, RowFits, GuestFits, Idle
  <2>4. CASE q # Idle /\ q.on # p
    <3>1. Fits(q)' BY <1>0, <2>2, <2>4, StaysFit
    <3> QED BY <2>2, <3>1, FitsNext
  <2>5. CASE q # Idle /\ q.on = TheEvent
    <3>1. Carries(q) /\ TheEvent \notin Person BY RequestShape, RosterAssumption DEF Person
    <3> QED BY <2>2, <2>5, <3>1 DEF Fits, RowFits, GuestFits, Carries, Person
  <2> QED BY <2>1, <2>3, <2>4, <2>5
<1>3. ASSUME NEW q \in Player \ {p} PROVE Accompanied(q)'
  <2>1. GuestsOf(q)' = GuestsOf(q) /\ row'[q] = row[q] BY <1>0, GuestsElsewhere DEF OnlyAbout
  <2>2. Accompanied(q) BY DEF RosterInv, Reads
  <2>3. ASSUME Following(q) PROVE Following(q)'
    <3>1. PICK t \in Slot :
            /\ request[t] # Idle /\ request[t].on = q
            /\ \/ request[t].op = "count" /\ request[t].cascade
               \/ request[t].op = "cascade"
               \/ request[t].op = "withdraw" /\ request[t].guests = GuestsOf(q)
      BY <2>3 DEF Following
    <3>2. t # s BY <3>1
    <3> QED BY <1>1, <2>1, <3>1, <3>2 DEF Following
  <2> QED BY <2>1, <2>2, <2>3 DEF Accompanied
<1> QED BY <1>2, <1>3

\* A step of request s about its own person keeps what requests rely on, if it does so for
\* that person.
LEMMA ReadsStep ==
  ASSUME RosterInv, TypeOK', NEW s \in Slot, NEW r \in Request, Proceed(s, r),
         NEW p, request[s] # Idle, request[s].on = p, OnlyAbout(p), r = Idle \/ r.on = p,
         Fits(r)', SuitsKind', p \in Player => Accompanied(p)'
  PROVE  Reads'
<1>0. TypeOK /\ Apart BY DEF RosterInv, TypeInv, Reads
<1>1. \A t \in Slot \ {s} : request[t] # Idle => request[t].on # p \/ p = TheEvent
  BY <1>0 DEF Apart
<1>2. Apart' BY <1>0, ApartKept
<1>3. /\ \A t \in Slot \ {s} : Fits(request[t])'
      /\ \A q \in Player \ {p} : Accompanied(q)'
  BY <1>1, OthersKept
<1>4. Fits(request[s])'
  <2>1. request'[s] = r BY <1>0, Requests
  <2> QED BY <2>1, FitsNext
<1> QED BY <1>2, <1>3, <1>4 DEF Reads

\* Of one person's guests only that person's request takes care.
LEMMA Alone ==
  ASSUME RosterInv, NEW s \in Slot, request[s] # Idle, NEW p \in Player, request[s].on = p,
         Following(p)
  PROVE  \/ request[s].op = "count" /\ request[s].cascade
         \/ request[s].op = "cascade"
         \/ request[s].op = "withdraw" /\ request[s].guests = GuestsOf(p)
<1>1. PICK t \in Slot :
        /\ request[t] # Idle /\ request[t].on = p
        /\ \/ request[t].op = "count" /\ request[t].cascade
           \/ request[t].op = "cascade"
           \/ request[t].op = "withdraw" /\ request[t].guests = GuestsOf(p)
  BY DEF Following
<1>2. p # TheEvent BY RosterAssumption
<1>3. t = s BY <1>1, <1>2 DEF RosterInv, Reads, Apart
<1> QED BY <1>1, <1>3

\* Whose request takes no guests along is with them, and stays so.
LEMMA StaysWith ==
  ASSUME RosterInv, NEW s \in Slot, request[s] # Idle, NEW p, request[s].on = p,
         request[s].op \notin {"cascade", "withdraw"},
         request[s].op = "count" => ~request[s].cascade,
         p \in Player => row'[p] = row[p], p \in Player => GuestsOf(p)' \subseteq GuestsOf(p)
  PROVE  p \in Player => Accompanied(p)'
<1> SUFFICES ASSUME p \in Player PROVE Accompanied(p)' OBVIOUS
<1>1. ~Following(p) BY Alone
<1>2. Accompanied(p) BY DEF RosterInv, Reads
<1> QED BY <1>1, <1>2 DEF Accompanied

-----------------------------------------------------------------------------
(* Every handler keeps what the others rely on *)

\* At a step, a request carries what it needs and what it read still holds.
LEMMA AtStep ==
  ASSUME RosterInv, NEW s \in Slot, request[s].op # "idle"
  PROVE  /\ TypeOK /\ SuitsKind
         /\ request[s] # Idle /\ request[s] \in Request
         /\ Carries(request[s]) /\ Fits(request[s])
BY InFlight DEF RosterInv, TypeInv, Reads, Idle

\* A request that has begun keeps what the others rely on: it was clear of them.
LEMMA ReadsOpens ==
  ASSUME "person" \in Exclusive, "judge_withdrawn" \notin Unforeseen,
         RosterInv, TypeOK', NEW s \in Slot, NEW r \in Request, Opens(s, r), Fresh(r)
  PROVE  Reads'
<1> DEFINE p == r.on
<1>0. /\ TypeOK /\ Apart /\ SuitsKind /\ Carries(r)
      /\ Proceed(s, r) /\ request[s] = Idle /\ UNCHANGED <<event, row, guest, walkIn>>
  BY RequestShape DEF RosterInv, TypeInv, Reads, Opens, store
<1>1. \A t \in Slot \ {s} : request[t] # Idle => request[t].on # p \/ p = TheEvent
  BY DEF Opens, Clear
<1>2. Apart' BY <1>0, <1>1, ApartKept
<1>3. OnlyAbout(p) BY <1>0 DEF OnlyAbout, IsChallenge
<1>4. /\ \A t \in Slot \ {s} : Fits(request[t])'
      /\ \A q \in Player \ {p} : Accompanied(q)'
  BY <1>0, <1>1, <1>3, OthersKept
<1>5. Fits(r)
  <2>1. RowFits(r) BY <1>0 DEF Fresh, RowFits, Carries, RowStatus, SuitsKind
  <2>2. GuestFits(r) BY <1>0 DEF Fresh, GuestFits, GuestsOf
  <2> QED BY <2>1, <2>2 DEF Fits
<1>6. Fits(r)'
  BY <1>0, <1>5 DEF Fits, RowFits, GuestFits, IsChallenge, Backed, GuestsOf, SeatsOf, Joined,
                    GuestsIn, OnRoster
<1>7. request'[s] = r /\ \A t \in Slot : t # s => request'[t] = request[t] BY <1>0, Requests
<1>8. Fits(request[s])' BY <1>6, <1>7, FitsNext
<1>9. SuitsKind' BY <1>0 DEF SuitsKind, IsChallenge
<1>10. ASSUME NEW q \in Player PROVE Accompanied(q)'
  <2>1. GuestsOf(q)' = GuestsOf(q) /\ row'[q] = row[q] BY <1>0 DEF GuestsOf, Joined
  <2>2. Accompanied(q) BY DEF RosterInv, Reads
  <2>3. Following(q) => Following(q)' BY <1>0, <1>7, <2>1 DEF Following
  <2> QED BY <2>1, <2>2, <2>3 DEF Accompanied
<1> QED BY <1>2, <1>4, <1>8, <1>9, <1>10 DEF Reads

\* Taking a seat disturbs nobody.
LEMMA ReadsTakeSeat ==
  ASSUME RosterInv, TypeOK', NEW s \in Slot, JoinSeat(s) \/ WalkInSeat(s)
  PROVE  Reads'
<1> PICK q : q = request[s] OBVIOUS
<1> DEFINE p == q.on
<1>0. q.op \in {"join_seat", "walk_in_seat"} BY DEF JoinSeat, WalkInSeat, At
<1>1. TypeOK /\ SuitsKind /\ q # Idle /\ q \in Request /\ Carries(q) /\ Fits(q) BY <1>0, AtStep
<1>2. PICK r : /\ r \in Request /\ Proceed(s, r) /\ (r = Idle \/ r.on = p)
               /\ r.op \in {"idle", "join_row", "walk_in_row"}
               /\ r.op = "join_row" => q.op = "join_seat" /\ r.had = q.had
               /\ r.op = "walk_in_row" => q.op = "walk_in_seat"
  <2>1. Idle \in Request /\ Idle.op = "idle" BY RequestRecords DEF Idle
  <2>2. CASE JoinSeat(s)
    <3>1. q.op = "join_seat" /\ q.had \in RowStatus /\ p \in Player
      BY <1>1, <2>2 DEF JoinSeat, At, Carries
    <3>2. [q EXCEPT !.op = "join_row"] = [op |-> "join_row", on |-> p, had |-> q.had]
      BY <1>1, <3>1, JoinSeatRecord
    <3>3. [op |-> "join_row", on |-> p, had |-> q.had] \in Request BY <3>1, RequestRecords
    <3> QED BY <2>1, <2>2, <3>1, <3>2, <3>3 DEF JoinSeat, TakeSeat, Finish
  <2>3. CASE WalkInSeat(s)
    <3>1. q.op = "walk_in_seat" /\ p \in WalkIn BY <1>1, <2>3 DEF WalkInSeat, At, Carries
    <3>2. [q EXCEPT !.op = "walk_in_row"] = [op |-> "walk_in_row", on |-> p]
      BY <1>1, <3>1, WalkInSeatRecord
    <3>3. [op |-> "walk_in_row", on |-> p] \in Request BY <3>1, RequestRecords
    <3> QED BY <2>1, <2>3, <3>1, <3>2, <3>3 DEF WalkInSeat, TakeSeat, Finish
  <2> QED BY <2>2, <2>3
<1>3. UNCHANGED <<row, guest, walkIn>> /\ (IsChallenge' <=> IsChallenge)
  <2>1. event' = event \/ event' = [event EXCEPT !.joinedCount = @ + 1]
    BY DEF JoinSeat, WalkInSeat, TakeSeat
  <2>2. event'.kind = event.kind BY <1>1, <2>1 DEF TypeOK
  <2> QED BY <2>2 DEF IsChallenge, JoinSeat, WalkInSeat, TakeSeat
<1>4. OnlyAbout(p) BY <1>3 DEF OnlyAbout
<1>5. Fits(r)'
  <2>1. CASE r = Idle BY <2>1 DEF Idle, Fits, RowFits, GuestFits
  <2>2. CASE r.on = p /\ r # Idle
    <3>1. RowFits(r)' BY <1>1, <1>2, <1>3, <2>2 DEF Fits, RowFits
    <3>2. GuestFits(r)' BY <1>2 DEF GuestFits
    <3> QED BY <3>1, <3>2 DEF Fits
  <2> QED BY <1>2, <2>1, <2>2
<1>6. SuitsKind' BY <1>1, <1>3 DEF SuitsKind
<1>7. p \in Player => Accompanied(p)'
  <2>1. GuestsOf(p)' = GuestsOf(p) BY <1>3 DEF GuestsOf, Joined
  <2> QED BY <1>0, <1>1, <1>3, <2>1, StaysWith
<1> QED BY <1>1, <1>2, <1>4, <1>5, <1>6, <1>7, ReadsStep

\* A row of a registered player that is written on what was read disturbs nobody, and
\* whoever loses it is followed by the guests.
LEMMA ReadsRow ==
  ASSUME RosterInv, TypeOK', NEW s \in Slot,
         JoinRow(s) \/ LeaveRow(s) \/ Assign(s) \/ Respond(s) \/ Unassign(s)
  PROVE  Reads'
<1> PICK q : q = request[s] OBVIOUS
<1> DEFINE p == q.on
<1>0. q.op \in {"join_row", "leave", "assign", "respond", "unassign"}
  BY DEF JoinRow, LeaveRow, Assign, Respond, Unassign, At
<1>1. TypeOK /\ SuitsKind /\ q # Idle /\ q \in Request /\ Carries(q) /\ Fits(q) BY <1>0, AtStep
<1>2. p \in Player /\ row \in [Player -> RowStatus] BY <1>0, <1>1 DEF Carries, TypeOK
<1>3. UNCHANGED <<event, guest, walkIn>> BY DEF JoinRow, LeaveRow, Assign, Respond, Unassign
<1>4. PICK v \in RowStatus : row' = [row EXCEPT ![p] = v]
  <2>1. row[p] \in RowStatus BY <1>2
  <2> QED BY <2>1 DEF JoinRow, LeaveRow, Assign, Respond, Unassign, RowStatus
<1>5. OnlyAbout(p) BY <1>2, <1>3, <1>4 DEF OnlyAbout, IsChallenge
<1>6. GuestsOf(p)' = GuestsOf(p) BY <1>3 DEF GuestsOf, Joined
<1>7. IsChallenge => GuestsOf(p) = {} BY <1>1 DEF SuitsKind, GuestsOf, Joined, NoGuest
<1>8. Idle \in Request /\ Idle.op = "idle" BY RequestRecords DEF Idle
<1>9. CASE JoinRow(s)
  <2>1. /\ q.op = "join_row" /\ row' = [row EXCEPT ![p] = "joined"] /\ Proceed(s, Idle)
        /\ ~IsChallenge
    BY <1>1, <1>9 DEF JoinRow, At, Fits, RowFits, Finish
  <2>2. SuitsKind' BY <1>1, <1>2, <1>3, <2>1 DEF SuitsKind, IsChallenge
  <2>3. Accompanied(p)' BY <1>2, <2>1 DEF Accompanied
  <2>4. Fits(Idle)' BY <1>8 DEF Fits, RowFits, GuestFits
  <2> QED BY <1>1, <1>5, <1>8, <2>1, <2>2, <2>3, <2>4, ReadsStep
<1>10. CASE LeaveRow(s)
  <2> DEFINE r == ToCount(p, -1, TRUE, TRUE)
  <2>1. q.op = "leave" /\ row' = [row EXCEPT ![p] = "cancelled"] /\ Proceed(s, r)
    BY <1>1, <1>10 DEF LeaveRow, At
  <2>2. r \in Request /\ r.op = "count" BY <1>2, CountRecords, Zenon
  <2>3. r.on = p /\ r.delta = -1 /\ r # Idle BY DEF ToCount, Idle
  <2>4. r.cascade BY DEF ToCount
  <2> HIDE DEF r
  <2>5. SuitsKind' BY <1>1, <1>2, <1>3, <2>1 DEF SuitsKind, IsChallenge
  <2>6. request'[s] = r BY <1>1, <2>1, Requests
  <2>7. Accompanied(p)' BY <2>2, <2>3, <2>4, <2>6 DEF Accompanied, Following
  <2>8. Fits(r)' BY <2>2, <2>3 DEF Fits, RowFits, GuestFits
  <2> QED BY <1>1, <1>5, <2>1, <2>2, <2>3, <2>5, <2>7, <2>8, ReadsStep
<1>11. CASE Assign(s)
  <2>1. /\ q.op = "assign" /\ row' = [row EXCEPT ![p] = "invited"] /\ Proceed(s, Idle)
        /\ IsChallenge
    BY <1>1, <1>11 DEF Assign, At, Fits, RowFits, Finish
  <2>2. SuitsKind' BY <1>1, <1>3, <2>1 DEF SuitsKind, IsChallenge
  <2>3. Accompanied(p)' BY <1>6, <1>7, <2>1 DEF Accompanied
  <2>4. Fits(Idle)' BY <1>8 DEF Fits, RowFits, GuestFits
  <2> QED BY <1>1, <1>5, <1>8, <2>1, <2>2, <2>3, <2>4, ReadsStep
<1>12. CASE Respond(s) \/ Unassign(s)
  <2>1. IsChallenge BY <1>1, <1>12 DEF Respond, Unassign, At, Fits, RowFits
  <2>2. SuitsKind' BY <1>1, <1>3, <2>1 DEF SuitsKind, IsChallenge
  <2>3. Accompanied(p)' BY <1>6, <1>7, <2>1 DEF Accompanied
  <2>4. PICK r \in Request : Proceed(s, r) /\ (r = Idle \/ r.on = p) /\ Fits(r)'
    <3>1. Fits(Idle)' BY <1>8 DEF Fits, RowFits, GuestFits
    <3>2. ASSUME NEW n \in {-1, 1} , Proceed(s, ToCount(p, n, FALSE, FALSE)),
                 n = 1 => row'[p] = "joined"
          PROVE  \E r \in Request : Proceed(s, r) /\ (r = Idle \/ r.on = p) /\ Fits(r)'
      <4> DEFINE r == ToCount(p, n, FALSE, FALSE)
      <4>1. p \in Person /\ n \in Int BY <1>2 DEF Person
      <4>2. r \in Request /\ r.op = "count" BY <4>1, CountRecords, Zenon
      <4>3. r.on = p /\ r.delta = n BY DEF ToCount
      <4> HIDE DEF r
      <4>4. IsChallenge' BY <1>3, <2>1 DEF IsChallenge
      <4>5. n = 1 => Backed(p)' BY <1>2, <3>2, <4>4 DEF Backed, OnRoster
      <4>6. Fits(r)' BY <4>2, <4>3, <4>5 DEF Fits, RowFits, GuestFits
      <4> QED BY <3>2, <4>2, <4>3, <4>6 DEF r
    <3>3. CASE Proceed(s, Idle) BY <1>8, <3>1, <3>3
    <3>4. CASE Proceed(s, ToCount(p, 1, FALSE, FALSE)) /\ row'[p] = "joined" BY <3>2, <3>4
    <3>5. CASE Proceed(s, ToCount(p, -1, FALSE, FALSE)) BY <3>2, <3>5
    <3>6. CASE Respond(s)
      <4>1. CASE q.accept BY <1>2, <1>12, <3>4, <3>6, <4>1 DEF Respond
      <4>2. CASE ~q.accept BY <3>3, <3>6, <4>2 DEF Respond
      <4> QED BY <4>1, <4>2
    <3>7. CASE Unassign(s) BY <3>3, <3>5, <3>7 DEF Unassign
    <3> QED BY <1>12, <3>6, <3>7
  <2> QED BY <1>1, <1>2, <1>5, <2>2, <2>3, <2>4, ReadsStep
<1> QED BY <1>9, <1>10, <1>11, <1>12

\* Gathering the guests who go along: they are followed.
LEMMA ReadsCascade ==
  ASSUME RosterInv, TypeOK', NEW s \in Slot, Cascade(s)
  PROVE  Reads'
<1> PICK q : q = request[s] OBVIOUS
<1> DEFINE p == q.on
<1> PICK gs : gs = GuestsOf(p) OBVIOUS
<1>0. q.op = "cascade" BY DEF Cascade, At
<1>1. TypeOK /\ SuitsKind /\ q # Idle /\ q \in Request /\ Carries(q) /\ Fits(q) BY <1>0, AtStep
<1>2. p \in Player BY <1>0, <1>1 DEF Carries
<1>3. UNCHANGED <<event, row, guest, walkIn>> BY DEF Cascade, store
<1>4. OnlyAbout(p) /\ SuitsKind' BY <1>1, <1>3 DEF OnlyAbout, SuitsKind, IsChallenge
<1>5. GuestsOf(p)' = gs BY <1>3 DEF GuestsOf, Joined
<1>6. CASE gs = {}
  <2>1. Proceed(s, Idle) BY <1>6 DEF Cascade
  <2>2. Idle \in Request /\ Fits(Idle)' BY RequestRecords DEF Idle, Fits, RowFits, GuestFits
  <2>3. Accompanied(p)' BY <1>5, <1>6 DEF Accompanied
  <2> QED BY <1>1, <1>4, <2>1, <2>2, <2>3, ReadsStep
<1>7. CASE gs # {}
  <2> PICK r : r = WithdrawGuests(p, gs) OBVIOUS
  <2>1. Proceed(s, r) BY <1>7 DEF Cascade
  <2>2. r \in Request BY <1>1, <1>2, WithdrawType
  <2>3. /\ r.op = "withdraw" /\ r.on = p /\ r.guests = gs /\ r.seats = SeatsOf(gs)
        /\ r # Idle
    BY DEF WithdrawGuests, Idle
  <2>5. r.seats = SeatsOf(r.guests)' BY <1>3, <2>3 DEF SeatsOf
  <2>6. Fits(r)' BY <1>5, <2>3, <2>5 DEF Fits, RowFits, GuestFits
  <2>7. request'[s] = r BY <1>1, <2>1, Requests
  <2>8. Accompanied(p)' BY <1>5, <2>3, <2>7 DEF Accompanied, Following
  <2> QED BY <1>1, <1>2, <1>4, <2>1, <2>2, <2>3, <2>6, <2>8, ReadsStep
<1> QED BY <1>6, <1>7

\* Moving the counter disturbs nobody; the guests of who left go next.
LEMMA ReadsCount ==
  ASSUME RosterInv, TypeOK', NEW s \in Slot, Count(s)
  PROVE  Reads'
<1> PICK q : q = request[s] OBVIOUS
<1> DEFINE p == q.on
<1>0. q.op = "count" BY DEF Count, At
<1>1. TypeOK /\ SuitsKind /\ q # Idle /\ q \in Request /\ Carries(q) /\ Fits(q) BY <1>0, AtStep
<1>2. UNCHANGED <<row, guest, walkIn>> /\ (IsChallenge' <=> IsChallenge)
  <2>1. event' = event \/ event' = [event EXCEPT !.joinedCount = @ + q.delta] BY DEF Count
  <2>2. event'.kind = event.kind BY <1>1, <2>1 DEF TypeOK
  <2> QED BY <2>2 DEF IsChallenge, Count
<1>3. OnlyAbout(p) /\ SuitsKind' BY <1>1, <1>2 DEF OnlyAbout, SuitsKind
<1>4. GuestsOf(p)' = GuestsOf(p) BY <1>2 DEF GuestsOf, Joined
<1>5. CASE q.cascade
  <2> DEFINE r == [op |-> "cascade", on |-> p]
  <2>1. Proceed(s, r) BY <1>5 DEF Count
  <2>2. p \in Player BY <1>0, <1>1, <1>5 DEF Carries
  <2>3. r \in Request /\ r # Idle /\ Fits(r)'
    BY <2>2, RequestRecords DEF Idle, Fits, RowFits, GuestFits
  <2>4. request'[s] = r BY <1>1, <2>1, Requests
  <2>5. Accompanied(p)' BY <2>3, <2>4 DEF Accompanied, Following
  <2> QED BY <1>1, <1>3, <2>1, <2>3, <2>5, ReadsStep
<1>6. CASE ~q.cascade
  <2>1. Proceed(s, Idle) BY <1>6 DEF Count
  <2>2. Idle \in Request /\ Fits(Idle)' BY RequestRecords DEF Idle, Fits, RowFits, GuestFits
  <2>3. p \in Player => Accompanied(p)' BY <1>0, <1>1, <1>2, <1>4, <1>6, StaysWith
  <2> QED BY <1>1, <1>3, <2>1, <2>2, <2>3, ReadsStep
<1> QED BY <1>5, <1>6

\* A new guest comes with a sponsor who is on the roster.
LEMMA ReadsAddGuest ==
  ASSUME RosterInv, TypeOK', NEW s \in Slot, AddGuest(s)
  PROVE  Reads'
<1> PICK q : q = request[s] OBVIOUS
<1> DEFINE p == q.on
<1>0. q.op = "add_guest" BY DEF AddGuest, At
<1>1. TypeOK /\ SuitsKind /\ q # Idle /\ q \in Request /\ Carries(q) /\ Fits(q) BY <1>0, AtStep
<1>2. p \in Player /\ ~IsChallenge /\ row[p] = "joined"
  BY <1>0, <1>1 DEF Carries, Fits, GuestFits
<1>3. UNCHANGED <<event, row, walkIn>> /\ Proceed(s, Idle) BY DEF AddGuest, Finish
<1>4. PICK g \in FreeGuestIds :
       guest' = [guest EXCEPT ![g] = [sponsor |-> p, approval |-> "pending", status |-> "joined"]]
  BY DEF AddGuest
<1>5. OnlyAbout(p) BY <1>1, <1>3, <1>4 DEF OnlyAbout, IsChallenge, FreeGuestIds, TypeOK
<1>6. SuitsKind' BY <1>1, <1>2, <1>3 DEF SuitsKind, IsChallenge
<1>7. Accompanied(p)' BY <1>2, <1>3 DEF Accompanied
<1>8. Idle \in Request /\ Fits(Idle)' BY RequestRecords DEF Idle, Fits, RowFits, GuestFits
<1> QED BY <1>1, <1>2, <1>3, <1>5, <1>6, <1>7, <1>8, ReadsStep

\* Guests withdrawn together leave none behind a sponsor who left.
LEMMA ReadsWithdraw ==
  ASSUME RosterInv, TypeOK', NEW s \in Slot, Withdraw(s)
  PROVE  Reads'
<1> PICK q : q = request[s] OBVIOUS
<1> DEFINE p == q.on
<1>0. q.op = "withdraw" BY DEF Withdraw, At
<1>1. TypeOK /\ SuitsKind /\ q # Idle /\ q \in Request /\ Carries(q) /\ Fits(q) BY <1>0, AtStep
<1>2. /\ p \in Player /\ q.guests \subseteq GuestsOf(p) /\ q.seats \in Nat
      /\ q.guests \subseteq GuestId
  BY <1>0, <1>1 DEF Carries, Fits, GuestFits
<1>3. UNCHANGED <<event, row, walkIn>> BY DEF Withdraw
<1>4. guest' = [g \in GuestId |-> IF g \in q.guests THEN [guest[g] EXCEPT !.status = "cancelled"]
                                 ELSE guest[g]]
  BY DEF Withdraw
<1>5. \A g \in q.guests : /\ guest'[g].sponsor = p /\ guest[g].sponsor = p
                          /\ guest'[g].status = "cancelled" /\ guest[g] # NoGuest
  <2> SUFFICES ASSUME NEW g \in q.guests
               PROVE  /\ guest'[g].sponsor = p /\ guest[g].sponsor = p
                      /\ guest'[g].status = "cancelled" /\ guest[g] # NoGuest
    OBVIOUS
  <2>1. g \in GuestId /\ Joined(g) /\ guest[g].sponsor = p BY <1>2 DEF GuestsOf
  <2>2. guest[g] # NoGuest BY <1>1, <2>1, GuestType
  <2>3. guest[g] \in [sponsor : Player, approval : {"pending", "approved", "rejected"},
                     status : {"joined", "cancelled"}]
    BY <1>1, <2>1, <2>2 DEF TypeOK
  <2>4. guest'[g] = [guest[g] EXCEPT !.status = "cancelled"] BY <1>4, <2>1
  <2> QED BY <2>1, <2>2, <2>3, <2>4
<1>6. \A g \in GuestId : g \notin q.guests => guest'[g] = guest[g] BY <1>4
<1>7. OnlyAbout(p) BY <1>3, <1>5, <1>6 DEF OnlyAbout, IsChallenge
<1>8. SuitsKind' BY <1>1, <1>3, <1>5, <1>6, <1>2 DEF SuitsKind, IsChallenge
<1>9. GuestsOf(p)' = GuestsOf(p) \ q.guests
  BY <1>2, <1>5, <1>6 DEF GuestsOf, Joined
<1>10. Accompanied(p)'
  <2>1. CASE Following(p)
    <3>1. q.guests = GuestsOf(p) BY <1>0, <1>1, <1>2, <2>1, Alone
    <3> QED BY <1>9, <3>1 DEF Accompanied
  <2>2. CASE ~Following(p)
    <3>1. Accompanied(p) BY <1>2 DEF RosterInv, Reads
    <3> QED BY <1>3, <1>9, <2>2, <3>1 DEF Accompanied
  <2> QED BY <2>1, <2>2
<1>11. PICK r \in Request : Proceed(s, r) /\ (r = Idle \/ r.on = p) /\ Fits(r)'
  <2>1. Idle \in Request /\ Fits(Idle)' BY RequestRecords DEF Idle, Fits, RowFits, GuestFits
  <2>2. CASE q.seats > 0
    <3> DEFINE r == ToCount(p, -q.seats, FALSE, FALSE)
    <3>1. p \in Person /\ -q.seats \in Int BY <1>2 DEF Person
    <3>2. r \in Request /\ r.op = "count" BY <3>1, CountRecords, Zenon
    <3>3. r.on = p /\ r.delta = -q.seats BY DEF ToCount
    <3>4. Proceed(s, r) BY <2>2 DEF Withdraw
    <3> HIDE DEF r
    <3>5. r.delta < 0 BY <1>2, <2>2, <3>3
    <3>6. Fits(r)' BY <3>2, <3>3, <3>5, <1>2 DEF Fits, RowFits, GuestFits
    <3> QED BY <3>2, <3>3, <3>4, <3>6
  <2>3. CASE ~(q.seats > 0) BY <2>1, <2>3 DEF Withdraw
  <2> QED BY <2>2, <2>3
<1> QED BY <1>1, <1>7, <1>8, <1>10, <1>11, ReadsStep

\* A verdict on a guest who is on the roster disturbs nobody, and backs the count it owes.
LEMMA ReadsJudge ==
  ASSUME RosterInv, TypeOK', NEW s \in Slot, Judge(s)
  PROVE  Reads'
<1> PICK q : q = request[s] OBVIOUS
<1> DEFINE p == q.on
           g == q.guest
<1>0. q.op = "judge" BY DEF Judge, At
<1>1. TypeOK /\ SuitsKind /\ q # Idle /\ q \in Request /\ Carries(q) /\ Fits(q) BY <1>0, AtStep
<1>2. /\ p \in Player /\ g \in GuestId /\ q.verdict \in {"approved", "rejected"}
      /\ Joined(g) /\ guest[g].sponsor = p
  BY <1>0, <1>1 DEF Carries, Fits, GuestFits
<1>3. UNCHANGED <<event, row, walkIn>> BY DEF Judge
<1>4. guest' = [guest EXCEPT ![g].approval = q.verdict] BY DEF Judge
<1>5. guest[g] # NoGuest BY <1>1, <1>2, GuestType
<1>6. guest[g] \in [sponsor : Player, approval : {"pending", "approved", "rejected"},
                   status : {"joined", "cancelled"}]
  BY <1>1, <1>2, <1>5 DEF TypeOK
<1>7. /\ guest'[g].sponsor = p /\ guest'[g].status = "joined" /\ guest'[g].approval = q.verdict
      /\ \A h \in GuestId : h # g => guest'[h] = guest[h]
  BY <1>1, <1>2, <1>4, <1>6 DEF TypeOK, Joined
<1>8. OnlyAbout(p) BY <1>2, <1>3, <1>7 DEF OnlyAbout, IsChallenge
<1>9. ~IsChallenge BY <1>1, <1>2, <1>5 DEF SuitsKind
<1>10. SuitsKind' BY <1>1, <1>3, <1>9 DEF SuitsKind, IsChallenge
<1>11. GuestsOf(p)' = GuestsOf(p) BY <1>2, <1>7 DEF GuestsOf, Joined
<1>12. Accompanied(p)' BY <1>0, <1>1, <1>2, <1>3, <1>11, StaysWith
<1>13. PICK r \in Request : Proceed(s, r) /\ (r = Idle \/ r.on = p) /\ Fits(r)'
  <2>1. Idle \in Request /\ Fits(Idle)' BY RequestRecords DEF Idle, Fits, RowFits, GuestFits
  <2>2. ASSUME NEW n \in {-1, 1}, Proceed(s, ToCount(p, n, FALSE, FALSE)),
               n = 1 => q.verdict = "approved"
        PROVE  \E r \in Request : Proceed(s, r) /\ (r = Idle \/ r.on = p) /\ Fits(r)'
    <3> DEFINE r == ToCount(p, n, FALSE, FALSE)
    <3>1. p \in Person /\ n \in Int BY <1>2 DEF Person
    <3>2. r \in Request /\ r.op = "count" BY <3>1, CountRecords, Zenon
    <3>3. r.on = p /\ r.delta = n BY DEF ToCount
    <3> HIDE DEF r
    <3>4. n = 1 => Backed(p)'
      BY <1>2, <1>3, <1>7, <1>9, <2>2 DEF Backed, GuestsIn, Joined, IsChallenge
    <3>5. Fits(r)' BY <3>2, <3>3, <3>4 DEF Fits, RowFits, GuestFits
    <3> QED BY <2>2, <3>2, <3>3, <3>5 DEF r
  <2>3. CASE q.verdict = "approved"
    <3>1. Proceed(s, ToCount(p, 1, FALSE, FALSE)) BY <2>3 DEF Judge
    <3> QED BY <2>2, <2>3, <3>1
  <2>4. CASE q.verdict # "approved" /\ q.was = "approved"
    <3>1. Proceed(s, ToCount(p, -1, FALSE, FALSE)) BY <2>4 DEF Judge
    <3> QED BY <2>2, <3>1
  <2>5. CASE q.verdict # "approved" /\ q.was # "approved"
    <3>1. Proceed(s, Idle) BY <2>5 DEF Judge
    <3> QED BY <2>1, <3>1
  <2> QED BY <2>3, <2>4, <2>5
<1> QED BY <1>1, <1>8, <1>10, <1>12, <1>13, ReadsStep

\* A walk-in's row disturbs nobody.
LEMMA ReadsWalkIn ==
  ASSUME RosterInv, TypeOK', NEW s \in Slot, WalkInRow(s) \/ WalkInOut(s)
  PROVE  Reads'
<1> PICK q : q = request[s] OBVIOUS
<1> DEFINE p == q.on
<1>0. q.op \in {"walk_in_row", "walk_in_out"} BY DEF WalkInRow, WalkInOut, At
<1>1. TypeOK /\ SuitsKind /\ q # Idle /\ q \in Request /\ Carries(q) /\ Fits(q) BY <1>0, AtStep
<1>2. p \in WalkIn BY <1>0, <1>1 DEF Carries
<1>3. UNCHANGED <<event, row, guest>> BY DEF WalkInRow, WalkInOut
<1>4. \A w \in WalkIn : w # p => walkIn'[w] = walkIn[w] BY <1>1 DEF WalkInRow, WalkInOut, TypeOK
<1>5. OnlyAbout(p) /\ SuitsKind' BY <1>1, <1>3, <1>4 DEF OnlyAbout, IsChallenge, SuitsKind
<1>6. p \in Player => Accompanied(p)'
  <2>1. GuestsOf(p)' = GuestsOf(p) BY <1>3 DEF GuestsOf, Joined
  <2> QED BY <1>0, <1>1, <1>3, <2>1, StaysWith
<1>7. PICK r \in Request : Proceed(s, r) /\ (r = Idle \/ r.on = p) /\ Fits(r)'
  <2>1. Idle \in Request /\ Fits(Idle)' BY RequestRecords DEF Idle, Fits, RowFits, GuestFits
  <2>2. CASE WalkInRow(s) BY <2>1, <2>2 DEF WalkInRow, Finish
  <2>3. CASE WalkInOut(s)
    <3> DEFINE r == ToCount(p, -1, FALSE, FALSE)
    <3>1. p \in Person /\ -1 \in Int BY <1>2 DEF Person
    <3>2. r \in Request /\ r.op = "count" BY <3>1, CountRecords, Zenon
    <3>3. r.on = p /\ r.delta = -1 BY DEF ToCount
    <3>4. Proceed(s, r) BY <2>3 DEF WalkInOut
    <3> HIDE DEF r
    <3>5. Fits(r)' BY <3>2, <3>3 DEF Fits, RowFits, GuestFits
    <3> QED BY <3>2, <3>3, <3>4, <3>5
  <2> QED BY <2>2, <2>3
<1> QED BY <1>1, <1>5, <1>6, <1>7, ReadsStep

\* Saving the event disturbs no request about a person: its kind is not saved.
LEMMA ReadsSave ==
  ASSUME RosterInv, TypeOK', NEW s \in Slot,
         ProposalSave(s) \/ SetStatusSave(s) \/ UpdateSave(s) \/ CancelSave(s) \/ RestoreSave(s)
  PROVE  Reads'
<1> PICK q : q = request[s] OBVIOUS
<1>0. q.op \in {"proposal", "status", "update", "cancel", "restore"}
  BY DEF ProposalSave, SetStatusSave, UpdateSave, CancelSave, RestoreSave, At
<1>1. TypeOK /\ SuitsKind /\ q # Idle /\ Carries(q) BY <1>0, AtStep
<1>2. q.on = TheEvent /\ TheEvent \notin Player BY <1>0, <1>1, RosterAssumption DEF Carries
<1>3. UNCHANGED <<row, guest, walkIn>> /\ Proceed(s, Idle)
  BY DEF ProposalSave, SetStatusSave, UpdateSave, CancelSave, RestoreSave, Save, Finish
<1>4. event'.kind = event.kind
  BY <1>1, ZenonT(30) DEF TypeOK, ProposalSave, SetStatusSave, UpdateSave, CancelSave, RestoreSave, Save,
              Restored
<1>5. OnlyAbout(TheEvent) /\ SuitsKind'
  BY <1>1, <1>3, <1>4 DEF OnlyAbout, IsChallenge, SuitsKind
<1>6. Idle \in Request /\ Fits(Idle)' BY RequestRecords DEF Idle, Fits, RowFits, GuestFits
<1> QED BY <1>1, <1>2, <1>3, <1>5, <1>6, ReadsStep

\* A change of sport disturbs nobody: neither sport is a challenge.
LEMMA ReadsSport ==
  ASSUME RosterInv, ChangeSport
  PROVE  Reads'
<1>1. UNCHANGED <<row, guest, walkIn, request>> BY DEF ChangeSport
<1>2. ~IsChallenge /\ ~IsChallenge'
  BY DEF ChangeSport, IsChallenge, RosterInv, TypeInv, TypeOK
<1>3. Apart' BY <1>1 DEF RosterInv, Reads, Apart
<1>4. SuitsKind' BY <1>1, <1>2 DEF RosterInv, Reads, SuitsKind
<1>5. ASSUME NEW s \in Slot PROVE Fits(request[s])'
  <2>1. Fits(request[s]) BY DEF RosterInv, Reads
  <2> QED BY <1>1, <1>2, <2>1
          DEF Fits, RowFits, GuestFits, Backed, GuestsOf, SeatsOf, Joined, GuestsIn, OnRoster
<1>6. ASSUME NEW p \in Player PROVE Accompanied(p)'
  <2>1. Accompanied(p) BY DEF RosterInv, Reads
  <2> QED BY <1>1, <2>1 DEF Accompanied, Following, GuestsOf, Joined
<1> QED BY <1>3, <1>4, <1>5, <1>6 DEF Reads

\* A new event has nothing in flight.
LEMMA RosterInit == Init => RosterInv
<1> SUFFICES ASSUME Init PROVE RosterInv OBVIOUS
<1>1. TypeInv BY TypeInit
<1>2. /\ \A s \in Slot : request[s] = Idle
      /\ \A p \in Player : row[p] = "none"
      /\ \A g \in GuestId : guest[g] = NoGuest
  BY DEF Init
<1>3. Apart /\ SuitsKind BY <1>2 DEF Apart, SuitsKind
<1>4. \A s \in Slot : Fits(request[s]) BY <1>2 DEF Fits, RowFits, GuestFits, Idle
<1>5. \A p \in Player : Accompanied(p) BY <1>2 DEF Accompanied, GuestsOf, Joined, NoGuest
<1> QED BY <1>1, <1>3, <1>4, <1>5 DEF RosterInv, Reads

\* Every step keeps what requests in flight rely on.
LEMMA RosterNext ==
  ASSUME "person" \in Exclusive, "judge_withdrawn" \notin Unforeseen, RosterInv, [Next]_vars
  PROVE  RosterInv'
<1>0. TypeInv /\ TypeOK BY DEF RosterInv, TypeInv
<1>1. TypeInv' /\ TypeOK' BY <1>0, TypeNext DEF TypeInv
<1>2. CASE UNCHANGED vars
  BY <1>1, <1>2 DEF vars, store, RosterInv, Reads, Apart, SuitsKind, IsChallenge, Fits, RowFits,
                    GuestFits, Backed, GuestsOf, SeatsOf, Joined, GuestsIn, OnRoster,
                    Accompanied, Following
<1>3. CASE Reading
  <2>1. PICK s \in Slot, r \in Request : Opens(s, r) /\ Fresh(r) BY <1>0, <1>3, ReadingOpens
  <2> QED BY <1>1, <2>1, ReadsOpens DEF RosterInv
<1>4. ASSUME NEW s \in Slot, Writing(s) PROVE RosterInv'
  BY <1>1, <1>4, ReadsTakeSeat, ReadsRow, ReadsCascade, ReadsCount, ReadsAddGuest, ReadsWithdraw,
     ReadsJudge, ReadsWalkIn, ReadsSave
     DEF Writing, RosterInv
<1>5. CASE ChangeSport BY <1>1, <1>5, ReadsSport DEF RosterInv
<1> QED BY <1>2, <1>3, <1>4, <1>5, NextSteps

\* No guest is on the roster without the sponsor there, but while the request that takes
\* the sponsor off is under way (cascadeGuestsOfSponsor): whatever the capacity and however
\* many requests about different people overlap.
THEOREM GuestsStayWithSponsors ==
  ASSUME "person" \in Exclusive, "judge_withdrawn" \notin Unforeseen
  PROVE  Spec => []GuestsHaveSponsors
<1>1. RosterInv => GuestsHaveSponsors
  <2> SUFFICES ASSUME RosterInv, NEW g \in GuestId, Joined(g)
               PROVE  row[guest[g].sponsor] = "joined" \/ Leaving(guest[g].sponsor)
    BY DEF GuestsHaveSponsors
  <2>1. guest[g].sponsor \in Player BY GuestType DEF RosterInv, TypeInv
  <2>2. g \in GuestsOf(guest[g].sponsor) BY DEF GuestsOf
  <2>3. row[guest[g].sponsor] = "joined" \/ Following(guest[g].sponsor)
    BY <2>1, <2>2 DEF RosterInv, Reads, Accompanied
  <2> QED BY <2>3 DEF Following, Leaving
<1>2. RosterInv /\ [Next]_vars => RosterInv' BY RosterNext
<1> QED BY <1>1, <1>2, RosterInit, PTL DEF Spec

-----------------------------------------------------------------------------
(* Counting seats *)

\* What request r still owes the counter, and whether it has a seat but no row yet.
LagOf(r) == IF r.op = "count" THEN r.delta ELSE 0
Holds(r) == r.op \in {"join_row", "walk_in_row"}
HeldBy(r) == IF Holds(r) THEN 1 ELSE 0

\* The seat somebody of that status has.
SeatFor(status) == IF status = "joined" THEN 1 ELSE 0

\* The people with a seat, and those with one on the way, are finitely many.
LEMMA Finite ==
  /\ IsFiniteSet(OnRoster) /\ IsFiniteSet(GuestsIn) /\ IsFiniteSet(WalkInsIn)
  /\ IsFiniteSet({s \in Slot : Holds(request[s])})
  /\ Cardinality(OnRoster) \in Nat /\ Cardinality(GuestsIn) \in Nat
  /\ Cardinality(WalkInsIn) \in Nat /\ Reserved \in Nat
<1>1. /\ OnRoster \in SUBSET Player /\ GuestsIn \in SUBSET GuestId /\ WalkInsIn \in SUBSET WalkIn
      /\ {s \in Slot : Holds(request[s])} \in SUBSET Slot
  BY DEF OnRoster, GuestsIn, WalkInsIn
<1>2. /\ IsFiniteSet(OnRoster) /\ IsFiniteSet(GuestsIn) /\ IsFiniteSet(WalkInsIn)
      /\ IsFiniteSet({s \in Slot : Holds(request[s])})
  BY <1>1, RosterAssumption, FS_Subset
<1>3. Reserved = Cardinality({s \in Slot : Holds(request[s])}) BY DEF Reserved, Holds
<1> QED BY <1>2, <1>3, FS_CardinalityType

\* The same after a step.
LEMMA FiniteNext ==
  /\ IsFiniteSet(OnRoster') /\ IsFiniteSet(GuestsIn') /\ IsFiniteSet(WalkInsIn')
  /\ IsFiniteSet({s \in Slot : Holds(request'[s])})
<1>1. /\ OnRoster' \in SUBSET Player /\ GuestsIn' \in SUBSET GuestId
      /\ WalkInsIn' \in SUBSET WalkIn
      /\ {s \in Slot : Holds(request'[s])} \in SUBSET Slot
  BY DEF OnRoster, GuestsIn, WalkInsIn
<1> QED BY <1>1, RosterAssumption, FS_Subset

\* What is owed is a number.
LEMMA LagType ==
  ASSUME TypeOK
  PROVE  Lag \in Int /\ \A s \in Slot : LagOf(request[s]) \in Int
<1>1. ASSUME NEW s \in Slot PROVE LagOf(request[s]) \in Int
  <2>1. Carries(request[s]) BY InFlight
  <2> QED BY <2>1 DEF LagOf, Carries
<1> DEFINE f == [s \in Slot |-> IF At(s, "count") THEN request[s].delta ELSE 0]
<1>2. \A s \in Slot : f[s] \in Int BY <1>1 DEF LagOf, At
<1>3. Lag = SumFunctionOnSet(f, Slot) BY DEF Lag
<1> HIDE DEF f
<1> QED BY <1>1, <1>2, <1>3, SumType, RosterAssumption

\* One request going on moves what is owed, and what is reserved, by what that request did.
LEMMA SlotMove ==
  ASSUME TypeOK, TypeOK', NEW s \in Slot, NEW r, Proceed(s, r)
  PROVE  /\ Lag' = Lag - LagOf(request[s]) + LagOf(r)
         /\ Reserved' = Reserved - HeldBy(request[s]) + HeldBy(r)
<1>1. request'[s] = r /\ \A t \in Slot : t # s => request'[t] = request[t] BY Requests
<1> DEFINE f == [t \in Slot |-> IF At(t, "count") THEN request[t].delta ELSE 0]
           g == [t \in Slot |-> IF request'[t].op = "count" THEN request'[t].delta ELSE 0]
<1>2. Lag = SumFunctionOnSet(f, Slot) /\ Lag' = SumFunctionOnSet(g, Slot) BY DEF Lag, At
<1>3. \A t \in Slot : f[t] \in Int BY LagType DEF LagOf, At
<1>4. \A t \in Slot : g[t] \in Int
  <2>1. \A t \in Slot : request'[t] \in Request BY DEF TypeOK
  <2> QED BY <2>1, RequestShape DEF Carries
<1>5. \A t \in Slot \ {s} : g[t] = f[t] BY <1>1 DEF At
<1>6. f[s] = LagOf(request[s]) /\ g[s] = LagOf(r) BY <1>1 DEF LagOf, At
<1>7. Lag' = Lag - LagOf(request[s]) + LagOf(r)
  <2> HIDE DEF f, g
  <2>1. SumFunctionOnSet(g, Slot) = SumFunctionOnSet(f, Slot) - f[s] + g[s]
    BY <1>3, <1>4, <1>5, RosterAssumption, SumUpdate
  <2> QED BY <1>2, <1>6, <2>1
<1> DEFINE A == {t \in Slot : Holds(request[t])}
           B == {t \in Slot : Holds(request'[t])}
<1>8. A \ {s} = B \ {s} BY <1>1
<1>9. IsFiniteSet(A) /\ IsFiniteSet(B) BY Finite, FiniteNext
<1>10. (s \in A <=> Holds(request[s])) /\ (s \in B <=> Holds(r)) BY <1>1
<1>11. Reserved = Cardinality(A) /\ Reserved' = Cardinality(B) BY DEF Reserved, Holds
<1>12. Cardinality(B) = Cardinality(A) - One(s \in A) + One(s \in B)
  <2> HIDE DEF A, B
  <2> QED BY <1>8, <1>9, SetMove
<1>13. Reserved' = Reserved - HeldBy(request[s]) + HeldBy(r)
  <2> HIDE DEF A, B
  <2> QED BY <1>10, <1>11, <1>12 DEF One, HeldBy, SeatFor
<1> QED BY <1>7, <1>13

\* A row written moves the number of members on the roster by that member.
LEMMA RowMove ==
  ASSUME NEW p \in Player, \A q \in Player \ {p} : row'[q] = row[q]
  PROVE  Cardinality(OnRoster') = Cardinality(OnRoster) - SeatFor(row[p]) + SeatFor(row'[p])
<1>1. /\ OnRoster \ {p} = OnRoster' \ {p}
      /\ (p \in OnRoster <=> row[p] = "joined") /\ (p \in OnRoster' <=> row'[p] = "joined")
  BY DEF OnRoster
<1>2. Cardinality(OnRoster') = Cardinality(OnRoster) - One(p \in OnRoster) + One(p \in OnRoster')
  BY <1>1, Finite, FiniteNext, SetMove
<1> QED BY <1>1, <1>2 DEF One, SeatFor

\* The same for a walk-in.
LEMMA WalkInMove ==
  ASSUME NEW w \in WalkIn, \A x \in WalkIn \ {w} : walkIn'[x] = walkIn[x]
  PROVE  Cardinality(WalkInsIn')
           = Cardinality(WalkInsIn) - SeatFor(walkIn[w]) + SeatFor(walkIn'[w])
<1>1. /\ WalkInsIn \ {w} = WalkInsIn' \ {w}
      /\ (w \in WalkInsIn <=> walkIn[w] = "joined") /\ (w \in WalkInsIn' <=> walkIn'[w] = "joined")
  BY DEF WalkInsIn
<1>2. Cardinality(WalkInsIn')
        = Cardinality(WalkInsIn) - One(w \in WalkInsIn) + One(w \in WalkInsIn')
  BY <1>1, Finite, FiniteNext, SetMove
<1> QED BY <1>1, <1>2 DEF One, SeatFor

\* The same for a guest.
LEMMA GuestMove ==
  ASSUME NEW g \in GuestId, \A h \in GuestId : h # g => guest'[h] = guest[h]
  PROVE  Cardinality(GuestsIn')
           = Cardinality(GuestsIn) - One(g \in GuestsIn) + One(g \in GuestsIn')
<1>1. GuestsIn \ {g} = GuestsIn' \ {g} BY DEF GuestsIn, Joined
<1> QED BY <1>1, Finite, FiniteNext, SetMove

\* By how much the counter and what is owed to it exceed the seats in use.
Balance == event.joinedCount + Lag - (Seated + Reserved)

\* Members and walk-ins with a seat or on their way in.
Entering == Cardinality(OnRoster) + Cardinality(WalkInsIn) + Reserved

\* They are numbers.
LEMMA BalanceType ==
  ASSUME TypeOK
  PROVE  /\ Balance \in Int /\ Entering \in Nat /\ Seated \in Nat
         /\ event.joinedCount \in Nat /\ Lag \in Int
BY Finite, LagType DEF Balance, Entering, Seated, TypeOK

\* What a step does to the balance, from what it does to its parts.
LEMMA Tally ==
  ASSUME TypeOK, TypeOK', NEW s \in Slot, NEW r \in Request, Proceed(s, r)
  PROVE  /\ Balance' = Balance + (event'.joinedCount - event.joinedCount)
                          - LagOf(request[s]) + LagOf(r) + HeldBy(request[s]) - HeldBy(r)
                          - (Cardinality(OnRoster') - Cardinality(OnRoster))
                          - (Cardinality(GuestsIn') - Cardinality(GuestsIn))
                          - (Cardinality(WalkInsIn') - Cardinality(WalkInsIn))
         /\ Entering' = Entering - HeldBy(request[s]) + HeldBy(r)
                          + (Cardinality(OnRoster') - Cardinality(OnRoster))
                          + (Cardinality(WalkInsIn') - Cardinality(WalkInsIn))
         /\ Balance \in Int /\ Entering \in Nat
         /\ event.joinedCount \in Nat /\ event'.joinedCount \in Nat
         /\ LagOf(request[s]) \in Int /\ LagOf(r) \in Int
         /\ Cardinality(OnRoster) \in Nat /\ Cardinality(OnRoster') \in Nat
         /\ Cardinality(GuestsIn) \in Nat /\ Cardinality(GuestsIn') \in Nat
         /\ Cardinality(WalkInsIn) \in Nat /\ Cardinality(WalkInsIn') \in Nat
<1>1. /\ Lag' = Lag - LagOf(request[s]) + LagOf(r)
      /\ Reserved' = Reserved - HeldBy(request[s]) + HeldBy(r)
  BY SlotMove
<1>2. /\ Lag \in Int /\ LagOf(request[s]) \in Int /\ event.joinedCount \in Nat
      /\ Cardinality(OnRoster) \in Nat /\ Cardinality(GuestsIn) \in Nat
      /\ Cardinality(WalkInsIn) \in Nat /\ Reserved \in Nat
      /\ Balance \in Int /\ Entering \in Nat
  BY LagType, Finite, BalanceType DEF TypeOK
<1>3. /\ Cardinality(OnRoster') \in Nat /\ Cardinality(GuestsIn') \in Nat
      /\ Cardinality(WalkInsIn') \in Nat /\ event'.joinedCount \in Nat
  BY FiniteNext, FS_CardinalityType DEF TypeOK
<1>4. LagOf(r) \in Int BY RequestShape DEF LagOf, Carries
<1>5. HeldBy(request[s]) \in Int /\ HeldBy(r) \in Int BY DEF HeldBy
<1>6. /\ Seated' = Cardinality(OnRoster') + Cardinality(GuestsIn') + Cardinality(WalkInsIn')
      /\ Balance' = event'.joinedCount + Lag' - (Seated' + Reserved')
      /\ Entering' = Cardinality(OnRoster') + Cardinality(WalkInsIn') + Reserved'
  BY DEF Seated, Balance, Entering
<1> QED BY <1>1, <1>2, <1>3, <1>4, <1>5, <1>6 DEF Seated, Balance, Entering

\* The step keeps the balance and lets nobody in.
Keeps == Balance' = Balance /\ Entering' <= Entering

\* The same, while no row and not the counter is written.
LEMMA SlotTally ==
  ASSUME TypeOK, TypeOK', NEW s \in Slot, NEW r \in Request, Proceed(s, r),
         event'.joinedCount = event.joinedCount, UNCHANGED <<row, guest, walkIn>>,
         LagOf(r) = LagOf(request[s]), Holds(r) <=> Holds(request[s])
  PROVE  Keeps
<1>1. OnRoster' = OnRoster /\ GuestsIn' = GuestsIn /\ WalkInsIn' = WalkInsIn
  BY DEF OnRoster, GuestsIn, WalkInsIn, Joined
<1>2. HeldBy(r) = HeldBy(request[s]) /\ HeldBy(r) \in Int BY DEF HeldBy
<1> QED BY <1>1, <1>2, Tally DEF Keeps

\* Beginning a request owes nothing and reserves nothing.
LEMMA TallyOpens ==
  ASSUME TypeOK, TypeOK', NEW s \in Slot, NEW r \in Request, Opens(s, r), Fresh(r)
  PROVE  Keeps
<1>1. LagOf(r) = 0 /\ ~Holds(r) BY DEF Fresh, LagOf, Holds
<1>2. LagOf(request[s]) = 0 /\ ~Holds(request[s]) BY DEF Opens, Idle, LagOf, Holds
<1>3. Proceed(s, r) /\ UNCHANGED <<event, row, guest, walkIn>> BY DEF Opens, store
<1> QED BY <1>1, <1>2, <1>3, SlotTally

\* Saving the event owes nothing and reserves nothing.
LEMMA TallySave ==
  ASSUME TypeOK, TypeOK', NEW s \in Slot,
         ProposalSave(s) \/ SetStatusSave(s) \/ UpdateSave(s) \/ CancelSave(s) \/ RestoreSave(s)
  PROVE  Keeps
<1>1. LagOf(request[s]) = 0 /\ ~Holds(request[s])
  BY DEF ProposalSave, SetStatusSave, UpdateSave, CancelSave, RestoreSave, At, LagOf, Holds
<1>2. Idle \in Request /\ LagOf(Idle) = 0 /\ ~Holds(Idle) BY RequestRecords DEF Idle, LagOf, Holds
<1>3. UNCHANGED <<row, guest, walkIn>> /\ Proceed(s, Idle)
  BY DEF ProposalSave, SetStatusSave, UpdateSave, CancelSave, RestoreSave, Save, Finish
<1>4. event'.joinedCount = event.joinedCount
  BY DEF TypeOK, ProposalSave, SetStatusSave, UpdateSave, CancelSave, RestoreSave, Save, Restored
<1> QED BY <1>1, <1>2, <1>3, <1>4, SlotTally

\* Nor does gathering guests.
LEMMA TallyCascade ==
  ASSUME TypeOK, TypeOK', NEW s \in Slot, Cascade(s)
  PROVE  Keeps
<1>1. request[s].op = "cascade" /\ request[s].on \in Player BY InFlight DEF Cascade, At, Carries
<1>2. LagOf(request[s]) = 0 /\ ~Holds(request[s]) BY <1>1 DEF LagOf, Holds
<1>3. UNCHANGED <<event, row, guest, walkIn>> BY DEF Cascade, store
<1>4. PICK r \in Request : Proceed(s, r) /\ LagOf(r) = 0 /\ ~Holds(r)
  <2>1. Idle \in Request /\ LagOf(Idle) = 0 /\ ~Holds(Idle) BY RequestRecords DEF Idle, LagOf, Holds
  <2> DEFINE r == WithdrawGuests(request[s].on, GuestsOf(request[s].on))
  <2>2. r \in Request BY <1>1, WithdrawType
  <2>3. LagOf(r) = 0 /\ ~Holds(r) BY DEF WithdrawGuests, LagOf, Holds
  <2> QED BY <2>1, <2>2, <2>3 DEF Cascade
<1> QED BY <1>2, <1>3, <1>4, SlotTally

\* A change of sport counts nothing.
LEMMA TallySport ==
  ASSUME TypeOK, ChangeSport
  PROVE  Keeps
<1>1. UNCHANGED <<row, guest, walkIn, request>> /\ event'.joinedCount = event.joinedCount
  BY DEF ChangeSport, TypeOK
<1>2. /\ OnRoster' = OnRoster /\ GuestsIn' = GuestsIn /\ WalkInsIn' = WalkInsIn
      /\ Lag' = Lag /\ Reserved' = Reserved
  BY <1>1 DEF OnRoster, GuestsIn, WalkInsIn, Joined, Lag, Reserved, At
<1> QED BY <1>1, <1>2, BalanceType DEF Keeps, Balance, Entering, Seated

\* Taking a seat lets one in, while the counter is below the cap.
Admits ==
  /\ event.maxPlayers # Null /\ event.joinedCount < event.maxPlayers
  /\ Balance' = Balance /\ Entering' = Entering + 1

\* A seat is taken, below the cap, or nothing happens.
LEMMA TallyTakeSeat ==
  ASSUME TypeOK, TypeOK', NEW s \in Slot, JoinSeat(s) \/ WalkInSeat(s)
  PROVE  Keeps \/ Admits
<1> PICK q : q = request[s] OBVIOUS
<1>0. q \in Request /\ Carries(q) BY InFlight
<1>1. q.op \in {"join_seat", "walk_in_seat"} BY DEF JoinSeat, WalkInSeat, At
<1>2. LagOf(request[s]) = 0 /\ ~Holds(request[s]) BY <1>1 DEF LagOf, Holds
<1>3. UNCHANGED <<row, guest, walkIn>> BY DEF JoinSeat, WalkInSeat, TakeSeat
<1>4. CASE CanJoin(event.status) /\ HasRoom
  <2>1. event'.joinedCount = event.joinedCount + 1
    BY <1>4 DEF JoinSeat, WalkInSeat, TakeSeat, TypeOK
  <2>2. PICK r \in Request : Proceed(s, r) /\ LagOf(r) = 0 /\ Holds(r)
    <3>1. CASE JoinSeat(s)
      <4>1. q.op = "join_seat" /\ q.had \in RowStatus /\ q.on \in Player
        BY <1>0, <3>1 DEF JoinSeat, At, Carries
      <4> DEFINE r == [op |-> "join_row", on |-> q.on, had |-> q.had]
      <4>2. [q EXCEPT !.op = "join_row"] = r BY <1>0, <4>1, JoinSeatRecord
      <4>3. r \in Request BY <4>1, RequestRecords
      <4>4. Proceed(s, r) BY <1>4, <3>1, <4>2 DEF JoinSeat, TakeSeat
      <4>5. LagOf(r) = 0 /\ Holds(r) BY DEF LagOf, Holds
      <4> QED BY <4>3, <4>4, <4>5
    <3>2. CASE WalkInSeat(s)
      <4>1. q.op = "walk_in_seat" /\ q.on \in WalkIn BY <1>0, <3>2 DEF WalkInSeat, At, Carries
      <4> DEFINE r == [op |-> "walk_in_row", on |-> q.on]
      <4>2. [q EXCEPT !.op = "walk_in_row"] = r BY <1>0, <4>1, WalkInSeatRecord
      <4>3. r \in Request BY <4>1, RequestRecords
      <4>4. Proceed(s, r) BY <1>4, <3>2, <4>2 DEF WalkInSeat, TakeSeat
      <4>5. LagOf(r) = 0 /\ Holds(r) BY DEF LagOf, Holds
      <4> QED BY <4>3, <4>4, <4>5
    <3> QED BY <3>1, <3>2
  <2>3. OnRoster' = OnRoster /\ GuestsIn' = GuestsIn /\ WalkInsIn' = WalkInsIn
    BY <1>3 DEF OnRoster, GuestsIn, WalkInsIn, Joined
  <2>4. HeldBy(request[s]) = 0 /\ HeldBy(r) = 1 BY <1>2, <2>2 DEF HeldBy
  <2>5. Balance' = Balance /\ Entering' = Entering + 1 BY <1>2, <2>1, <2>2, <2>3, <2>4, Tally
  <2>6. event.maxPlayers # Null /\ event.joinedCount < event.maxPlayers BY <1>4 DEF HasRoom
  <2> QED BY <2>5, <2>6 DEF Admits
<1>5. CASE ~(CanJoin(event.status) /\ HasRoom)
  <2>1. event' = event /\ Proceed(s, Idle) BY <1>5 DEF JoinSeat, WalkInSeat, TakeSeat, Finish
  <2>2. Idle \in Request /\ LagOf(Idle) = 0 /\ ~Holds(Idle) BY RequestRecords DEF Idle, LagOf, Holds
  <2> QED BY <1>2, <1>3, <2>1, <2>2, SlotTally
<1> QED BY <1>4, <1>5

\* What a row written moves on the roster, the same request owes or had reserved.
LEMMA TallyRow ==
  ASSUME RosterInv, TypeOK', NEW s \in Slot,
         JoinRow(s) \/ LeaveRow(s) \/ Assign(s) \/ Respond(s) \/ Unassign(s)
  PROVE  Balance' = Balance /\ (~IsChallenge => Keeps)
<1> PICK q : q = request[s] OBVIOUS
<1> DEFINE p == q.on
<1>0. q.op \in {"join_row", "leave", "assign", "respond", "unassign"}
  BY DEF JoinRow, LeaveRow, Assign, Respond, Unassign, At
<1>1. TypeOK /\ q \in Request /\ Carries(q) /\ Fits(q) BY <1>0, AtStep
<1>2. p \in Player /\ p \in Person BY <1>0, <1>1 DEF Carries, Person
<1>3. GuestsIn' = GuestsIn /\ WalkInsIn' = WalkInsIn /\ event' = event
  BY DEF JoinRow, LeaveRow, Assign, Respond, Unassign, GuestsIn, WalkInsIn, Joined
\* What the row moves, against what the request owes and holds, before and after.
<1>4. ASSUME NEW r \in Request, Proceed(s, r),
             LagOf(r) - LagOf(q) - HeldBy(r) + HeldBy(q) = SeatFor(row'[p]) - SeatFor(row[p])
      PROVE  /\ Balance' = Balance
             /\ LagOf(r) <= LagOf(q) => Entering' <= Entering
  <2>1. \A x \in Player \ {p} : row'[x] = row[x]
    BY <1>1 DEF JoinRow, LeaveRow, Assign, Respond, Unassign, TypeOK
  <2>2. Cardinality(OnRoster') = Cardinality(OnRoster) - SeatFor(row[p]) + SeatFor(row'[p])
    BY <1>2, <2>1, RowMove
  <2>3. /\ HeldBy(q) \in Int /\ HeldBy(r) \in Int
        /\ SeatFor(row'[p]) \in Int /\ SeatFor(row[p]) \in Int
    BY DEF HeldBy, SeatFor
  <2> QED BY <1>1, <1>3, <1>4, <2>2, <2>3, Tally
<1>5. Idle \in Request /\ LagOf(Idle) = 0 /\ HeldBy(Idle) = 0
  BY RequestRecords DEF Idle, LagOf, Holds, HeldBy
<1>6. ASSUME NEW n \in {-1, 1} PROVE /\ ToCount(p, n, FALSE, FALSE) \in Request
                                    /\ LagOf(ToCount(p, n, FALSE, FALSE)) = n
                                    /\ HeldBy(ToCount(p, n, FALSE, FALSE)) = 0
  <2>1. n \in Int OBVIOUS
  <2>2. ToCount(p, n, FALSE, FALSE) \in Request BY <1>2, <2>1, CountRecords, Zenon
  <2> QED BY <2>2 DEF ToCount, LagOf, Holds, HeldBy
<1>7. CASE JoinRow(s)
  <2>1. /\ q.op = "join_row" /\ Proceed(s, Idle) /\ row'[p] = "joined"
        /\ row[p] # "joined"
    BY <1>1, <1>2, <1>7 DEF JoinRow, At, Fits, RowFits, Finish, TypeOK
  <2>2. LagOf(q) = 0 /\ HeldBy(q) = 1 BY <2>1 DEF LagOf, Holds, HeldBy
  <2>3. SeatFor("joined") = 1 /\ SeatFor(row[p]) = 0 BY <2>1 DEF SeatFor
  <2> QED BY <1>4, <1>5, <2>1, <2>2, <2>3 DEF Keeps
<1>8. CASE LeaveRow(s)
  <2> DEFINE r == ToCount(p, -1, TRUE, TRUE)
  <2>1. /\ q.op = "leave" /\ Proceed(s, r) /\ row'[p] = "cancelled"
        /\ row[p] = "joined"
    BY <1>1, <1>2, <1>8 DEF LeaveRow, At, Fits, RowFits, TypeOK
  <2>2. LagOf(q) = 0 /\ HeldBy(q) = 0 BY <2>1 DEF LagOf, Holds, HeldBy
  <2>3. r \in Request /\ r.op = "count" BY <1>2, CountRecords, Zenon
  <2>4. r.delta = -1 BY DEF ToCount
  <2> HIDE DEF r
  <2>5. LagOf(r) = -1 /\ HeldBy(r) = 0 BY <2>3, <2>4 DEF LagOf, Holds, HeldBy
  <2>6. SeatFor(row'[p]) = 0 /\ SeatFor(row[p]) = 1 BY <2>1 DEF SeatFor
  <2>7. LagOf(r) - LagOf(q) - HeldBy(r) + HeldBy(q) = SeatFor(row'[p]) - SeatFor(row[p])
    BY <2>2, <2>5, <2>6
  <2>8. LagOf(r) <= LagOf(q) BY <2>2, <2>5
  <2> QED BY <1>4, <2>1, <2>3, <2>7, <2>8 DEF Keeps
<1>9. CASE Assign(s)
  <2>1. /\ q.op = "assign" /\ Proceed(s, Idle) /\ row'[p] = "invited"
        /\ row[p] # "joined"
    BY <1>1, <1>2, <1>9 DEF Assign, At, Fits, RowFits, Finish, TypeOK
  <2>2. LagOf(q) = 0 /\ HeldBy(q) = 0 BY <2>1 DEF LagOf, Holds, HeldBy
  <2>3. SeatFor("invited") = 0 /\ SeatFor(row[p]) = 0 BY <2>1 DEF SeatFor
  <2> QED BY <1>4, <1>5, <2>1, <2>2, <2>3 DEF Keeps
<1>10. CASE Respond(s)
  <2>1. q.op = "respond" /\ row[p] = "invited" /\ IsChallenge
    BY <1>1, <1>2, <1>10 DEF Respond, At, Fits, RowFits, TypeOK
  <2>2. LagOf(q) = 0 /\ HeldBy(q) = 0 BY <2>1 DEF LagOf, Holds, HeldBy
  <2>3. SeatFor("joined") = 1 /\ SeatFor("cancelled") = 0 /\ SeatFor(row[p]) = 0
    BY <2>1 DEF SeatFor
  <2>4. CASE q.accept
    <3> DEFINE r == ToCount(p, 1, FALSE, FALSE)
    <3>1. Proceed(s, r) /\ row'[p] = "joined" BY <1>1, <1>2, <1>10, <2>4 DEF Respond, TypeOK
    <3>2. r \in Request /\ LagOf(r) = 1 /\ HeldBy(r) = 0 BY <1>6
    <3> HIDE DEF r
    <3>3. LagOf(r) - LagOf(q) - HeldBy(r) + HeldBy(q) = SeatFor(row'[p]) - SeatFor(row[p])
      BY <2>2, <2>3, <3>1, <3>2
    <3> QED BY <1>4, <2>1, <3>1, <3>2, <3>3
  <2>5. CASE ~q.accept
    <3>1. Proceed(s, Idle) /\ row'[p] = "cancelled" BY <1>1, <1>2, <1>10, <2>5 DEF Respond, TypeOK
    <3> QED BY <1>4, <1>5, <2>1, <2>2, <2>3, <3>1
  <2> QED BY <2>4, <2>5
<1>11. CASE Unassign(s)
  <2>1. q.op = "unassign" /\ row[p] = q.had /\ IsChallenge /\ row'[p] = "cancelled"
    BY <1>1, <1>2, <1>11 DEF Unassign, At, Fits, RowFits, TypeOK
  <2>2. LagOf(q) = 0 /\ HeldBy(q) = 0 BY <2>1 DEF LagOf, Holds, HeldBy
  <2>3. SeatFor("cancelled") = 0 BY DEF SeatFor
  <2>4. CASE q.had = "joined"
    <3> DEFINE r == ToCount(p, -1, FALSE, FALSE)
    <3>1. Proceed(s, r) BY <1>11, <2>4 DEF Unassign
    <3>2. r \in Request /\ LagOf(r) = -1 /\ HeldBy(r) = 0 BY <1>6
    <3> HIDE DEF r
    <3>3. SeatFor(row[p]) = 1 /\ SeatFor(row'[p]) = 0 BY <2>1, <2>4 DEF SeatFor
    <3>4. LagOf(r) - LagOf(q) - HeldBy(r) + HeldBy(q) = SeatFor(row'[p]) - SeatFor(row[p])
      BY <2>2, <3>2, <3>3
    <3> QED BY <1>4, <2>1, <3>1, <3>2, <3>4
  <2>5. CASE q.had # "joined"
    <3>1. Proceed(s, Idle) /\ SeatFor(row[p]) = 0 BY <1>11, <2>1, <2>5 DEF Unassign, SeatFor
    <3> QED BY <1>4, <1>5, <2>1, <2>2, <2>3, <3>1
  <2> QED BY <2>4, <2>5
<1> QED BY <1>7, <1>8, <1>9, <1>10, <1>11

\* What a walk-in's row written moves, the same request owes or had reserved.
LEMMA TallyWalkIn ==
  ASSUME RosterInv, TypeOK', NEW s \in Slot, WalkInRow(s) \/ WalkInOut(s)
  PROVE  Keeps
<1> PICK q : q = request[s] OBVIOUS
<1> DEFINE p == q.on
<1>0. q.op \in {"walk_in_row", "walk_in_out"} BY DEF WalkInRow, WalkInOut, At
<1>1. TypeOK /\ q \in Request /\ Carries(q) /\ Fits(q) BY <1>0, AtStep
<1>2. p \in WalkIn /\ p \in Person BY <1>0, <1>1 DEF Carries, Person
<1>3. OnRoster' = OnRoster /\ GuestsIn' = GuestsIn /\ event' = event
  BY DEF WalkInRow, WalkInOut, OnRoster, GuestsIn, Joined
<1>4. Cardinality(WalkInsIn') = Cardinality(WalkInsIn) - SeatFor(walkIn[p]) + SeatFor(walkIn'[p])
  <2>1. \A x \in WalkIn \ {p} : walkIn'[x] = walkIn[x] BY <1>1 DEF WalkInRow, WalkInOut, TypeOK
  <2> QED BY <1>2, <2>1, WalkInMove
<1>5. ASSUME NEW r \in Request, Proceed(s, r), LagOf(r) <= LagOf(q),
             LagOf(r) - LagOf(q) - HeldBy(r) + HeldBy(q) = SeatFor(walkIn'[p]) - SeatFor(walkIn[p])
      PROVE  Keeps
  <2>1. /\ HeldBy(q) \in Int /\ HeldBy(r) \in Int
        /\ SeatFor(walkIn'[p]) \in Int /\ SeatFor(walkIn[p]) \in Int
    BY DEF HeldBy, SeatFor
  <2> QED BY <1>1, <1>3, <1>4, <1>5, <2>1, Tally DEF Keeps
<1>6. CASE WalkInRow(s)
  <2>1. /\ q.op = "walk_in_row" /\ Proceed(s, Idle) /\ walkIn'[p] = "joined"
        /\ walkIn[p] = "none"
    BY <1>1, <1>2, <1>6 DEF WalkInRow, At, Fits, RowFits, Finish, TypeOK
  <2>2. LagOf(q) = 0 /\ HeldBy(q) = 1 BY <2>1 DEF LagOf, Holds, HeldBy
  <2>3. Idle \in Request /\ LagOf(Idle) = 0 /\ HeldBy(Idle) = 0
    BY RequestRecords DEF Idle, LagOf, Holds, HeldBy
  <2>4. SeatFor(walkIn'[p]) = 1 /\ SeatFor(walkIn[p]) = 0 BY <2>1 DEF SeatFor
  <2> QED BY <1>5, <2>1, <2>2, <2>3, <2>4
<1>7. CASE WalkInOut(s)
  <2>1. q.op = "walk_in_out" /\ walkIn'[p] = "cancelled" /\ walkIn[p] = "joined"
    BY <1>1, <1>2, <1>7 DEF WalkInOut, At, Fits, RowFits, TypeOK
  <2>2. LagOf(q) = 0 /\ HeldBy(q) = 0 BY <2>1 DEF LagOf, Holds, HeldBy
  <2> DEFINE r == ToCount(p, -1, FALSE, FALSE)
  <2>3. -1 \in Int OBVIOUS
  <2>4. r \in Request /\ r.op = "count" BY <1>2, <2>3, CountRecords, Zenon
  <2>5. LagOf(r) = -1 /\ HeldBy(r) = 0 BY DEF ToCount, LagOf, Holds, HeldBy
  <2>6. Proceed(s, r) BY <1>7 DEF WalkInOut
  <2>7. SeatFor(walkIn'[p]) = 0 /\ SeatFor(walkIn[p]) = 1 BY <2>1 DEF SeatFor
  <2> HIDE DEF r
  <2>8. /\ LagOf(r) <= LagOf(q)
        /\ LagOf(r) - LagOf(q) - HeldBy(r) + HeldBy(q) = SeatFor(walkIn'[p]) - SeatFor(walkIn[p])
    BY <2>2, <2>5, <2>7
  <2> QED BY <1>5, <2>4, <2>6, <2>8
<1> QED BY <1>6, <1>7

\* A guest who is on file pending holds no seat.
LEMMA TallyAddGuest ==
  ASSUME TypeOK, TypeOK', NEW s \in Slot, AddGuest(s)
  PROVE  Keeps
<1>1. LagOf(request[s]) = 0 /\ HeldBy(request[s]) = 0 BY DEF AddGuest, At, LagOf, Holds, HeldBy
<1>2. Idle \in Request /\ LagOf(Idle) = 0 /\ HeldBy(Idle) = 0
  BY RequestRecords DEF Idle, LagOf, Holds, HeldBy
<1>3. Proceed(s, Idle) /\ UNCHANGED <<event, row, walkIn>> BY DEF AddGuest, Finish
<1>4. PICK g \in FreeGuestIds :
       guest' = [guest EXCEPT ![g] = [sponsor |-> request[s].on, approval |-> "pending",
                                      status |-> "joined"]]
  BY DEF AddGuest
<1>5. /\ g \in GuestId /\ guest[g] = NoGuest /\ guest'[g].approval = "pending"
      /\ \A h \in GuestId \ {g} : guest'[h] = guest[h]
  BY <1>4 DEF FreeGuestIds, TypeOK
<1>6. GuestsIn' = GuestsIn BY <1>5 DEF GuestsIn, Joined, NoGuest
<1>7. OnRoster' = OnRoster /\ WalkInsIn' = WalkInsIn BY <1>3 DEF OnRoster, WalkInsIn
<1> QED BY <1>1, <1>2, <1>3, <1>6, <1>7, Tally DEF Keeps

\* Guests withdrawn give back as many seats as the request goes on to take off the counter.
LEMMA TallyWithdraw ==
  ASSUME RosterInv, TypeOK', NEW s \in Slot, Withdraw(s)
  PROVE  Keeps
<1> PICK q : q = request[s] OBVIOUS
<1> DEFINE p == q.on
           out == {g \in q.guests : guest[g].approval = "approved"}
<1>0. q.op = "withdraw" BY DEF Withdraw, At
<1>1. TypeOK /\ q \in Request /\ Carries(q) /\ Fits(q) BY <1>0, AtStep
<1>2. /\ p \in Person /\ q.guests \subseteq GuestsOf(p) /\ q.guests \subseteq GuestId
      /\ q.seats = Cardinality(out) /\ q.seats \in Nat
  BY <1>0, <1>1 DEF Carries, Person, Fits, GuestFits, SeatsOf
<1>3. OnRoster' = OnRoster /\ WalkInsIn' = WalkInsIn /\ event' = event
  BY DEF Withdraw, OnRoster, WalkInsIn
<1>4. guest' = [g \in GuestId |-> IF g \in q.guests THEN [guest[g] EXCEPT !.status = "cancelled"]
                                 ELSE guest[g]]
  BY DEF Withdraw
<1>5. \A g \in q.guests : guest'[g].status # "joined"
  <2> SUFFICES ASSUME NEW g \in q.guests PROVE guest'[g].status # "joined" OBVIOUS
  <2>1. g \in GuestId /\ Joined(g) BY <1>2 DEF GuestsOf
  <2>2. guest[g] # NoGuest BY <1>1, <2>1, GuestType
  <2>3. guest[g] \in [sponsor : Player, approval : {"pending", "approved", "rejected"},
                     status : {"joined", "cancelled"}]
    BY <1>1, <2>1, <2>2 DEF TypeOK
  <2>4. guest'[g] = [guest[g] EXCEPT !.status = "cancelled"] BY <1>4, <2>1
  <2> QED BY <2>3, <2>4
<1>6. GuestsIn' = GuestsIn \ out /\ out \subseteq GuestsIn
  BY <1>2, <1>4, <1>5 DEF GuestsIn, GuestsOf, Joined
<1>7. Cardinality(GuestsIn') = Cardinality(GuestsIn) - q.seats
  <2>1. GuestsIn \cap out = out BY <1>6
  <2> HIDE DEF out
  <2>2. Cardinality(GuestsIn \ out) = Cardinality(GuestsIn) - Cardinality(GuestsIn \cap out)
    BY Finite, FS_Difference
  <2> QED BY <1>2, <1>6, <2>1, <2>2
<1>8. LagOf(q) = 0 /\ HeldBy(q) = 0 BY <1>0 DEF LagOf, Holds, HeldBy
<1>9. CASE q.seats > 0
  <2> DEFINE r == ToCount(p, -q.seats, FALSE, FALSE)
  <2>1. -q.seats \in Int BY <1>2
  <2>2. r \in Request /\ r.op = "count" BY <1>2, <2>1, CountRecords, Zenon
  <2>3. LagOf(r) = -q.seats /\ HeldBy(r) = 0 BY DEF ToCount, LagOf, Holds, HeldBy
  <2>4. Proceed(s, r) BY <1>9 DEF Withdraw
  <2> HIDE DEF r
  <2> QED BY <1>1, <1>2, <1>3, <1>7, <1>8, <2>2, <2>3, <2>4, Tally DEF Keeps
<1>10. CASE ~(q.seats > 0)
  <2>1. Proceed(s, Idle) /\ q.seats = 0 BY <1>2, <1>10 DEF Withdraw
  <2>2. Idle \in Request /\ LagOf(Idle) = 0 /\ HeldBy(Idle) = 0
    BY RequestRecords DEF Idle, LagOf, Holds, HeldBy
  <2> QED BY <1>1, <1>2, <1>3, <1>7, <1>8, <2>1, <2>2, Tally DEF Keeps
<1> QED BY <1>9, <1>10

\* A verdict moves a guest into a seat or out of one exactly when the request goes on to
\* move the counter.
LEMMA TallyJudge ==
  ASSUME RosterInv, TypeOK', NEW s \in Slot, Judge(s)
  PROVE  Keeps
<1> PICK q : q = request[s] OBVIOUS
<1> DEFINE p == q.on
           g == q.guest
<1>0. q.op = "judge" BY DEF Judge, At
<1>1. TypeOK /\ q \in Request /\ Carries(q) /\ Fits(q) BY <1>0, AtStep
<1>2. /\ p \in Person /\ g \in GuestId /\ q.verdict \in {"approved", "rejected"}
      /\ Joined(g) /\ guest[g].approval = q.was /\ q.was # q.verdict
  BY <1>0, <1>1 DEF Carries, Person, Fits, GuestFits
<1>3. OnRoster' = OnRoster /\ WalkInsIn' = WalkInsIn /\ event' = event
  BY DEF Judge, OnRoster, WalkInsIn
<1>4. guest[g] # NoGuest BY <1>1, <1>2, GuestType
<1>5. guest[g] \in [sponsor : Player, approval : {"pending", "approved", "rejected"},
                   status : {"joined", "cancelled"}]
  BY <1>1, <1>2, <1>4 DEF TypeOK
<1>6. /\ guest'[g].status = "joined" /\ guest'[g].approval = q.verdict
      /\ \A h \in GuestId : h # g => guest'[h] = guest[h]
  BY <1>1, <1>2, <1>5 DEF TypeOK, Joined, Judge
<1>7. /\ g \in GuestsIn <=> q.was = "approved"
      /\ g \in GuestsIn' <=> q.verdict = "approved"
  BY <1>2, <1>6 DEF GuestsIn, Joined
<1>8. Cardinality(GuestsIn')
        = Cardinality(GuestsIn) - One(g \in GuestsIn) + One(g \in GuestsIn')
  BY <1>2, <1>6, GuestMove
<1>9. LagOf(q) = 0 /\ HeldBy(q) = 0 BY <1>0 DEF LagOf, Holds, HeldBy
<1>10. ASSUME NEW r \in Request, Proceed(s, r), HeldBy(r) = 0,
              LagOf(r) = One(q.verdict = "approved") - One(q.was = "approved")
       PROVE  Keeps
  <2>1. One(q.verdict = "approved") \in Int /\ One(q.was = "approved") \in Int BY DEF One
  <2>2. /\ One(g \in GuestsIn) = One(q.was = "approved")
        /\ One(g \in GuestsIn') = One(q.verdict = "approved")
    BY <1>7 DEF One
  <2>3. Cardinality(GuestsIn) \in Nat /\ Cardinality(GuestsIn') \in Nat BY <1>1, <1>10, Tally
  <2>4. Cardinality(GuestsIn') = Cardinality(GuestsIn) + LagOf(r)
    BY <1>8, <1>10, <2>1, <2>2, <2>3
  <2> QED BY <1>1, <1>3, <1>9, <1>10, <2>4, Tally DEF Keeps
<1>11. CASE q.verdict = "approved"
  <2> DEFINE r == ToCount(p, 1, FALSE, FALSE)
  <2>1. 1 \in Int OBVIOUS
  <2>2. r \in Request /\ r.op = "count" BY <1>2, <2>1, CountRecords, Zenon
  <2>3. LagOf(r) = 1 /\ HeldBy(r) = 0 BY DEF ToCount, LagOf, Holds, HeldBy
  <2>4. Proceed(s, r) BY <1>11 DEF Judge
  <2>5. One(q.verdict = "approved") = 1 /\ One(q.was = "approved") = 0 BY <1>2, <1>11 DEF One
  <2> HIDE DEF r
  <2> QED BY <1>10, <2>2, <2>3, <2>4, <2>5
<1>12. CASE q.verdict # "approved" /\ q.was = "approved"
  <2> DEFINE r == ToCount(p, -1, FALSE, FALSE)
  <2>1. -1 \in Int OBVIOUS
  <2>2. r \in Request /\ r.op = "count" BY <1>2, <2>1, CountRecords, Zenon
  <2>3. LagOf(r) = -1 /\ HeldBy(r) = 0 BY DEF ToCount, LagOf, Holds, HeldBy
  <2>4. Proceed(s, r) BY <1>12 DEF Judge
  <2>5. One(q.verdict = "approved") = 0 /\ One(q.was = "approved") = 1 BY <1>12 DEF One
  <2> HIDE DEF r
  <2>6. LagOf(r) = One(q.verdict = "approved") - One(q.was = "approved") BY <2>3, <2>5
  <2> QED BY <1>10, <2>2, <2>3, <2>4, <2>6
<1>13. CASE q.verdict # "approved" /\ q.was # "approved"
  <2>1. Proceed(s, Idle) BY <1>13 DEF Judge
  <2>2. Idle \in Request /\ LagOf(Idle) = 0 /\ HeldBy(Idle) = 0
    BY RequestRecords DEF Idle, LagOf, Holds, HeldBy
  <2>3. One(q.verdict = "approved") = 0 /\ One(q.was = "approved") = 0 BY <1>13 DEF One
  <2> QED BY <1>10, <2>1, <2>2, <2>3
<1> QED BY <1>11, <1>12, <1>13

\* A move of the counter that is not made: registration has closed meanwhile, or the count
\* would go below zero.
Skips(r) ==
  /\ r.op = "count"
  /\ (r.whileOpen /\ event.status # "join") \/ event.joinedCount + r.delta < 0
  /\ Balance' = Balance - r.delta /\ Entering' <= Entering

\* What is owed to the counter is paid, or skipped.
LEMMA TallyCount ==
  ASSUME RosterInv, TypeOK', NEW s \in Slot, Count(s)
  PROVE  Keeps \/ Skips(request[s])
<1> PICK q : q = request[s] OBVIOUS
<1>0. q.op = "count" BY DEF Count, At
<1>1. TypeOK /\ q \in Request /\ Carries(q) /\ Fits(q) BY <1>0, AtStep
<1>2. q.delta \in Int /\ q.on \in Person /\ (q.cascade => q.on \in Player)
  BY <1>0, <1>1 DEF Carries
<1>3. OnRoster' = OnRoster /\ GuestsIn' = GuestsIn /\ WalkInsIn' = WalkInsIn
  BY DEF Count, OnRoster, GuestsIn, WalkInsIn, Joined
<1>4. LagOf(q) = q.delta /\ HeldBy(q) = 0 BY <1>0 DEF LagOf, Holds, HeldBy
<1>5. PICK r \in Request : Proceed(s, r) /\ LagOf(r) = 0 /\ HeldBy(r) = 0
  <2>1. Idle \in Request /\ LagOf(Idle) = 0 /\ HeldBy(Idle) = 0
    BY RequestRecords DEF Idle, LagOf, Holds, HeldBy
  <2>2. CASE q.cascade
    <3> DEFINE r == [op |-> "cascade", on |-> q.on]
    <3>1. Proceed(s, r) BY <2>2 DEF Count
    <3>2. r \in Request BY <1>2, <2>2, RequestRecords
    <3>3. LagOf(r) = 0 /\ HeldBy(r) = 0 BY DEF LagOf, Holds, HeldBy
    <3> QED BY <3>1, <3>2, <3>3
  <2>3. CASE ~q.cascade BY <2>1, <2>3 DEF Count
  <2> QED BY <2>2, <2>3
<1>6. /\ Balance' = Balance + (event'.joinedCount - event.joinedCount) - q.delta
      /\ Entering' = Entering /\ Balance \in Int /\ Entering \in Nat
  BY <1>1, <1>2, <1>3, <1>4, <1>5, Tally
<1>7. CASE (q.whileOpen => event.status = "join") /\ event.joinedCount + q.delta >= 0
  <2>1. event'.joinedCount = event.joinedCount + q.delta BY <1>1, <1>7 DEF Count, TypeOK
  <2> QED BY <1>1, <1>2, <1>6, <2>1, BalanceType DEF Keeps
<1>8. CASE ~((q.whileOpen => event.status = "join") /\ event.joinedCount + q.delta >= 0)
  <2>1. event' = event BY <1>8 DEF Count
  <2>2. event.joinedCount \in Nat BY <1>1, BalanceType
  <2>3. Balance' = Balance - q.delta BY <1>2, <1>6, <2>1, <2>2
  <2>4. ~(event.joinedCount + q.delta >= 0) => event.joinedCount + q.delta < 0 BY <1>2, <2>2
  <2> QED BY <1>0, <1>6, <1>8, <2>3, <2>4 DEF Skips
<1> QED BY <1>7, <1>8

-----------------------------------------------------------------------------
(* Who is owed a higher count has a seat *)

\* The requests that still have to move the counter up.
Gainers == {s \in Slot : LagOf(request[s]) > 0}

\* Those whose seat such a request is about.
Gained == IF IsChallenge THEN OnRoster ELSE GuestsIn

\* Each of them is about a seat of its own: its person's, or one of that person's guests.
LEMMA GainersSeated ==
  ASSUME RosterInv
  PROVE  /\ Cardinality(Gainers) \in Nat
         /\ Cardinality(Gainers) <= Cardinality(Gained)
<1>1. \A s \in Gainers : /\ request[s] # Idle /\ request[s].on # TheEvent
                         /\ Backed(request[s].on)
  <2> SUFFICES ASSUME NEW s \in Gainers
               PROVE  /\ request[s] # Idle /\ request[s].on # TheEvent
                      /\ Backed(request[s].on)
    OBVIOUS
  <2>1. s \in Slot /\ request[s].op = "count" /\ request[s].delta > 0 BY DEF Gainers, LagOf
  <2>2. request[s] # Idle /\ Carries(request[s]) /\ Fits(request[s]) BY <2>1, AtStep
  <2> QED BY <2>1, <2>2, RosterAssumption DEF Carries, Person, Fits, GuestFits
<1>2. \A s, t \in Gainers : request[s].on = request[t].on => s = t
  BY <1>1 DEF RosterInv, Reads, Apart, Gainers
<1>3. IsFiniteSet(Gainers) /\ IsFiniteSet(Gained)
  <2>1. Gainers \in SUBSET Slot BY DEF Gainers
  <2> QED BY <2>1, Finite, RosterAssumption, FS_Subset DEF Gained
<1>4. Cardinality(Gainers) \in Nat /\ Cardinality(Gained) \in Nat BY <1>3, FS_CardinalityType
<1>5. ASSUME NEW f \in [Gainers -> Gained], \A s, t \in Gainers : f[s] = f[t] => s = t
      PROVE  Cardinality(Gainers) <= Cardinality(Gained)
  BY <1>3, <1>4, <1>5, FS_PigeonHole
<1>6. CASE IsChallenge
  <2> DEFINE f == [s \in Gainers |-> request[s].on]
  <2>1. f \in [Gainers -> Gained] BY <1>1, <1>6 DEF Backed, Gained
  <2> QED BY <1>2, <1>4, <1>5, <2>1
<1>7. CASE ~IsChallenge
  <2> DEFINE f == [s \in Gainers |-> CHOOSE g \in GuestsIn : guest[g].sponsor = request[s].on]
  <2>1. \A s \in Gainers : f[s] \in GuestsIn /\ guest[f[s]].sponsor = request[s].on
    <3> SUFFICES ASSUME NEW s \in Gainers
                 PROVE  f[s] \in GuestsIn /\ guest[f[s]].sponsor = request[s].on
      OBVIOUS
    <3>1. \E g \in GuestsIn : guest[g].sponsor = request[s].on BY <1>1, <1>7 DEF Backed
    <3> QED BY <3>1
  <2>2. f \in [Gainers -> Gained] BY <1>7, <2>1 DEF Gained
  <2> HIDE DEF f
  <2>3. \A s, t \in Gainers : f[s] = f[t] => s = t BY <1>2, <2>1
  <2> QED BY <1>4, <1>5, <2>2, <2>3
<1> QED BY <1>4, <1>6, <1>7

\* What is owed to the counter is at most the seats it is owed for, also after a move
\* downwards that is skipped.
LEMMA LagBound ==
  ASSUME RosterInv
  PROVE  /\ Cardinality(Gained) \in Nat
         /\ Lag <= Cardinality(Gained)
         /\ \A s \in Slot : LagOf(request[s]) < 0 =>
              Lag - LagOf(request[s]) <= Cardinality(Gained)
<1> DEFINE f == [s \in Slot |-> IF At(s, "count") THEN request[s].delta ELSE 0]
<1>1. TypeOK BY DEF RosterInv, TypeInv
<1>2. \A s \in Slot : f[s] = LagOf(request[s]) BY DEF LagOf, At
<1>3. \A s \in Slot : LagOf(request[s]) \in Int /\ LagOf(request[s]) <= 1
  <2> SUFFICES ASSUME NEW s \in Slot PROVE LagOf(request[s]) \in Int /\ LagOf(request[s]) <= 1
    OBVIOUS
  <2>1. LagOf(request[s]) \in Int BY <1>1, LagType
  <2>2. Fits(request[s]) BY DEF RosterInv, Reads
  <2> QED BY <2>1, <2>2 DEF Fits, GuestFits, LagOf
<1>4. Lag = SumFunctionOnSet(f, Slot) BY DEF Lag
<1>5. Cardinality(Gained) \in Nat BY Finite DEF Gained
<1> HIDE DEF f
<1>6. Lag <= Cardinality(Gained)
  <2>1. {s \in Slot : f[s] > 0} = Gainers BY <1>2 DEF Gainers
  <2>2. SumFunctionOnSet(f, Slot) <= Cardinality({s \in Slot : f[s] > 0})
    BY <1>2, <1>3, RosterAssumption, SumAtMost
  <2>3. Lag \in Int BY <1>1, LagType
  <2> QED BY <1>4, <1>5, <2>1, <2>2, <2>3, GainersSeated
<1>7. ASSUME NEW s \in Slot, LagOf(request[s]) < 0
      PROVE  Lag - LagOf(request[s]) <= Cardinality(Gained)
  <2> DEFINE T == Slot \ {s}
  <2>1. IsFiniteSet(T) /\ \A t \in T : f[t] \in Int /\ f[t] <= 1
    BY <1>2, <1>3, RosterAssumption, FS_Subset
  <2>2. SumFunctionOnSet(f, Slot) = f[s] + SumFunctionOnSet(f, T)
    BY <1>2, <1>3, RosterAssumption, SumRemove
  <2>3. {t \in T : f[t] > 0} = Gainers BY <1>2, <1>3, <1>7 DEF Gainers
  <2> HIDE DEF T
  <2>4. SumFunctionOnSet(f, T) <= Cardinality({t \in T : f[t] > 0}) BY <2>1, SumAtMost
  <2>5. SumFunctionOnSet(f, T) \in Int BY <2>1, SumType
  <2>6. Lag = LagOf(request[s]) + SumFunctionOnSet(f, T) BY <1>2, <1>4, <2>2
  <2>7. SumFunctionOnSet(f, T) <= Cardinality(Gained)
    BY <1>5, <2>3, <2>4, <2>5, GainersSeated
  <2> QED BY <1>3, <1>5, <2>5, <2>6, <2>7
<1> QED BY <1>5, <1>6, <1>7

-----------------------------------------------------------------------------
(* The counter guards the capacity *)

\* Where the capacity comes from.
WithinCap == event.maxPlayers # Null => \E st \in Setting : event.maxPlayers = st.maxPlayers

\* What holds together: nobody without a count, nobody past the cap.
CapInv ==
  /\ RosterInv /\ WithinCap
  /\ Balance \in Nat
  /\ ~IsChallenge => Entering <= LargestCap

\* No step makes a challenge of another event, or the other way round, and only an edit of
\* the event sets its capacity.
LEMMA KindKept ==
  ASSUME TypeOK, [Next]_vars
  PROVE  /\ IsChallenge' <=> IsChallenge
         /\ \/ event'.maxPlayers = event.maxPlayers
            \/ \E st \in Setting : event'.maxPlayers = st.maxPlayers
<1> DEFINE Kept == /\ IsChallenge' <=> IsChallenge
                   /\ \/ event'.maxPlayers = event.maxPlayers
                      \/ \E st \in Setting : event'.maxPlayers = st.maxPlayers
<1> SUFFICES Kept OBVIOUS
<1>1. CASE event' = event BY <1>1 DEF IsChallenge
<1>2. CASE Reading BY <1>1, <1>2, ReadingOpens DEF Opens, store
<1>3. ASSUME NEW s \in Slot, Writing(s) PROVE Kept
  <2>1. CASE JoinSeat(s) \/ WalkInSeat(s) \/ Count(s)
    <3>1. event' = event \/ \E n : event' = [event EXCEPT !.joinedCount = n]
      BY <2>1 DEF JoinSeat, WalkInSeat, TakeSeat, Count
    <3> QED BY <1>1, <3>1 DEF TypeOK, IsChallenge
  <2>2. CASE UpdateSave(s)
    <3>1. request[s].to \in Setting BY <2>2, InFlight DEF UpdateSave, At, Carries
    <3>2. event'.kind = event.kind /\ event'.maxPlayers = request[s].to.maxPlayers
      BY <2>2 DEF UpdateSave, Save, TypeOK
    <3> QED BY <3>1, <3>2 DEF IsChallenge
  <2>3. CASE ProposalSave(s) \/ SetStatusSave(s) \/ CancelSave(s) \/ RestoreSave(s)
    <3>1. event'.kind = event.kind /\ event'.maxPlayers = event.maxPlayers
      BY <2>3 DEF ProposalSave, SetStatusSave, CancelSave, RestoreSave, Restored, Save, TypeOK
    <3> QED BY <3>1 DEF IsChallenge
  <2> QED BY <1>1, <1>3, <2>1, <2>2, <2>3
          DEF Writing, JoinRow, LeaveRow, Cascade, AddGuest, Withdraw, Judge, WalkInRow,
              WalkInOut, Assign, Respond, Unassign, store
<1>4. CASE ChangeSport
  <2>1. event'.kind \in {"match", "no_match"} /\ event'.maxPlayers = event.maxPlayers
    BY <1>4 DEF ChangeSport, TypeOK
  <2> QED BY <1>4, <2>1 DEF ChangeSport, IsChallenge
<1>5. CASE UNCHANGED vars BY <1>1, <1>5 DEF vars, store
<1> QED BY <1>2, <1>3, <1>4, <1>5, NextSteps

\* What any step does to the seats and the counter.
LEMMA Moves ==
  ASSUME RosterInv, TypeOK', [Next]_vars
  PROVE  \/ Keeps \/ Admits \/ (IsChallenge /\ Balance' = Balance)
         \/ \E s \in Slot : Skips(request[s])
<1>0. TypeOK BY DEF RosterInv, TypeInv
<1>1. CASE UNCHANGED vars
  <2>1. /\ OnRoster' = OnRoster /\ GuestsIn' = GuestsIn /\ WalkInsIn' = WalkInsIn
        /\ Lag' = Lag /\ Reserved' = Reserved /\ event' = event
    BY <1>1 DEF vars, store, OnRoster, GuestsIn, WalkInsIn, Joined, Lag, Reserved, At
  <2> QED BY <1>0, <2>1, BalanceType DEF Keeps, Balance, Entering, Seated
<1>2. CASE Reading BY <1>0, <1>2, ReadingOpens, TallyOpens
<1>3. ASSUME NEW s \in Slot, Writing(s)
      PROVE  Keeps \/ Admits \/ (IsChallenge /\ Balance' = Balance) \/ Skips(request[s])
  BY <1>0, <1>3, TallyTakeSeat, TallyRow, TallyCascade, TallyCount, TallyAddGuest, TallyWithdraw,
     TallyJudge, TallyWalkIn, TallySave
     DEF Writing
<1>4. CASE ChangeSport BY <1>0, <1>4, TallySport
<1> QED BY <1>1, <1>2, <1>3, <1>4, NextSteps

\* A skipped move would have lowered the counter.
LEMMA SkipsLower ==
  ASSUME RosterInv, NEW s \in Slot, Skips(request[s])
  PROVE  /\ request[s].delta \in Int /\ request[s].delta < 0
         /\ LagOf(request[s]) = request[s].delta
         /\ request[s].whileOpen => request[s].delta = -1
<1>1. request[s].op = "count" BY DEF Skips
<1>2. TypeOK /\ Carries(request[s]) BY <1>1, AtStep
<1>3. request[s].delta \in Int /\ (request[s].whileOpen => request[s].delta = -1)
  BY <1>1, <1>2 DEF Carries
<1>4. event.joinedCount \in Nat BY <1>2, BalanceType
<1>5. request[s].delta < 0
  <2>1. CASE request[s].whileOpen BY <1>3, <2>1
  <2>2. CASE ~request[s].whileOpen
    <3>1. event.joinedCount + request[s].delta < 0 BY <2>2 DEF Skips
    <3> QED BY <1>3, <1>4, <3>1
  <2> QED BY <2>1, <2>2
<1> QED BY <1>1, <1>3, <1>5 DEF LagOf

\* The conditional update counts whoever is still owed a count: where it admits, there is
\* room for the members and walk-ins on their way.
LEMMA RoomToEnter ==
  ASSUME RosterInv, ~IsChallenge, Balance >= 0
  PROVE  Entering <= event.joinedCount
<1>1. TypeOK BY DEF RosterInv, TypeInv
<1>2. Lag <= Cardinality(GuestsIn) BY LagBound DEF Gained
<1>3. Balance = event.joinedCount + Lag - (Cardinality(GuestsIn) + Entering)
  BY <1>1, BalanceType, Finite DEF Balance, Entering, Seated
<1> QED BY <1>1, <1>2, <1>3, BalanceType, Finite

\* Nobody is on a new event.
LEMMA NothingYet ==
  ASSUME Init
  PROVE  Balance = 0 /\ Entering = 0
<1>1. /\ OnRoster = {} /\ GuestsIn = {} /\ WalkInsIn = {}
      /\ {s \in Slot : request[s].op \in {"join_row", "walk_in_row"}} = {}
  BY DEF Init, OnRoster, GuestsIn, WalkInsIn, Joined, NoGuest, Idle
<1>2. Lag = 0
  <2> DEFINE f == [s \in Slot |-> IF At(s, "count") THEN request[s].delta ELSE 0]
  <2>1. \A s \in Slot : f[s] = 0 BY DEF Init, At, Idle
  <2>2. Lag = SumFunctionOnSet(f, Slot) BY DEF Lag
  <2> HIDE DEF f
  <2> QED BY <2>1, <2>2, RosterAssumption, SumZero
<1>3. event.joinedCount = 0 BY DEF Init
<1>4. Cardinality({}) = 0 BY FS_EmptySet
<1>5. Cardinality(OnRoster) = 0 /\ Cardinality(GuestsIn) = 0 /\ Cardinality(WalkInsIn) = 0
  BY <1>1, <1>4
<1>6. Reserved = 0 BY <1>1, <1>4 DEF Reserved
<1> QED BY <1>2, <1>3, <1>5, <1>6 DEF Balance, Entering, Seated

\* The counter guards the capacity whichever requests about different people overlap and
\* whatever is done to the event meanwhile: it is never short of the seats in use, and
\* joinOrThrow's conditional update admits no member and no walk-in past the largest capacity
\* the event has had (events.service.ts, join and joinAnonymous).
THEOREM CapacityStaysGuarded ==
  ASSUME "person" \in Exclusive, "judge_withdrawn" \notin Unforeseen,
         NEW largest \in Setting, \A st \in Setting : st.maxPlayers <= largest.maxPlayers
  PROVE  Spec => []CapacityGuarded
<1>1. LargestCap \in Nat /\ \A st \in Setting : st.maxPlayers <= LargestCap
  <2>1. \A st \in Setting : st.maxPlayers \in Nat BY RosterAssumption
  <2>2. \E n \in {st.maxPlayers : st \in Setting} : \A st \in Setting : st.maxPlayers <= n OBVIOUS
  <2>3. /\ LargestCap \in {st.maxPlayers : st \in Setting}
        /\ \A st \in Setting : st.maxPlayers <= LargestCap
    BY <2>2 DEF LargestCap
  <2> QED BY <2>1, <2>3
<1>2. Init => CapInv
  <2> SUFFICES ASSUME Init PROVE CapInv OBVIOUS
  <2>1. RosterInv /\ TypeOK BY RosterInit DEF RosterInv, TypeInv
  <2>2. WithinCap BY DEF Init, WithinCap
  <2>3. Balance = 0 /\ Entering = 0 BY NothingYet
  <2> QED BY <1>1, <2>1, <2>2, <2>3 DEF CapInv
<1>3. CapInv /\ [Next]_vars => CapInv'
  <2> SUFFICES ASSUME CapInv, [Next]_vars PROVE CapInv' OBVIOUS
  <2>1. RosterInv /\ TypeOK BY DEF CapInv, RosterInv, TypeInv
  <2>2. RosterInv' /\ TypeOK' BY <2>1, RosterNext DEF RosterInv, TypeInv
  <2>3. /\ IsChallenge' <=> IsChallenge
        /\ event'.maxPlayers = event.maxPlayers
           \/ \E st \in Setting : event'.maxPlayers = st.maxPlayers
    BY <2>1, KindKept
  <2>4. WithinCap' BY <2>3 DEF CapInv, WithinCap
  <2>5. Balance \in Nat /\ (~IsChallenge => Entering <= LargestCap) BY DEF CapInv
  <2>6. Entering \in Nat /\ Entering' \in Nat
    <3>1. Entering' \in Nat BY <2>2, FiniteNext, FS_CardinalityType DEF Entering, Reserved, Holds
    <3> QED BY <2>1, <3>1, BalanceType
  <2>7. Balance' \in Nat /\ (~IsChallenge => Entering' <= LargestCap)
    <3>1. CASE Keeps BY <1>1, <2>5, <2>6, <3>1 DEF Keeps
    <3>2. CASE IsChallenge /\ Balance' = Balance BY <2>5, <3>2
    <3>3. CASE Admits
      <4>1. PICK st \in Setting : event.maxPlayers = st.maxPlayers
        BY <3>3 DEF CapInv, WithinCap, Admits
      <4>2. st.maxPlayers \in Nat /\ st.maxPlayers <= LargestCap /\ event.joinedCount \in Nat
        BY <1>1, <2>1, RosterAssumption, BalanceType
      <4>3. ~IsChallenge => Entering <= event.joinedCount BY <2>1, <2>5, RoomToEnter
      <4> QED BY <1>1, <2>5, <2>6, <3>3, <4>1, <4>2, <4>3 DEF Admits
    <3>4. ASSUME NEW s \in Slot, Skips(request[s])
          PROVE  Balance' \in Nat /\ (~IsChallenge => Entering' <= LargestCap)
      <4>1. request[s].delta \in Int /\ request[s].delta < 0 BY <2>1, <3>4, SkipsLower
      <4> QED BY <1>1, <2>5, <2>6, <3>4, <4>1 DEF Skips
    <3> QED BY <2>1, <2>2, <3>1, <3>2, <3>3, <3>4, Moves
  <2> QED BY <2>2, <2>3, <2>4, <2>7 DEF CapInv
<1>4. CapInv => CapacityGuarded
  <2> SUFFICES ASSUME CapInv PROVE CapacityGuarded OBVIOUS
  <2>1. TypeOK BY DEF CapInv, RosterInv, TypeInv
  <2>2. Reserved \in Nat /\ Seated \in Nat /\ event.joinedCount \in Nat /\ Lag \in Int
    BY <2>1, Finite, BalanceType
  <2>3. SeatsNeverShort BY <2>2 DEF CapInv, SeatsNeverShort, Balance
  <2> QED BY <2>3 DEF CapInv, CapacityGuarded, NeverOversold, Entering
<1> QED BY <1>2, <1>3, <1>4, PTL DEF Spec

-----------------------------------------------------------------------------
(* The event while one request about it runs *)

\* The request about the event itself runs alone.
EventApart ==
  \A s, t \in Slot :
    s # t /\ request[s] # Idle /\ request[t] # Idle => request[s].on # TheEvent

\* A challenge the other group has not accepted.
OnPaperNow == IsChallenge /\ event.proposal # "accepted"

\* What request r read about the event still holds.
EventFits(r) ==
  /\ r.op = "status" => /\ ~OnPaperNow
                        /\ \E k \in Kind : CanTransition(k, event.status, r.to)
  /\ r.op = "cancel" => r.was = event.status /\ r.was \in Cancellable
  /\ r.op = "restore" => /\ event.status = "cancelled" /\ r.to \in Cancellable
                         /\ OnPaperNow => r.to = "join"
  /\ r.op = "update" => (IsChallenge => ~r.to.isPublic)
  /\ r.op = "proposal" => OnPaperNow
  /\ r.op \in {"join_row", "leave"} \/ (r.op = "count" /\ r.whileOpen) => event.status = "join"
  /\ r.op \in {"assign", "respond", "unassign"} => IsChallenge
  /\ r.op = "add_guest" => ~IsChallenge
  /\ OnPaperNow => r = Idle \/ r.on = TheEvent

\* The record of a cancellation, and who may be on a challenge.
EventRecord ==
  /\ event.status = "cancelled" <=> event.cancelReason
  /\ event.statusBeforeCancel # Null =>
       event.status = "cancelled" /\ event.statusBeforeCancel \in Cancellable
  /\ IsChallenge => ~event.isPublic /\ \A g \in GuestId : guest[g] = NoGuest
  /\ OnPaperNow =>
       /\ \A p \in Player : row[p] = "none"
       /\ \A w \in WalkIn : walkIn[w] = "none"
       /\ event.status \in {"join", "cancelled"}
       /\ event.statusBeforeCancel \in {Null, "join"}

\* What the lifecycle relies on, and with the types an inductive invariant.
Life == EventApart /\ EventRecord /\ \A s \in Slot : EventFits(request[s])

LifeInv == TypeInv /\ Life
-----------------------------------------------------------------------------
(* Steps of requests about people *)

\* The document but for its counter.
SameEvent ==
  /\ event'.kind = event.kind /\ event'.status = event.status
  /\ event'.statusBeforeCancel = event.statusBeforeCancel
  /\ event'.cancelReason = event.cancelReason /\ event'.proposal = event.proposal
  /\ event'.isPublic = event.isPublic

\* While the document stays as it is, what a request read about it holds.
LEMMA FitsSame ==
  ASSUME NEW r, EventFits(r), SameEvent
  PROVE  EventFits(r)'
BY DEF SameEvent, EventFits, OnPaperNow, IsChallenge

\* A request that did not move.
LEMMA EventFitsNext ==
  ASSUME NEW r, NEW t, request'[t] = r, EventFits(r)'
  PROVE  EventFits(request[t])'
BY DEF EventFits, OnPaperNow, IsChallenge

\* What the requests of people do to the document: nothing but count.
LEMMA PeopleLeaveEvent ==
  ASSUME TypeOK, NEW s \in Slot,
         \/ JoinSeat(s) \/ JoinRow(s) \/ LeaveRow(s) \/ Cascade(s) \/ Count(s)
         \/ AddGuest(s) \/ Withdraw(s) \/ Judge(s)
         \/ WalkInSeat(s) \/ WalkInRow(s) \/ WalkInOut(s)
         \/ Assign(s) \/ Respond(s) \/ Unassign(s)
  PROVE  SameEvent
<1>1. event' = event \/ \E n : event' = [event EXCEPT !.joinedCount = n]
  BY DEF JoinSeat, JoinRow, LeaveRow, Cascade, Count, AddGuest, Withdraw, Judge, WalkInSeat,
         WalkInRow, WalkInOut, Assign, Respond, Unassign, TakeSeat, store
<1> QED BY <1>1 DEF TypeOK, SameEvent

\* How such a request goes on: about the same person, towards a row or the count while
\* registration is open only if it is.
Onward(s, r) ==
  /\ r \in Request /\ Proceed(s, r)
  /\ r = Idle \/ r.on = request[s].on
  /\ r.op \in {"idle", "join_row", "walk_in_row", "count", "cascade", "withdraw"}
  /\ r.op = "join_row" => event.status = "join"
  /\ r.op = "count" /\ r.whileOpen => request[s].op = "leave"

\* Most requests end, or go on to count in whatever status.
LEMMA OnwardEnds ==
  ASSUME NEW s \in Slot,
         \/ Proceed(s, Idle)
         \/ \E n \in Int : /\ request[s].on \in Person
                           /\ Proceed(s, ToCount(request[s].on, n, FALSE, FALSE))
  PROVE  \E r : Onward(s, r)
<1>1. CASE Proceed(s, Idle) BY <1>1, RequestRecords DEF Onward, Idle
<1>2. ASSUME NEW n \in Int, request[s].on \in Person,
             Proceed(s, ToCount(request[s].on, n, FALSE, FALSE))
      PROVE  \E r : Onward(s, r)
  <2> DEFINE r == ToCount(request[s].on, n, FALSE, FALSE)
  <2>1. r \in Request /\ r.op = "count" BY <1>2, CountRecords, Zenon
  <2>2. r.on = request[s].on BY DEF ToCount
  <2>3. ~r.whileOpen BY Zenon DEF ToCount
  <2> HIDE DEF r
  <2>4. r.op \in {"idle", "join_row", "walk_in_row", "count", "cascade", "withdraw"}
        /\ r.op # "join_row"
    BY <2>1
  <2>5. Onward(s, r) BY <1>2, <2>1, <2>2, <2>3, <2>4, Zenon DEF r, Onward
  <2> QED BY <2>5
<1> QED BY <1>1, <1>2

\* Every request about somebody goes on so.
LEMMA PeopleGoOn ==
  ASSUME TypeOK, NEW s \in Slot,
         \/ JoinSeat(s) \/ JoinRow(s) \/ LeaveRow(s) \/ Cascade(s) \/ Count(s)
         \/ AddGuest(s) \/ Withdraw(s) \/ Judge(s)
         \/ WalkInSeat(s) \/ WalkInRow(s) \/ WalkInOut(s)
         \/ Assign(s) \/ Respond(s) \/ Unassign(s)
  PROVE  /\ request[s] # Idle /\ request[s].on # TheEvent
         /\ \E r : Onward(s, r)
<1> PICK q : q = request[s] OBVIOUS
<1>1. q \in Request /\ Carries(q) BY InFlight
<1>2. q.op \in {"join_seat", "join_row", "leave", "cascade", "count", "add_guest", "withdraw",
               "judge", "walk_in_seat", "walk_in_row", "walk_in_out", "assign", "respond",
               "unassign"}
  BY DEF JoinSeat, JoinRow, LeaveRow, Cascade, Count, AddGuest, Withdraw, Judge, WalkInSeat,
         WalkInRow, WalkInOut, Assign, Respond, Unassign, At
<1>3. q # Idle /\ q.on \in Person BY <1>1, <1>2 DEF Idle, Carries, Person
<1>4. q.on # TheEvent BY <1>3, RosterAssumption DEF Person
<1> SUFFICES \E r : Onward(s, r) BY <1>3, <1>4
<1>5. CASE JoinRow(s) \/ AddGuest(s) \/ WalkInRow(s) \/ Assign(s)
  BY <1>5, OnwardEnds DEF JoinRow, AddGuest, WalkInRow, Assign, Finish
<1>6. CASE WalkInOut(s) \/ Respond(s) \/ Unassign(s) \/ Judge(s) \/ Withdraw(s)
  <2>1. -1 \in Int /\ 1 \in Int OBVIOUS
  <2>2. CASE WalkInOut(s) BY <1>3, <2>1, <2>2, OnwardEnds, Zenon DEF WalkInOut
  <2>3. CASE Respond(s)
    <3>1. Proceed(s, Idle) \/ Proceed(s, ToCount(q.on, 1, FALSE, FALSE))
      BY <2>3, Zenon DEF Respond
    <3> QED BY <1>3, <2>1, <3>1, OnwardEnds, Zenon
  <2>4. CASE Unassign(s)
    <3>1. Proceed(s, Idle) \/ Proceed(s, ToCount(q.on, -1, FALSE, FALSE))
      BY <2>4 DEF Unassign
    <3> QED BY <1>3, <2>1, <3>1, OnwardEnds, Zenon
  <2>5. CASE Judge(s)
    <3>1. \/ Proceed(s, Idle) \/ Proceed(s, ToCount(q.on, -1, FALSE, FALSE))
          \/ Proceed(s, ToCount(q.on, 1, FALSE, FALSE))
      BY <2>5 DEF Judge
    <3> QED BY <1>3, <2>1, <3>1, OnwardEnds, Zenon
  <2>6. CASE Withdraw(s)
    <3>1. Proceed(s, Idle) \/ Proceed(s, ToCount(q.on, -q.seats, FALSE, FALSE))
      BY <2>6 DEF Withdraw
    <3>2. -q.seats \in Int BY <1>1, <2>6 DEF Withdraw, At, Carries
    <3> QED BY <1>3, <3>1, <3>2, OnwardEnds, Zenon
  <2> QED BY <1>6, <2>2, <2>3, <2>4, <2>5, <2>6
<1>7. CASE JoinSeat(s) \/ WalkInSeat(s)
  <2>1. ASSUME CanJoin(event.status), NEW r \in Request, Proceed(s, r),
               r.op \in {"join_row", "walk_in_row"}, r.on = q.on
        PROVE  \E x : Onward(s, x)
    BY <2>1 DEF Onward, CanJoin
  <2>2. Proceed(s, Idle) => \E r : Onward(s, r) BY OnwardEnds
  <2>3. CASE JoinSeat(s)
    <3>1. q.op = "join_seat" /\ q.had \in RowStatus /\ q.on \in Player
      BY <1>1, <2>3 DEF JoinSeat, At, Carries
    <3> DEFINE r == [op |-> "join_row", on |-> q.on, had |-> q.had]
    <3>2. [q EXCEPT !.op = "join_row"] = r BY <1>1, <3>1, JoinSeatRecord
    <3>3. r \in Request BY <3>1, RequestRecords
    <3> QED BY <2>1, <2>2, <2>3, <3>2, <3>3 DEF JoinSeat, TakeSeat, Finish
  <2>4. CASE WalkInSeat(s)
    <3>1. q.op = "walk_in_seat" /\ q.on \in WalkIn BY <1>1, <2>4 DEF WalkInSeat, At, Carries
    <3> DEFINE r == [op |-> "walk_in_row", on |-> q.on]
    <3>2. [q EXCEPT !.op = "walk_in_row"] = r BY <1>1, <3>1, WalkInSeatRecord
    <3>3. r \in Request BY <3>1, RequestRecords
    <3> QED BY <2>1, <2>2, <2>4, <3>2, <3>3 DEF WalkInSeat, TakeSeat, Finish
  <2> QED BY <1>7, <2>3, <2>4
<1>8. CASE LeaveRow(s)
  <2>1. q.op = "leave" /\ q.on \in Player BY <1>1, <1>8 DEF LeaveRow, At, Carries
  <2> DEFINE r == ToCount(q.on, -1, TRUE, TRUE)
  <2>2. r \in Request /\ r.op = "count" BY <2>1, CountRecords, Zenon
  <2>3. r.on = q.on BY DEF ToCount
  <2>4. Proceed(s, r) BY <1>8, Zenon DEF LeaveRow
  <2> HIDE DEF r
  <2> QED BY <2>1, <2>2, <2>3, <2>4 DEF Onward
<1>9. CASE Cascade(s)
  <2>1. q.on \in Player BY <1>1, <1>9 DEF Cascade, At, Carries
  <2> DEFINE r == WithdrawGuests(q.on, GuestsOf(q.on))
  <2>2. r \in Request BY <2>1, WithdrawType
  <2>3. r.op = "withdraw" /\ r.on = q.on BY DEF WithdrawGuests
  <2>4. Proceed(s, Idle) \/ Proceed(s, r) BY <1>9 DEF Cascade
  <2> HIDE DEF r
  <2> QED BY <2>2, <2>3, <2>4, OnwardEnds DEF Onward
<1>10. CASE Count(s)
  <2>1. CASE q.cascade
    <3> DEFINE r == [op |-> "cascade", on |-> q.on]
    <3>1. q.on \in Player BY <1>1, <1>10, <2>1 DEF Count, At, Carries
    <3>2. r \in Request BY <3>1, RequestRecords
    <3>3. Proceed(s, r) BY <1>10, <2>1 DEF Count
    <3> QED BY <3>2, <3>3 DEF Onward
  <2>2. CASE ~q.cascade BY <1>10, <2>2, OnwardEnds DEF Count
  <2> QED BY <2>1, <2>2
<1> QED BY <1>3, <1>4, <1>5, <1>6, <1>7, <1>8, <1>9, <1>10

-----------------------------------------------------------------------------
(* Every handler keeps what the lifecycle relies on *)

\* A request that has begun: one about the event found nothing else in flight.
LEMMA LifeOpens ==
  ASSUME "event" \in Exclusive, "public_challenge" \notin Unforeseen,
         LifeInv, NEW s \in Slot, NEW r \in Request, Opens(s, r), Fresh(r)
  PROVE  Life'
<1>0. TypeOK /\ Life /\ Carries(r) BY RequestShape DEF LifeInv, TypeInv
<1>1. /\ Proceed(s, r) /\ request[s] = Idle /\ UNCHANGED <<event, row, guest, walkIn>>
      /\ \A t \in Slot \ {s} : request[t] # Idle => TheEvent \notin {r.on, request[t].on}
  BY DEF Opens, Clear, store
<1>2. request'[s] = r /\ \A t \in Slot : t # s => request'[t] = request[t]
  BY <1>0, <1>1, Requests
<1>3. EventApart' BY <1>0, <1>1, <1>2 DEF Life, EventApart
<1>4. EventRecord' BY <1>0, <1>1 DEF Life, EventRecord, OnPaperNow, IsChallenge
<1>5. SameEvent BY <1>1 DEF SameEvent
<1>6. event \in [kind : Kind, status : Status,
                statusBeforeCancel : (Status \ {"cancelled"}) \cup {Null},
                cancelReason : BOOLEAN,
                proposal : {"none", "proposed", "accepted", "rejected"},
                maxPlayers : Nat \cup {Null}, isPublic : BOOLEAN,
                isAllowExtraPlayer : BOOLEAN, joinedCount : Nat]
  BY <1>0 DEF TypeOK
<1>7. EventFits(r)
  <2>1. r.op = "cancel" => r.was \in Cancellable
    BY <1>6, CancelFrom DEF Fresh
  <2>2. r.op = "restore" => /\ r.to \in Cancellable
                            /\ OnPaperNow => r.to = "join"
    BY <1>0 DEF Fresh, Life, EventRecord, RestoredStatus, Cancellable
  <2>3. OnPaperNow => r = Idle \/ r.on = TheEvent
    <3> SUFFICES ASSUME OnPaperNow PROVE r.on = TheEvent OBVIOUS
    <3>1. /\ \A p \in Player : row[p] = "none"
          /\ \A w \in WalkIn : walkIn[w] = "none"
          /\ \A g \in GuestId : guest[g] = NoGuest
          /\ ~event.isPublic
      BY <1>0 DEF Life, EventRecord, OnPaperNow
    <3>2. ~ProposalAccepted /\ IsChallenge BY DEF OnPaperNow, ProposalAccepted
    <3> QED BY <1>0, <3>1, <3>2 DEF Fresh, Carries, Joined, NoGuest
  <2>4. r.op = "status" => ~OnPaperNow /\ \E k \in Kind : CanTransition(k, event.status, r.to)
    BY <1>6 DEF Fresh, OnPaperNow, ProposalAccepted
  <2>5. r.op = "proposal" => OnPaperNow BY DEF Fresh, OnPaperNow
  <2> QED BY <2>1, <2>2, <2>3, <2>4, <2>5 DEF Fresh, EventFits
<1>8. EventFits(r)' BY <1>5, <1>7, FitsSame
<1>9. ASSUME NEW t \in Slot PROVE EventFits(request[t])'
  <2>1. CASE t = s BY <1>2, <1>8, <2>1, EventFitsNext
  <2>2. CASE t # s
    <3> PICK u : u = request[t] OBVIOUS
    <3>1. EventFits(u) /\ request'[t] = u BY <1>0, <1>2, <2>2 DEF Life, EventFits
    <3> QED BY <1>5, <3>1, FitsSame, EventFitsNext
  <2> QED BY <2>1, <2>2
<1> QED BY <1>3, <1>4, <1>9 DEF Life

\* A step of a request about somebody leaves the lifecycle alone.
LEMMA LifePeople ==
  ASSUME LifeInv, NEW s \in Slot,
         \/ JoinSeat(s) \/ JoinRow(s) \/ LeaveRow(s) \/ Cascade(s) \/ Count(s)
         \/ AddGuest(s) \/ Withdraw(s) \/ Judge(s)
         \/ WalkInSeat(s) \/ WalkInRow(s) \/ WalkInOut(s)
         \/ Assign(s) \/ Respond(s) \/ Unassign(s)
  PROVE  Life'
<1>0. TypeOK /\ Life BY DEF LifeInv, TypeInv
<1>1. SameEvent BY <1>0, PeopleLeaveEvent
<1>2. request[s] # Idle /\ request[s].on # TheEvent /\ \E r : Onward(s, r)
  BY <1>0, PeopleGoOn
<1>3. PICK r : Onward(s, r) BY <1>2
<1>4. request'[s] = r /\ \A t \in Slot : t # s => request'[t] = request[t]
  BY <1>0, <1>3, Requests DEF Onward
<1>5. EventFits(request[s]) BY <1>0 DEF Life
<1>6. ~OnPaperNow /\ ~OnPaperNow' /\ (IsChallenge' <=> IsChallenge)
  BY <1>1, <1>2, <1>5 DEF EventFits, OnPaperNow, IsChallenge, SameEvent
<1>7. EventApart' BY <1>0, <1>2, <1>3, <1>4 DEF Life, EventApart, Onward
<1>8. EventFits(r)'
  <2>1. event.status = event'.status BY <1>1 DEF SameEvent
  <2> QED BY <1>3, <1>5, <1>6, <2>1 DEF EventFits, Onward
<1>9. ASSUME NEW t \in Slot PROVE EventFits(request[t])'
  <2>1. CASE t = s BY <1>4, <1>8, <2>1, EventFitsNext
  <2>2. CASE t # s
    <3> PICK u : u = request[t] OBVIOUS
    <3>1. EventFits(u) /\ request'[t] = u BY <1>0, <1>4, <2>2 DEF Life, EventFits
    <3> QED BY <1>1, <3>1, FitsSame, EventFitsNext
  <2> QED BY <2>1, <2>2
<1>10. IsChallenge => \A g \in GuestId : guest'[g] = NoGuest
  <2> SUFFICES ASSUME IsChallenge PROVE \A g \in GuestId : guest'[g] = NoGuest OBVIOUS
  <2>1. \A g \in GuestId : guest[g] = NoGuest BY <1>0 DEF Life, EventRecord
  <2>2. Known(request[s]) /\ Carries(request[s]) BY <1>0, InFlight DEF LifeInv, TypeInv
  <2>3. ~AddGuest(s) BY <1>5 DEF AddGuest, At, EventFits
  <2>4. ~Judge(s) BY <2>1, <2>2 DEF Judge, At, Known, Carries
  <2>5. Withdraw(s) => guest' = [g \in GuestId |-> guest[g]]
    <3> SUFFICES ASSUME Withdraw(s) PROVE guest' = [g \in GuestId |-> guest[g]] OBVIOUS
    <3>1. \A g \in GuestId : g \notin request[s].guests
      BY <2>1, <2>2 DEF Withdraw, At, Known, Carries
    <3> QED BY <3>1 DEF Withdraw
  <2> QED BY <2>1, <2>3, <2>4, <2>5
          DEF JoinSeat, JoinRow, LeaveRow, Cascade, Count, WalkInSeat, WalkInRow, WalkInOut,
              Assign, Respond, Unassign, TakeSeat, store
<1>11. EventRecord' BY <1>0, <1>1, <1>6, <1>10 DEF Life, EventRecord, SameEvent
<1> QED BY <1>7, <1>9, <1>11 DEF Life

\* Saving the event: nothing else was in flight, so what was read is what is changed.
LEMMA LifeSave ==
  ASSUME LifeInv, NEW s \in Slot,
         ProposalSave(s) \/ SetStatusSave(s) \/ UpdateSave(s) \/ CancelSave(s) \/ RestoreSave(s)
  PROVE  Life'
<1> PICK q : q = request[s] OBVIOUS
<1>0. TypeOK /\ Life /\ Carries(q) /\ EventFits(q) BY InFlight DEF LifeInv, TypeInv, Life
<1>1. q.op \in {"proposal", "status", "update", "cancel", "restore"}
  BY DEF ProposalSave, SetStatusSave, UpdateSave, CancelSave, RestoreSave, At
<1>2. q # Idle /\ q.on = TheEvent BY <1>0, <1>1 DEF Carries, Idle
<1>3. UNCHANGED <<row, guest, walkIn>> /\ Proceed(s, Idle)
  BY DEF ProposalSave, SetStatusSave, UpdateSave, CancelSave, RestoreSave, Save, Finish
<1>4. request'[s] = Idle /\ \A t \in Slot : t # s => request'[t] = request[t]
  BY <1>0, <1>3, Requests
<1>5. \A t \in Slot : request'[t] = Idle BY <1>0, <1>2, <1>4 DEF Life, EventApart
<1>6. EventApart' BY <1>5 DEF EventApart
<1>7. \A t \in Slot : EventFits(request[t])' BY <1>5 DEF EventFits, Idle
<1>8. /\ event.status \in Status /\ event.kind \in Kind
      /\ event \in [kind : Kind, status : Status,
                    statusBeforeCancel : (Status \ {"cancelled"}) \cup {Null},
                    cancelReason : BOOLEAN,
                    proposal : {"none", "proposed", "accepted", "rejected"},
                    maxPlayers : Nat \cup {Null}, isPublic : BOOLEAN,
                    isAllowExtraPlayer : BOOLEAN, joinedCount : Nat]
  BY <1>0 DEF TypeOK
<1>9. EventRecord BY <1>0 DEF Life
<1>10. CASE ProposalSave(s)
  <2>1. q.op = "proposal" /\ event' = [event EXCEPT !.proposal = q.to]
    BY <1>10 DEF ProposalSave, Save, At
  <2>2. OnPaperNow BY <1>0, <2>1 DEF EventFits
  <2>3. EventRecord' BY <1>3, <1>8, <1>9, <2>1, <2>2 DEF EventRecord, OnPaperNow, IsChallenge
  <2> QED BY <1>6, <1>7, <2>3 DEF Life
<1>11. CASE SetStatusSave(s)
  <2>1. q.op = "status" /\ event' = [event EXCEPT !.status = q.to]
    BY <1>11 DEF SetStatusSave, Save, At
  <2>2. /\ ~OnPaperNow /\ q.to \in Status \ {"cancelled"}
        /\ \E k \in Kind : CanTransition(k, event.status, q.to)
    BY <1>0, <2>1 DEF EventFits, Carries
  <2>3. event.status # "cancelled" BY <1>8, <2>2, Transitions
  <2>4. EventRecord' BY <1>3, <1>8, <1>9, <2>1, <2>2, <2>3 DEF EventRecord, OnPaperNow, IsChallenge
  <2> QED BY <1>6, <1>7, <2>4 DEF Life
<1>12. CASE UpdateSave(s)
  <2>1. q.op = "update" /\ q.to \in Setting BY <1>0, <1>12 DEF UpdateSave, At, Carries
  <2>2. event' = [event EXCEPT !.maxPlayers = q.to.maxPlayers, !.isPublic = q.to.isPublic,
                               !.isAllowExtraPlayer = q.to.isAllowExtraPlayer]
    BY <1>12 DEF UpdateSave, Save
  <2>3. IsChallenge => ~q.to.isPublic BY <1>0, <2>1 DEF EventFits
  <2>4. EventRecord' BY <1>3, <1>8, <1>9, <2>2, <2>3 DEF EventRecord, OnPaperNow, IsChallenge
  <2> QED BY <1>6, <1>7, <2>4 DEF Life
<1>13. CASE CancelSave(s)
  <2>1. /\ q.op = "cancel"
        /\ event' = [event EXCEPT !.statusBeforeCancel = q.was, !.status = "cancelled",
                                  !.cancelReason = TRUE]
    BY <1>13 DEF CancelSave, Save, At
  <2>2. q.was = event.status /\ q.was \in Cancellable BY <1>0, <2>1 DEF EventFits
  <2>3. EventRecord'
    BY <1>3, <1>8, <1>9, <2>1, <2>2 DEF EventRecord, OnPaperNow, IsChallenge, Cancellable
  <2> QED BY <1>6, <1>7, <2>3 DEF Life
<1>14. CASE RestoreSave(s)
  <2>1. /\ q.op = "restore"
        /\ event' = [event EXCEPT !.status = q.to, !.statusBeforeCancel = Null,
                                  !.cancelReason = FALSE]
    BY <1>14 DEF RestoreSave, Save, At, Restored
  <2>2. q.to \in Cancellable /\ (OnPaperNow => q.to = "join") BY <1>0, <2>1 DEF EventFits
  <2>3. EventRecord'
    BY <1>3, <1>8, <1>9, <2>1, <2>2 DEF EventRecord, OnPaperNow, IsChallenge, Cancellable
  <2> QED BY <1>6, <1>7, <2>3 DEF Life
<1> QED BY <1>10, <1>11, <1>12, <1>13, <1>14

\* Neither sport is a challenge, and both play through the same statuses.
LEMMA LifeSport ==
  ASSUME LifeInv, ChangeSport
  PROVE  Life'
<1>1. UNCHANGED <<row, guest, walkIn, request>> /\ ~IsChallenge BY DEF ChangeSport
<1>2. ~IsChallenge' /\ event'.status = event.status
      /\ event'.statusBeforeCancel = event.statusBeforeCancel
      /\ event'.cancelReason = event.cancelReason
  BY DEF ChangeSport, IsChallenge, LifeInv, TypeInv, TypeOK
<1>3. EventApart' BY <1>1 DEF LifeInv, Life, EventApart
<1>4. EventRecord' BY <1>1, <1>2 DEF LifeInv, Life, EventRecord, OnPaperNow
<1>5. ASSUME NEW t \in Slot PROVE EventFits(request[t])'
  <2>1. EventFits(request[t]) BY DEF LifeInv, Life
  <2> QED BY <1>1, <1>2, <2>1 DEF EventFits, OnPaperNow
<1> QED BY <1>3, <1>4, <1>5 DEF Life

\* A new event has no request in flight, and a reason exactly if it was called off.
LEMMA LifeInit == Init => LifeInv
<1> SUFFICES ASSUME Init PROVE LifeInv OBVIOUS
<1>1. TypeInv BY TypeInit
<1>2. \A s \in Slot : request[s] = Idle BY DEF Init
<1>3. EventApart BY <1>2 DEF EventApart
<1>4. EventRecord BY DEF Init, EventRecord, OnPaperNow, IsChallenge
<1>5. \A s \in Slot : EventFits(request[s]) BY <1>2 DEF EventFits, Idle
<1> QED BY <1>1, <1>3, <1>4, <1>5 DEF LifeInv, Life

\* Every step keeps what the lifecycle relies on.
LEMMA LifeNext ==
  ASSUME "event" \in Exclusive, "public_challenge" \notin Unforeseen, LifeInv, [Next]_vars
  PROVE  LifeInv'
<1>0. TypeInv /\ TypeInv' /\ TypeOK BY TypeNext DEF LifeInv, TypeInv
<1>1. CASE UNCHANGED vars
  BY <1>0, <1>1 DEF vars, store, LifeInv, Life, EventApart, EventRecord, EventFits, OnPaperNow,
                    IsChallenge
<1>2. CASE Reading
  <2>1. PICK s \in Slot, r \in Request : Opens(s, r) /\ Fresh(r) BY <1>0, <1>2, ReadingOpens
  <2> QED BY <1>0, <2>1, LifeOpens DEF LifeInv
<1>3. ASSUME NEW s \in Slot, Writing(s) PROVE LifeInv'
  BY <1>0, <1>3, LifePeople, LifeSave DEF Writing, LifeInv
<1>4. CASE ChangeSport BY <1>0, <1>4, LifeSport DEF LifeInv
<1> QED BY <1>1, <1>2, <1>3, <1>4, NextSteps

-----------------------------------------------------------------------------
(* The counter is the roster *)

\* Nobody is ahead of the counter and nobody behind it.
BooksInv == RosterInv /\ LifeInv /\ Balance = 0

\* While one request at a time is about the event, a move of the counter is never skipped:
\* registration is still open, and there is something left to count down from.
LEMMA NeverSkips ==
  ASSUME BooksInv, NEW s \in Slot
  PROVE  ~Skips(request[s])
<1> SUFFICES ASSUME Skips(request[s]) PROVE FALSE OBVIOUS
<1>1. RosterInv /\ TypeOK BY DEF BooksInv, RosterInv, TypeInv
<1>2. /\ request[s].delta \in Int /\ request[s].delta < 0
      /\ LagOf(request[s]) = request[s].delta
  BY <1>1, SkipsLower
<1>3. EventFits(request[s]) BY DEF BooksInv, LifeInv, Life
<1>4. event.joinedCount + request[s].delta < 0 BY <1>3 DEF EventFits, Skips
<1>5. /\ Cardinality(Gained) \in Nat
      /\ Lag - request[s].delta <= Cardinality(Gained)
  BY <1>1, <1>2, LagBound
<1>6. Cardinality(Gained) <= Seated
  BY Finite DEF Gained, Seated
<1>7. event.joinedCount + Lag = Seated + Reserved
  BY <1>1, BalanceType, Finite DEF BooksInv, Balance
<1> QED BY <1>1, <1>2, <1>4, <1>5, <1>6, <1>7, BalanceType, Finite

\* joinedCount is the roster (findById: "`joinedCount` says how many people joined"): with
\* what is in flight accounted for, the counter is the number of people with a seat, whoever
\* joins, leaves, is removed, judged or withdrawn, while requests about the same person, and
\* those about the event itself, do not overlap.
THEOREM SeatsStayConserved ==
  ASSUME "person" \in Exclusive, "event" \in Exclusive, Unforeseen = {}
  PROVE  Spec => []SeatsConserved
<1>1. Init => BooksInv
  <2> SUFFICES ASSUME Init PROVE BooksInv OBVIOUS
  <2>1. RosterInv /\ LifeInv BY RosterInit, LifeInit
  <2>2. Balance = 0 BY NothingYet
  <2> QED BY <2>1, <2>2 DEF BooksInv
<1>2. BooksInv /\ [Next]_vars => BooksInv'
  <2> SUFFICES ASSUME BooksInv, [Next]_vars PROVE BooksInv' OBVIOUS
  <2>1. RosterInv' /\ LifeInv' BY RosterNext, LifeNext DEF BooksInv
  <2>2. TypeOK' BY <2>1 DEF LifeInv, TypeInv
  <2>3. Balance' = Balance
    <3>1. \A s \in Slot : ~Skips(request[s]) BY NeverSkips
    <3> QED BY <2>2, <3>1, Moves DEF BooksInv, Keeps, Admits
  <2> QED BY <2>1, <2>3 DEF BooksInv
<1>3. BooksInv => SeatsConserved
  <2> SUFFICES ASSUME BooksInv PROVE SeatsConserved OBVIOUS
  <2>1. TypeOK BY DEF BooksInv, RosterInv, TypeInv
  <2>2. event.joinedCount + Lag = Seated + Reserved
    BY <2>1, BalanceType, Finite DEF BooksInv, Balance
  <2> QED BY <2>1, <2>2 DEF SeatsConserved
<1> QED BY <1>1, <1>2, <1>3, PTL DEF Spec

-----------------------------------------------------------------------------
(* What the lifecycle closed *)

\* On paper means nobody is on the roster or on the way.
LEMMA NobodyOnPaper ==
  ASSUME LifeInv, OnPaperNow
  PROVE  Seated + Reserved = 0
<1>1. /\ \A p \in Player : row[p] = "none"
      /\ \A w \in WalkIn : walkIn[w] = "none"
      /\ \A g \in GuestId : guest[g] = NoGuest
  BY DEF LifeInv, Life, EventRecord, OnPaperNow
<1>2. \A s \in Slot : request[s].op \notin {"join_row", "walk_in_row"}
  <2> SUFFICES ASSUME NEW s \in Slot PROVE request[s].op \notin {"join_row", "walk_in_row"}
    OBVIOUS
  <2>1. EventFits(request[s]) /\ Carries(request[s])
    BY InFlight DEF LifeInv, Life, TypeInv
  <2> QED BY <2>1, RosterAssumption DEF EventFits, Carries, Idle
<1>3. OnRoster = {} /\ GuestsIn = {} /\ WalkInsIn = {}
      /\ {s \in Slot : request[s].op \in {"join_row", "walk_in_row"}} = {}
  BY <1>1, <1>2 DEF OnRoster, GuestsIn, WalkInsIn, Joined, NoGuest
<1> QED BY <1>3, FS_EmptySet DEF Seated, Reserved

\* A cancellation keeps its record (restore: 'so the "cancelReason exists iff cancelled"
\* invariant holds') and can only be undone to where it was made from, and a challenge that
\* was not accepted has nobody on it (assertProposalAccepted), whichever requests about people
\* overlap, the same person's included.
THEOREM CancelStaysRecorded ==
  ASSUME "event" \in Exclusive, "public_challenge" \notin Unforeseen
  PROVE  Spec => []CancelRecord
<1>1. LifeInv /\ [Next]_vars => LifeInv' BY LifeNext
<1>2. LifeInv => CancelRecord
  <2> SUFFICES ASSUME LifeInv PROVE CancelRecord OBVIOUS
  <2>1. /\ EventRecord /\ event.kind \in Kind
        /\ event.statusBeforeCancel \in (Status \ {"cancelled"}) \cup {Null}
    BY DEF LifeInv, Life, TypeInv, TypeOK
  <2>2. event.statusBeforeCancel # Null =>
          CanTransition(event.kind, event.statusBeforeCancel, "cancelled")
    BY <2>1, CancelFrom DEF EventRecord
  <2>3. OnPaper BY <2>1, NobodyOnPaper DEF OnPaper, OnPaperNow, EventRecord
  <2> QED BY <2>1, <2>2, <2>3 DEF CancelRecord, EventRecord
<1> QED BY <1>1, <1>2, LifeInit, PTL DEF Spec

\* A save moves the status as the tables or the record of the cancellation allow.
LEMMA StatusMoves ==
  ASSUME LifeInv, NEW s \in Slot,
         ProposalSave(s) \/ SetStatusSave(s) \/ UpdateSave(s) \/ CancelSave(s) \/ RestoreSave(s)
  PROVE  PlayedStays
<1>1. /\ TypeOK /\ event.status \in Status
      /\ Carries(request[s]) /\ EventFits(request[s])
  BY InFlight DEF LifeInv, Life, TypeInv, TypeOK
<1>2. CASE ProposalSave(s) \/ UpdateSave(s)
  <2>1. event'.status = event.status BY <1>1, <1>2 DEF ProposalSave, UpdateSave, Save, TypeOK
  <2> QED BY <2>1 DEF PlayedStays
<1>3. CASE SetStatusSave(s)
  <2>1. /\ request[s].op = "status" /\ event'.status = request[s].to
        /\ request[s].to \in Status
    BY <1>1, <1>3 DEF SetStatusSave, Save, At, TypeOK, Carries
  <2>2. PICK k \in Kind : CanTransition(k, event.status, request[s].to)
    BY <1>1, <2>1 DEF EventFits
  <2>3. event.status # "done" /\ (event.status = "after_match" => request[s].to = "done")
    BY <1>1, <2>1, <2>2, Transitions
  <2> QED BY <2>1, <2>3 DEF PlayedStays
<1>4. CASE CancelSave(s)
  BY <1>1, <1>4 DEF CancelSave, At, EventFits, Cancellable, PlayedStays
<1>5. CASE RestoreSave(s)
  BY <1>1, <1>5 DEF RestoreSave, At, EventFits, PlayedStays
<1> QED BY <1>2, <1>3, <1>4, <1>5

\* A match that was played stays played, and once registration has closed the roster of an
\* event people join themselves stays (events.lifecycle.ts: "that history must not be
\* erasable"; removePlayer: "Past that point teams and fixtures reference the roster"),
\* whichever requests about people overlap.
THEOREM HistoryIsKept ==
  ASSUME "event" \in Exclusive, "public_challenge" \notin Unforeseen
  PROVE  Spec => HistoryStays
<1>1. LifeInv /\ [Next]_vars => LifeInv' BY LifeNext
<1>2. LifeInv /\ [Next]_vars => [PlayedStays /\ RosterFrozen]_vars
  <2> SUFFICES ASSUME LifeInv, Next PROVE PlayedStays /\ RosterFrozen OBVIOUS
  <2>1. TypeInv /\ TypeOK BY DEF LifeInv, TypeInv
  <2>2. CASE Reading
    <3>1. UNCHANGED <<event, row>> BY <2>1, <2>2, ReadingOpens DEF Opens, store
    <3> QED BY <3>1 DEF PlayedStays, RosterFrozen
  <2>3. ASSUME NEW s \in Slot, Writing(s) PROVE PlayedStays /\ RosterFrozen
    <3>1. CASE \/ ProposalSave(s) \/ SetStatusSave(s) \/ UpdateSave(s) \/ CancelSave(s)
               \/ RestoreSave(s)
      <4>1. row' = row
        BY <3>1 DEF ProposalSave, SetStatusSave, UpdateSave, CancelSave, RestoreSave, Save
      <4> QED BY <3>1, <4>1, StatusMoves DEF RosterFrozen
    <3>2. CASE \/ JoinSeat(s) \/ JoinRow(s) \/ LeaveRow(s) \/ Cascade(s) \/ Count(s)
               \/ AddGuest(s) \/ Withdraw(s) \/ Judge(s)
               \/ WalkInSeat(s) \/ WalkInRow(s) \/ WalkInOut(s)
               \/ Assign(s) \/ Respond(s) \/ Unassign(s)
      <4>1. PlayedStays BY <2>1, <3>2, PeopleLeaveEvent DEF SameEvent, PlayedStays
      <4>2. EventFits(request[s]) BY DEF LifeInv, Life
      <4>3. \/ row' = row \/ JoinRow(s) \/ LeaveRow(s) \/ Assign(s) \/ Respond(s) \/ Unassign(s)
        BY <3>2 DEF JoinSeat, Cascade, Count, AddGuest, Withdraw, Judge, WalkInSeat, WalkInRow,
                    WalkInOut, TakeSeat, store
      <4>4. RosterFrozen
        BY <4>2, <4>3 DEF EventFits, JoinRow, LeaveRow, Assign, Respond, Unassign, At, RosterFrozen
      <4> QED BY <4>1, <4>4
    <3> QED BY <2>3, <3>1, <3>2 DEF Writing
  <2>4. CASE ChangeSport
    <3>1. event'.status = event.status /\ row' = row BY <2>1, <2>4 DEF ChangeSport, TypeOK
    <3> QED BY <3>1 DEF PlayedStays, RosterFrozen
  <2> QED BY <2>2, <2>3, <2>4, NextSteps
<1> QED BY <1>1, <1>2, LifeInit, PTL DEF Spec, HistoryStays
=============================================================================
