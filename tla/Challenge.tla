----------------------------- MODULE Challenge -----------------------------
(***************************************************************************)
(* Groups that challenge each other to a match: the handshake              *)
(* (challenges/challenges.service.ts), the match event that grows from an  *)
(* accepted challenge, the other side's verdict on it, and what waits for  *)
(* that verdict: the squads and the event's lifecycle (EventsService).     *)
(*                                                                         *)
(* Every handler checks a document it loaded and saves it later, so each   *)
(* is two steps, and the match event three.  Who may act for a group is    *)
(* not told apart.  How the squads count as players is in EventRoster, the *)
(* award at the end in Aftermath.                                          *)
(***************************************************************************)
EXTENDS Naturals, FiniteSets, EventLifecycle

CONSTANTS Group,
          ChallengeId, EventId,  \* documents over time (bounds)
          Slot,                  \* requests in flight at a time (a bound)
          Exclusive,             \* handlers that do not overlap: "answers" to one
                                 \* challenge, "matches" proposed for one challenge,
                                 \* "verdicts" on one proposal and its revision,
                                 \* "birth": the event of a match until it is one
          Null

VARIABLES
  challenge,  \* Challenge documents
  event,      \* Event documents: type, challengeId, sides, proposedStatus, status
  squad,      \* events with players assigned to them
  request     \* what each request in flight still has to do

store == <<challenge, event, squad>>
vars == <<store, request>>

-----------------------------------------------------------------------------
NoChallenge == [from |-> Null, to |-> Null, status |-> "none", eventId |-> Null, unread |-> FALSE]
NoEvent == [type |-> "none", of |-> Null, group |-> Null, opponent |-> Null,
            proposal |-> Null, status |-> "join", before |-> Null]

Events == {e \in EventId : event[e].type # "none"}
Matches == {e \in EventId : event[e].type = "challenge"}
KindOf(e) == IF e \in Matches THEN "challenge" ELSE "match"

Idle == [op |-> "idle"]
At(s, op) == request[s].op = op
Proceed(s, r) == request' = [request EXCEPT ![s] = r]
Finish(s) == Proceed(s, Idle)
Begin(s, r) == request[s] = Idle /\ Proceed(s, r) /\ UNCHANGED store

InFlight(ops, id) == \E s \in Slot : request[s].op \in ops /\ request[s].id = id
Free(what, ops, id) == what \in Exclusive => ~InFlight(ops, id)

-----------------------------------------------------------------------------
(* The handshake: create, respond, markRead *)

Pending(g, h) ==
  {c \in ChallengeId : challenge[c].status = "proposed" /\ {challenge[c].from, challenge[c].to} = {g, h}}

Create(s, g, h) ==
  g # h /\ Pending(g, h) = {} /\ Begin(s, [op |-> "create", from |-> g, to |-> h])

Insert(s) ==
  /\ At(s, "create")
  /\ \E c \in ChallengeId :
       /\ challenge[c].status = "none"
       /\ challenge' = [challenge EXCEPT ![c] =
            [NoChallenge EXCEPT !.from = request[s].from, !.to = request[s].to,
                                !.status = "proposed", !.unread = TRUE]]
  /\ Finish(s) /\ UNCHANGED <<event, squad>>

Answerable(c) == challenge[c].status = "proposed"

Respond(s, c, answer) ==
  /\ Answerable(c) /\ Free("answers", {"respond"}, c)
  /\ Begin(s, [op |-> "respond", id |-> c, answer |-> answer])

SaveAnswer(s) ==
  /\ At(s, "respond")
  /\ challenge' = [challenge EXCEPT ![request[s].id].status = request[s].answer]
  /\ Finish(s) /\ UNCHANGED <<event, squad>>

MarkRead(g) ==
  /\ \E c \in ChallengeId : challenge[c].unread /\ challenge[c].to = g
  /\ challenge' = [c \in ChallengeId |->
       [challenge[c] EXCEPT !.unread = @ /\ challenge[c].to # g]]
  /\ UNCHANGED <<event, squad, request>>

-----------------------------------------------------------------------------
(* createChallengeEvent: the event is created, made the match, and linked *)

Open(c) == challenge[c].status = "accepted" /\ challenge[c].eventId = Null

Propose(s, c, g) ==
  /\ Open(c) /\ g \in {challenge[c].from, challenge[c].to}
  /\ Free("matches", {"event", "type", "link"}, c)
  /\ Begin(s, [op |-> "event", id |-> c, group |-> g,
               opponent |-> IF g = challenge[c].from THEN challenge[c].to ELSE challenge[c].from])

\* create() may also refuse: the plan's weekly limit, the place, the sport.
CreateEvent(s) ==
  /\ At(s, "event") /\ UNCHANGED <<challenge, squad>>
  /\ \/ Finish(s) /\ UNCHANGED event
     \/ \E e \in EventId :
          /\ event[e].type = "none"
          /\ event' = [event EXCEPT ![e] = [NoEvent EXCEPT !.type = "normal", !.group = request[s].group]]
          /\ Proceed(s, [op |-> "type", id |-> request[s].id, event |-> e,
                         opponent |-> request[s].opponent])

MakeMatch(s) ==
  /\ At(s, "type")
  /\ LET q == request[s]
     IN  event' = [event EXCEPT ![q.event].type = "challenge", ![q.event].of = q.id,
                                ![q.event].opponent = q.opponent, ![q.event].proposal = "proposed"]
  /\ Proceed(s, [request[s] EXCEPT !.op = "link"]) /\ UNCHANGED <<challenge, squad>>

Link(s) ==
  /\ At(s, "link")
  /\ challenge' = [challenge EXCEPT ![request[s].id].eventId = request[s].event]
  /\ Finish(s) /\ UNCHANGED <<event, squad>>

-----------------------------------------------------------------------------
(* reviewProposal, resubmitProposal *)

Review(s, e, verdict) ==
  /\ e \in Matches /\ event[e].proposal = "proposed" /\ Free("verdicts", {"propose"}, e)
  /\ Begin(s, [op |-> "propose", id |-> e, proposal |-> verdict])

Revisable(e) == e \in Matches /\ event[e].proposal = "rejected"

Resubmit(s, e) ==
  /\ Revisable(e) /\ Free("verdicts", {"propose"}, e)
  /\ Begin(s, [op |-> "propose", id |-> e, proposal |-> "proposed"])

SaveProposal(s) ==
  /\ At(s, "propose")
  /\ event' = [event EXCEPT ![request[s].id].proposal = request[s].proposal]
  /\ Finish(s) /\ UNCHANGED <<challenge, squad>>

-----------------------------------------------------------------------------
(* What waits for the verdict: assignPlayers, setStatus.  cancel, restore, *)
(* remove and unassignPlayer do not wait for it.                           *)

\* Mutant: the verdict is not looked at.
AgreedAlways(e) == TRUE
Agreed(e) == e \in Matches => event[e].proposal = "accepted"

\* An event that is about to become a match.
Unborn(e) == "birth" \in Exclusive /\ \E s \in Slot : At(s, "type") /\ request[s].event = e

Assign(s, e) ==
  /\ e \in Matches /\ Agreed(e) /\ CanJoin(event[e].status)
  /\ Begin(s, [op |-> "assign", id |-> e])

SaveAssign(s) ==
  /\ At(s, "assign") /\ squad' = squad \cup {request[s].id}
  /\ Finish(s) /\ UNCHANGED <<challenge, event>>

Unassign(e) ==
  /\ e \in squad /\ squad' = squad \ {e} /\ UNCHANGED <<challenge, event, request>>

SetStatus(s, e, to) ==
  /\ e \in Events /\ Agreed(e) /\ ~Unborn(e)
  /\ to # "cancelled" /\ CanTransition(KindOf(e), event[e].status, to)
  /\ Begin(s, [op |-> "status", id |-> e, status |-> to, before |-> event[e].before])

Cancel(s, e) ==
  /\ e \in Events /\ ~Unborn(e) /\ CanTransition(KindOf(e), event[e].status, "cancelled")
  /\ Begin(s, [op |-> "status", id |-> e, status |-> "cancelled", before |-> event[e].status])

Restore(s, e) ==
  /\ e \in Events /\ ~Unborn(e) /\ event[e].status = "cancelled"
  /\ Begin(s, [op |-> "status", id |-> e, before |-> Null,
               status |-> IF event[e].before = Null THEN "join" ELSE event[e].before])

SaveStatus(s) ==
  /\ At(s, "status")
  /\ LET q == request[s]
     IN  event' = IF q.id \in Events
                  THEN [event EXCEPT ![q.id].status = q.status, ![q.id].before = q.before]
                  ELSE event
  /\ Finish(s) /\ UNCHANGED <<challenge, squad>>

-----------------------------------------------------------------------------
Init ==
  /\ challenge = [c \in ChallengeId |-> NoChallenge]
  /\ event = [e \in EventId |-> NoEvent]
  /\ squad = {}
  /\ request = [s \in Slot |-> Idle]

Next ==
  \/ \E s \in Slot :
       \/ Insert(s) \/ SaveAnswer(s) \/ CreateEvent(s) \/ MakeMatch(s) \/ Link(s)
       \/ SaveProposal(s) \/ SaveAssign(s) \/ SaveStatus(s)
       \/ \E g, h \in Group : Create(s, g, h)
       \/ \E c \in ChallengeId : \/ \E answer \in {"accepted", "rejected"} : Respond(s, c, answer)
                                 \/ \E g \in Group : Propose(s, c, g)
       \/ \E e \in EventId : \/ Assign(s, e) \/ Resubmit(s, e) \/ Cancel(s, e) \/ Restore(s, e)
                             \/ \E verdict \in {"accepted", "rejected"} : Review(s, e, verdict)
                             \/ \E to \in Status : SetStatus(s, e, to)
  \/ \E g \in Group : MarkRead(g)
  \/ \E e \in EventId : Unassign(e)

Spec == Init /\ [][Next]_vars

-----------------------------------------------------------------------------
(* Properties *)

\* A match event belongs to an accepted challenge, is between its two groups, and
\* is the only one of that challenge, which points back at it once the three
\* writes are through ("Strictly one event per challenge",
\* schemas/challenge.schema.ts:13).
OneMatch ==
  /\ \A e \in Matches :
       LET c == event[e].of
       IN  /\ challenge[c].status = "accepted"
           /\ {event[e].group, event[e].opponent} = {challenge[c].from, challenge[c].to}
           /\ challenge[c].eventId = e \/ \E s \in Slot : At(s, "link") /\ request[s].event = e
           /\ \A f \in Matches : event[f].of = c => f = e
  /\ \A c \in ChallengeId : challenge[c].eventId # Null => event[challenge[c].eventId].of = c

\* Nothing runs on a match the other side has not agreed to: it has no players and
\* goes nowhere but off and back, whatever is in flight ("so nothing downstream
\* (roster, teams, shuffle, lifecycle) may run", events.service.ts:3740).
NothingUnagreed ==
  \A e \in Matches :
    event[e].proposal # "accepted" =>
      /\ e \notin squad
      /\ event[e].status \in {"join", "cancelled"} /\ event[e].before \in {Null, "join"}
      /\ ~InFlight({"assign"}, e)

ChallengeSound == OneMatch /\ NothingUnagreed

\* The verdict is the end of the handshake, not a toggle (challenges.service.ts:95).
AnsweredForGood ==
  /\ \A c \in ChallengeId : challenge[c].status \in {"accepted", "rejected"} =>
       challenge'[c].status = challenge[c].status
  /\ \A e \in Matches : event[e].proposal = "accepted" => event'[e].proposal = "accepted"

=============================================================================
