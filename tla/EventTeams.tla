---------------------------- MODULE EventTeams ----------------------------
(***************************************************************************)
(* The teams of one event, its fixtures and its team rooms                 *)
(* (events/events.service.ts), built from a roster that keeps moving.      *)
(*                                                                         *)
(* A name is what holds these together: a roster row, a fixture and a chat *)
(* room each say which team they belong to by its name only.               *)
(*                                                                         *)
(* Granularity.  A shuffle reads the roster, rebuilds teams, fixtures and  *)
(* rooms, deals, and then assigns the teams one after the other, each with *)
(* the checks of an assignment by hand; the roster changes in between.     *)
(* Building requests (generate, shuffle, assign, add a match, roles) and   *)
(* moves of the status are taken one at a time: nothing else writes what   *)
(* they write, so the writes of one stage are a single step.  A proposal   *)
(* must be accepted before a challenge leaves "join", where no team is     *)
(* built, so it is left out; so are cancellations without a record         *)
(* (EventRoster has both), formations, and what a room or a squad shows.   *)
(***************************************************************************)
EXTENDS EventFixtures, EventLifecycle, Functions

CONSTANTS Player,         \* registered users
          Guest,          \* guest and walk-in rows
          Kinds,          \* kinds of event explored
          TeamColours,    \* TEAM_COLOURS, in dealing order
          Custom,         \* other lists of names an organizer may send
          Rename,         \* names an assignment may give a team
          ChallengeNames, \* the two colours agreed in a proposal
          Length,         \* minutes of a match an organizer may choose
          EventDuration,  \* minutes of the event
          Size,           \* squad sizes an organizer may choose
          MaxMatches,     \* matches after which none is added by hand (a bound)
          MaxScored,      \* the last match that gets a score (a bound)
          Overfull,       \* whether shuffles are begun that deal a team more than its size
          Null

ASSUME TeamsAssumption ==
  /\ IsFiniteSet(Player) /\ IsFiniteSet(Guest) /\ Player \cap Guest = {}
  /\ Kinds \subseteq Kind
  /\ Len(TeamColours) >= MinTeams /\ IsInjective(TeamColours)
  /\ \A c \in Custom : Len(c) >= MinTeams /\ IsInjective(c)
  /\ Len(ChallengeNames) = 2
  /\ Length \subseteq Nat \ {0} /\ Size \subseteq Nat \ {0}
  /\ EventDuration \in Nat /\ MaxMatches \in Nat /\ MaxScored \in Nat
  /\ Overfull \in BOOLEAN

VARIABLES
  event,    \* the Event document: kind, status, what a cancellation recorded, teamCount
  row,      \* roster rows: standing, side of a challenge, team by name
  team,     \* Team documents, in creation order
  match,    \* EventMatch documents, in match order
  room,     \* team chats, by name
  request   \* the shuffle in flight

vars == <<event, row, team, match, room, request>>
built == <<team, match, room>>

Person == Player \cup Guest
Name ==
  Range(TeamColours) \cup UNION {Range(c) : c \in Custom} \cup Range(ChallengeNames) \cup Rename

Idle == [op |-> "idle"]
IsChallenge == event.kind = "challenge"

People(t) == t.players \cup t.guests
TeamNames == {team[i].name : i \in DOMAIN team}
On == {p \in Person : row[p].standing = "in"}

-----------------------------------------------------------------------------
(* The roster, as the teams see it (EventRoster has its seats).  A row that   *)
(* is left, and a row that comes back, keeps the team it names.               *)

Moves(p, standing, side) ==
  /\ row' = [row EXCEPT ![p].standing = standing, ![p].side = side]
  /\ request' = IF request = Idle THEN Idle ELSE [request EXCEPT !.calm = FALSE]
  /\ UNCHANGED <<event, built>>

\* join, leave, removePlayer.
Join(p) ==
  /\ ~IsChallenge /\ CanJoin(event.status) /\ row[p].standing # "in"
  /\ Moves(p, "in", Null)

Leave(p) ==
  /\ ~IsChallenge /\ CanLeave(event.status) /\ row[p].standing = "in"
  /\ Moves(p, "out", Null)

\* addGuest and setGuestApproval, joinAnonymous; the verdict has no gate.
GuestComes(g) ==
  /\ ~IsChallenge /\ row[g].standing = "none"
  /\ Moves(g, "in", Null)

\* removeGuest, removeAnonymous, a verdict taken back: at any time.
GuestGoes(g) ==
  /\ row[g].standing = "in"
  /\ Moves(g, "out", Null)

\* assignPlayers by one side, respondInvitation, unassignPlayer.
Invite(p, side) ==
  /\ IsChallenge /\ CanJoin(event.status) /\ row[p].standing \in {"none", "out"}
  /\ Moves(p, "invited", side)

Answer(p, accepts) ==
  /\ IsChallenge /\ row[p].standing = "invited"
  /\ Moves(p, IF accepts THEN "in" ELSE "out", row[p].side)

Unassign(p) ==
  /\ IsChallenge /\ row[p].standing \in {"in", "invited"}
  /\ Moves(p, "out", row[p].side)

-----------------------------------------------------------------------------
(* Teams and fixtures                                                        *)

NewTeam(name, size) ==
  [name |-> name, players |-> {}, guests |-> {}, captains |-> {}, size |-> size]

\* Rooms are made where there is none; a room there is stays as it is.
RoomsFor(names) ==
  [n \in Name |-> IF n \in Range(names) /\ room[n] = "none" THEN "open" ELSE room[n]]

Scheduled(fixtures, length) ==
  [i \in DOMAIN fixtures |-> [a |-> fixtures[i].a, b |-> fixtures[i].b,
                              length |-> length, scored |-> FALSE]]

\* Mutant: rooms are made only when there were none.
ReplaceWithoutRooms(names, length, size) ==
  /\ row' = [p \in Person |-> [row[p] EXCEPT !.team = Null]]
  /\ team' = [i \in DOMAIN names |-> NewTeam(names[i], size)]
  /\ match' = Scheduled(GenerateFixturesFilling(names, MatchCountFor(EventDuration, length)), length)
  /\ room' = IF \A n \in Name : room[n] = "none" THEN RoomsFor(names) ELSE room

\* createTeamsAndFixtures replaces wholesale.
Replace(names, length, size) ==
  /\ row' = [p \in Person |-> [row[p] EXCEPT !.team = Null]]
  /\ team' = [i \in DOMAIN names |-> NewTeam(names[i], size)]
  /\ match' = Scheduled(GenerateFixturesFilling(names, MatchCountFor(EventDuration, length)), length)
  /\ room' = RoomsFor(names)

\* Two teams of one name: the unique index refuses the second, the old teams
\* being gone already and the fixtures and rooms not reached.
ReplaceHalfway(names, size) ==
  /\ row' = [p \in Person |-> [row[p] EXCEPT !.team = Null]]
  /\ team' = <<NewTeam(names[1], size)>>
  /\ UNCHANGED <<match, room>>

Fits(length) == MatchCountFor(EventDuration, length) >= 1

\* The names asked for, or the colours; a challenge has the two agreed on.
NamesAsked(n) ==
  {SubSeq(TeamColours, 1, n)} \cup {c \in Custom : Len(c) = n}

Generate(n, names, length, size) ==
  /\ request = Idle /\ CanShuffle(event.kind, event.status)
  /\ Fits(length) /\ names \in NamesAsked(n)
  /\ IsChallenge => n = 2
  /\ event' = [event EXCEPT !.teamCount = n]
  /\ LET used == IF IsChallenge THEN ChallengeNames ELSE names
     IN  IF IsInjective(used) THEN Replace(used, length, size) ELSE ReplaceHalfway(used, size)
  /\ UNCHANGED request

-----------------------------------------------------------------------------
(* Assigning a team                                                          *)

Fieldable(i, ps, gs) ==
  /\ i \in DOMAIN team /\ ps \subseteq Player \cap On /\ gs \subseteq Guest \cap On
  /\ Cardinality(ps) + Cardinality(gs) <= team[i].size
  /\ \A j \in DOMAIN team \ {i} :
       ps \cap team[j].players = {} /\ gs \cap team[j].guests = {}

\* The rows that name the team are cleared, then the squad's are stamped; who
\* is dropped from the squad loses the captaincy.
Field(i, ps, gs, name) ==
  /\ team' = [team EXCEPT ![i].name = name, ![i].players = ps, ![i].guests = gs,
                          ![i].captains = @ \cap ps]
  /\ row' = [p \in Person |->
               [row[p] EXCEPT !.team = IF p \in ps \cup gs THEN name
                                       ELSE IF @ = name THEN Null ELSE @]]
  /\ UNCHANGED <<event, match, room>>

\* A name another team has is refused by the unique index.
AssignTeam(i, ps, gs, name) ==
  /\ request = Idle /\ CanShuffle(event.kind, event.status)
  /\ Fieldable(i, ps, gs)
  /\ name \in {team[i].name} \cup (Rename \ TeamNames)
  /\ Field(i, ps, gs, name)
  /\ UNCHANGED request

\* setTeamMemberRole: a captain, or again an ordinary player.
SetCaptain(i, p, is) ==
  /\ request = Idle /\ CanModify(event.status)
  /\ i \in DOMAIN team /\ p \in team[i].players
  /\ team' = [team EXCEPT ![i].captains = IF is THEN @ \cup {p} ELSE @ \ {p}]
  /\ UNCHANGED <<event, row, match, room, request>>

-----------------------------------------------------------------------------
(* Shuffling                                                                 *)

CeilDiv(a, b) == (a + b - 1) \div b

TeamsFor(people) ==
  IF IsChallenge THEN 2 ELSE Max({MinTeams, Min({event.teamCount, Cardinality(people)})})

\* As already scheduled, else a third of the event.
LengthForShuffle ==
  IF match # <<>> THEN match[1].length
  ELSE Max({1, (EventDuration - MatchBufferMinutes) \div 3})

FreeColours(taken) == SelectSeq(TeamColours, LAMBDA c : c \notin taken)

\* The names there are, padded with colours not taken.  (Numbered names come
\* only after more than six teams.)
NamesForShuffle(n) ==
  LET kept == SubSeq([i \in DOMAIN team |-> team[i].name], 1, Min({n, Len(team)}))
  IN  kept \o SubSeq(FreeColours(Range(kept)), 1, n - Len(kept))

SideOf(side) == {p \in Player \cap On : row[p].side = side}

\* How many the biggest team is dealt: the remainders of players and of guests
\* both go to the first teams, and a challenge's clubs are as big as they are.
BiggestDeal(n) ==
  IF IsChallenge THEN Max({Cardinality(SideOf(1)), Cardinality(SideOf(2))})
  ELSE CeilDiv(Cardinality(On \cap Player), n) + CeilDiv(Cardinality(On \cap Guest), n)

\* A share of everyone, rounded up.
SizeFor(n) == CeilDiv(Cardinality(On), n)

ShuffleStart ==
  /\ request = Idle /\ CanShuffle(event.kind, event.status)
  /\ Cardinality(On) >= MinTeams /\ Fits(LengthForShuffle)
  /\ LET n == TeamsFor(On)
         names == IF IsChallenge THEN ChallengeNames ELSE NamesForShuffle(n)
     IN  /\ BiggestDeal(n) > SizeFor(n) => Overfull
         /\ IF IsInjective(names)
            THEN /\ Replace(names, LengthForShuffle, SizeFor(n))
                 /\ request' = [op |-> "deal", people |-> On, calm |-> TRUE]
            ELSE ReplaceHalfway(names, SizeFor(n)) /\ UNCHANGED request
  /\ UNCHANGED event

Dealt(squads) ==
  request' = [op |-> "assign", next |-> 1, squads |-> squads, people |-> request.people,
              calm |-> request.calm]

Squad(ps, gs) == [players |-> ps, guests |-> gs]

\* Players and guests are dealt apart, each over all the teams.
DealByLot ==
  /\ request.op = "deal" /\ ~IsChallenge
  /\ \E d \in Deals(request.people \cap Player, Len(team)),
        e \in Deals(request.people \cap Guest, Len(team)) :
       Dealt([i \in DOMAIN team |-> Squad({p \in DOMAIN d : d[p] = i},
                                          {g \in DOMAIN e : e[g] = i})])
  /\ UNCHANGED <<event, row, built>>

\* A challenge reads the rows again, for the side each was assigned by.
DealSides ==
  /\ request.op = "deal" /\ IsChallenge
  /\ Dealt([i \in 1..2 |-> Squad(SideOf(i), {})])
  /\ UNCHANGED <<event, row, built>>

\* Each team's assignment is checked like one by hand; a refusal ends the
\* shuffle where it is.
AssignNext ==
  /\ request.op = "assign"
  /\ LET i == request.next
         s == request.squads[i]
     IN  IF Fieldable(i, s.players, s.guests)
         THEN /\ Field(i, s.players, s.guests, team[i].name)
              /\ request' = IF i = Len(team) THEN Idle ELSE [request EXCEPT !.next = i + 1]
         ELSE request' = Idle /\ UNCHANGED <<event, row, built>>

-----------------------------------------------------------------------------
(* Matches                                                                   *)

\* addMatch appends, whatever the status.
AddMatch(a, b, length) ==
  /\ request = Idle /\ Len(match) < MaxMatches
  /\ {a, b} \subseteq TeamNames /\ a # b
  /\ match' = Append(match, [a |-> a, b |-> b, length |-> length, scored |-> FALSE])
  /\ UNCHANGED <<event, row, team, room, request>>

\* setMatchScore, by an organizer or a referee; no move leads back from where
\* this is allowed to where fixtures are rebuilt.
SetMatchScore(i) ==
  /\ CanEnterScore(event.status) /\ i \in DOMAIN match /\ i <= MaxScored
  /\ match' = [match EXCEPT ![i].scored = TRUE]
  /\ UNCHANGED <<event, row, team, room, request>>

-----------------------------------------------------------------------------
(* The lifecycle, and the rooms that close with it                           *)

Rooms(to) == [n \in Name |-> IF room[n] = "none" THEN "none" ELSE to]

SetStatus(to) ==
  /\ request = Idle /\ to # "cancelled" /\ CanTransition(event.kind, event.status, to)
  /\ event' = [event EXCEPT !.status = to]
  /\ room' = IF to = "done" THEN Rooms("archived") ELSE room
  /\ UNCHANGED <<row, team, match, request>>

Cancel ==
  /\ request = Idle /\ CanTransition(event.kind, event.status, "cancelled")
  /\ event' = [event EXCEPT !.status = "cancelled", !.before = event.status]
  /\ room' = Rooms("archived")
  /\ UNCHANGED <<row, team, match, request>>

\* Mutant: a restored event starts over.
RestoreToJoin ==
  /\ request = Idle /\ event.status = "cancelled"
  /\ event' = [event EXCEPT !.status = "join", !.before = Null]
  /\ room' = Rooms("open")
  /\ UNCHANGED <<row, team, match, request>>

Restore ==
  /\ request = Idle /\ event.status = "cancelled"
  /\ event' = [event EXCEPT !.status = event.before, !.before = Null]
  /\ room' = Rooms("open")
  /\ UNCHANGED <<row, team, match, request>>

\* applyGroupSportType.
ChangeSport ==
  /\ request = Idle /\ ~IsChallenge /\ {"match", "no_match"} \subseteq Kinds
  /\ event' = [event EXCEPT !.kind = IF @ = "match" THEN "no_match" ELSE "match"]
  /\ UNCHANGED <<row, built, request>>

-----------------------------------------------------------------------------
Init ==
  /\ event \in [kind : Kinds, status : {"join"}, before : {Null}, teamCount : {4}]
  /\ row = [p \in Person |-> [standing |-> "none", side |-> Null, team |-> Null]]
  /\ team = <<>> /\ match = <<>>
  /\ room = [n \in Name |-> "none"]
  /\ request = Idle

Roster ==
  \/ \E p \in Player : Join(p) \/ Leave(p) \/ Unassign(p)
  \/ \E p \in Player, side \in 1..2 : Invite(p, side)
  \/ \E p \in Player, accepts \in BOOLEAN : Answer(p, accepts)
  \/ \E g \in Guest : GuestComes(g) \/ GuestGoes(g)

Building ==
  \/ \E n \in MinTeams..Len(TeamColours) :
       \E names \in NamesAsked(n), l \in Length, z \in Size : Generate(n, names, l, z)
  \/ \E i \in DOMAIN team :
       \E ps \in SUBSET Player, gs \in SUBSET Guest, name \in Name : AssignTeam(i, ps, gs, name)
  \/ \E i \in DOMAIN team, p \in Player, is \in BOOLEAN : SetCaptain(i, p, is)
  \/ ShuffleStart \/ DealByLot \/ DealSides \/ AssignNext

Matches ==
  \/ \E a, b \in TeamNames, l \in Length : AddMatch(a, b, l)
  \/ \E i \in DOMAIN match : SetMatchScore(i)

Lifecycle == (\E to \in Status : SetStatus(to)) \/ Cancel \/ Restore \/ ChangeSport

Next == Roster \/ Building \/ Matches \/ Lifecycle

Spec == Init /\ [][Next]_vars

-----------------------------------------------------------------------------
(* Properties                                                                *)

Match == [a : Name, b : Name, length : Nat, scored : BOOLEAN]

TypeOK ==
  /\ event \in [kind : Kinds, status : Status, before : Status \cup {Null},
               teamCount : MinTeams..6]
  /\ row \in [Person -> [standing : {"none", "invited", "in", "out"},
                         side : {1, 2, Null}, team : Name \cup {Null}]]
  /\ \A i \in DOMAIN team :
       team[i] \in [name : Name, players : SUBSET Player, guests : SUBSET Guest,
                   captains : SUBSET Player, size : Nat]
  /\ \A i \in DOMAIN match : match[i] \in Match
  /\ room \in [Name -> {"none", "open", "archived"}]

\* What the colours are good for: each name taken costs one at most.
ColoursSuffice ==
  \A taken \in SUBSET Name :
    /\ FreeColours(taken) \in Seq(Name \ taken) /\ IsInjective(FreeColours(taken))
    /\ Len(FreeColours(taken)) >= Len(TeamColours) - Cardinality(taken)

TeamsOf(p) == {i \in DOMAIN team : p \in People(team[i])}

\* Nobody plays for two teams, no team is over its size, captains play for
\* their team, and what a roster row says of somebody's team is what the teams
\* say - while people come and go in the middle of a shuffle, rows come back
\* with the team they had, and squads are replaced ("Keep EventPlayer.team in
\* step - it is what player-facing reads use").
SquadsInStep ==
  /\ TypeOK
  /\ \A i \in DOMAIN team : /\ Cardinality(People(team[i])) <= team[i].size
                           /\ team[i].captains \subseteq team[i].players
  /\ \A p \in Person : IF TeamsOf(p) = {} THEN row[p].team = Null
                        ELSE TeamsOf(p) = {i \in DOMAIN team : team[i].name = row[p].team}

\* A fixture is between two teams of the event, a team has a chat room, and its
\* room is closed exactly while the event is over or called off - whatever was
\* generated, shuffled, cancelled and restored in whatever order.
NamesAgree ==
  /\ \A i \in DOMAIN match : {match[i].a, match[i].b} \subseteq TeamNames
  /\ \A n \in TeamNames :
       room[n] = IF event.status \in {"done", "cancelled"} THEN "archived" ELSE "open"

\* Teams, fixtures and chat rooms tell of one set of teams: those who are on the
\* roster, by the names the teams have.
TeamsAgree == SquadsInStep /\ NamesAgree

\* A score once entered is never discarded: an event that can be scored has no
\* way back to where fixtures are rebuilt, not by a move, nor by cancelling and
\* restoring it, nor by a change of sport ("scoring cannot have started, so
\* nothing can be discarded by going back", events.lifecycle.ts).
EnteredStays ==
  \A i \in DOMAIN match : match[i].scored => i \in DOMAIN match' /\ match'[i] = match[i]

\* What a shuffle nobody interfered with has made of the people it read.
WellDealt(people) ==
  /\ \A p \in people : \E i \in DOMAIN team' : p \in People(team'[i])
  /\ IF IsChallenge
     THEN \A i \in 1..2 : People(team'[i]) = SideOf(i)
     ELSE \A i, j \in DOMAIN team' :
            /\ Cardinality(team'[i].players) - Cardinality(team'[j].players) \in -1..1
            /\ Cardinality(team'[i].guests) - Cardinality(team'[j].guests) \in -1..1

\* A shuffle ends with everyone who plays in a team, players and guests spread
\* evenly, and the two clubs of a challenge apart; it is never refused halfway,
\* with the old teams gone, unless the roster moved meanwhile.
SeatsAll ==
  request.op = "assign" /\ request.calm /\ request' = Idle => WellDealt(request.people)
ShuffleSeatsAll == [][SeatsAll]_vars

\* What an event's people and organizers have put together is not lost on the
\* way: neither a score nor anybody's place in the teams.
NothingLost == [][EnteredStays /\ SeatsAll]_vars

=============================================================================
