--------------------------- MODULE TournamentEntry ---------------------------
(***************************************************************************)
(* Who takes part in one tournament, up to its start and while its league  *)
(* is played: registration of teams (tournaments/tournaments.service.ts),  *)
(* invitations of groups (tournaments/tournament-invitations.service.ts)   *)
(* and what the organizer does to both (setStatus, withdrawTeam, draw,     *)
(* startPhase and setFormat of tournaments/tournament-phases.service.ts).  *)
(*                                                                         *)
(* A registration takes its place in Tournament.currentTeams first and     *)
(* creates its row last; accepting an invitation claims it, registers and  *)
(* hands the claim back when that fails.  Each of these writes is a step.  *)
(* The draw reads who takes part, writes its rows and then closes          *)
(* registration.  The organizer asks for one thing at a time.              *)
(* What comes after the league, and a knockout, end here with CANCELLED;   *)
(* the draw stands for the bracket of a tournament without a league, too.  *)
(***************************************************************************)
EXTENDS Integers, Sequences, FiniteSets

CONSTANTS
  Captain,         \* who may captain a team
  Club,            \* groups that may be invited
  Slot,            \* registrations and answers in flight (a bound)
  Places,          \* how many teams the tournament may be for
  MaxInvitations,  \* invitations ever sent (a bound)
  Crossed,         \* a group is invited while its answer to an invitation
                   \* is in flight
  Null

ASSUME EntryAssumption ==
  /\ Places \subseteq Nat /\ MaxInvitations \in Nat /\ Crossed \in BOOLEAN
  /\ IsFiniteSet(Captain) /\ IsFiniteSet(Slot)
  /\ Null \notin Captain \cup Club /\ Null \notin Nat

VARIABLES
  maxTeams,     \* Tournament.maxTeams
  status,       \* Tournament.status
  currentTeams, \* Tournament.currentTeams
  team,         \* TournamentTeam rows, by captain
  invitation,   \* TournamentInvitation rows, in the order of their creation
  drawn,        \* captains of the teams in the league's groups or the bracket
  drawing,      \* what a draw still has to do
  meanwhile,    \* captains whose registration held a place while it was made (history)
  late,         \* those who withdrew after the start (history)
  request       \* per slot, what a registration or an answer still has to do

draw == <<drawn, drawing, meanwhile>>
vars == <<maxTeams, status, currentTeams, team, invitation, draw, late, request>>

PreStart == {"DRAFT", "REGISTRATION_OPEN", "REGISTRATION_CLOSED"}
Invitable == {"DRAFT", "REGISTRATION_OPEN"}

NoTeam == [status |-> "none", club |-> Null]
Idle == [step |-> "idle"]

Approved == {c \in Captain : team[c].status = "APPROVED"}
HasTeam(g) == \E c \in Approved : team[c].club = g

Invitation == DOMAIN invitation
PendingOf(g) ==
  {i \in Invitation : invitation[i].club = g /\ invitation[i].status = "PENDING"}

Init ==
  /\ maxTeams \in Places
  /\ status = "REGISTRATION_OPEN"
  /\ currentTeams = 0
  /\ team = [c \in Captain |-> NoTeam]
  /\ invitation = <<>>
  /\ drawn = {} /\ drawing = Idle /\ meanwhile = {}
  /\ late = {}
  /\ request = [s \in Slot |-> Idle]

------------------------------------------------------------------------------
(* Requests *)

At(s, step) == request[s].step = step
Proceed(s, step) == request' = [request EXCEPT ![s].step = step]
Finish(s) == request' = [request EXCEPT ![s] = Idle]
Active == {s \in Slot : request[s] # Idle}

\* Requests in flight register different captains: nothing in the code keeps two
\* registrations of one captain from passing the check for duplicates.
Begin(s, r) ==
  /\ request[s] = Idle
  /\ \A t \in Active : request[t].captain # r.captain
  /\ request' = [request EXCEPT ![s] = r]

HoldsPlace(s) == request[s].step \in {"check", "create"}
ByInvitation(s) == request[s].invitation # Null

\* An answer whose registration fails has its claim to hand back.
Refuse(s) == IF ByInvitation(s) THEN Proceed(s, "handBack") ELSE Finish(s)

------------------------------------------------------------------------------
(* Registration (registerTeam, joinByCode) *)

\* The club is whatever the request says.
Register(s, c, g) ==
  /\ Begin(s, [step |-> "take", captain |-> c, club |-> g, invitation |-> Null])
  /\ UNCHANGED <<maxTeams, status, currentTeams, team, invitation, draw, late>>

\* A place is taken by one conditional update.
TakePlace(s) ==
  /\ At(s, "take")
  /\ IF status = "REGISTRATION_OPEN" /\ currentTeams < maxTeams
     THEN /\ currentTeams' = currentTeams + 1 /\ Proceed(s, "check")
          /\ meanwhile' = IF drawing = Idle THEN meanwhile
                          ELSE meanwhile \cup {request[s].captain}
     ELSE UNCHANGED <<currentTeams, meanwhile>> /\ Refuse(s)
  /\ UNCHANGED <<maxTeams, status, team, invitation, drawn, drawing, late>>

\* Mutant: the place of a duplicate is not given back.
CheckAndKeep(s) ==
  /\ At(s, "check")
  /\ IF team[request[s].captain] # NoTeam THEN Refuse(s) ELSE Proceed(s, "create")
  /\ UNCHANGED <<maxTeams, status, currentTeams, team, invitation, draw, late>>

\* A captain registers once, and not again after withdrawing.
CheckDuplicate(s) ==
  /\ At(s, "check")
  /\ IF team[request[s].captain] # NoTeam
     THEN currentTeams' = currentTeams - 1 /\ Refuse(s)
     ELSE UNCHANGED currentTeams /\ Proceed(s, "create")
  /\ UNCHANGED <<maxTeams, status, team, invitation, draw, late>>

CreateTeam(s) ==
  /\ At(s, "create")
  /\ team' = [team EXCEPT ![request[s].captain] =
                [status |-> "APPROVED", club |-> request[s].club]]
  /\ IF ByInvitation(s) THEN Proceed(s, "link") ELSE Finish(s)
  /\ UNCHANGED <<maxTeams, status, currentTeams, invitation, draw, late>>

------------------------------------------------------------------------------
(* Answering an invitation (accept, decline, revoke, expireClosed) *)

Answer(i, answer) == invitation' = [invitation EXCEPT ![i].status = answer]

\* The guards are read before the claim, and may have changed by then.
AcceptRead(s, i, c) ==
  /\ invitation[i].status = "PENDING"
  /\ status = "REGISTRATION_OPEN"
  /\ currentTeams < maxTeams
  /\ ~HasTeam(invitation[i].club)
  /\ Begin(s, [step |-> "claim", captain |-> c, club |-> invitation[i].club,
               invitation |-> i])
  /\ UNCHANGED <<maxTeams, status, currentTeams, team, invitation, draw, late>>

\* Mutant: whoever read PENDING accepts.
ClaimUnseen(s) ==
  /\ At(s, "claim")
  /\ Answer(request[s].invitation, "ACCEPTED") /\ Proceed(s, "take")
  /\ UNCHANGED <<maxTeams, status, currentTeams, team, draw, late>>

\* The claim comes first, so of two who accept only one registers.
Claim(s) ==
  /\ At(s, "claim")
  /\ IF invitation[request[s].invitation].status = "PENDING"
     THEN Answer(request[s].invitation, "ACCEPTED") /\ Proceed(s, "take")
     ELSE UNCHANGED invitation /\ Finish(s)
  /\ UNCHANGED <<maxTeams, status, currentTeams, team, draw, late>>

\* At most one invitation of a group is PENDING: with another, the index refuses
\* the update and the claim stays.
HandBack(s) ==
  /\ At(s, "handBack")
  /\ LET i == request[s].invitation IN
       IF invitation[i].status = "ACCEPTED" /\ PendingOf(invitation[i].club) = {}
       THEN Answer(i, "PENDING")
       ELSE UNCHANGED invitation
  /\ Finish(s)
  /\ UNCHANGED <<maxTeams, status, currentTeams, team, draw, late>>

LinkTeam(s) ==
  /\ At(s, "link")
  /\ invitation' = [invitation EXCEPT ![request[s].invitation].team = request[s].captain]
  /\ Finish(s)
  /\ UNCHANGED <<maxTeams, status, currentTeams, team, draw, late>>

Revoke(i) ==
  /\ invitation[i].status = "PENDING"
  /\ Answer(i, "REVOKED")
  /\ UNCHANGED <<maxTeams, status, currentTeams, team, draw, late, request>>

Decline(i) ==
  /\ invitation[i].status = "PENDING"
  /\ Answer(i, "DECLINED")
  /\ UNCHANGED <<maxTeams, status, currentTeams, team, draw, late, request>>

\* Once the tournament has started, whoever accepts or lists the group's
\* invitations marks them.
Expire(i) ==
  /\ invitation[i].status = "PENDING"
  /\ status \notin PreStart
  /\ Answer(i, "EXPIRED")
  /\ UNCHANGED <<maxTeams, status, currentTeams, team, draw, late, request>>

------------------------------------------------------------------------------
(* The organizer *)

\* Duplicates among pending ones are also refused by the index.
Invite(g) ==
  /\ Len(invitation) < MaxInvitations
  /\ Crossed \/ ~\E s \in Active : ByInvitation(s) /\ request[s].club = g
  /\ status \in Invitable
  /\ currentTeams < maxTeams
  /\ ~HasTeam(g) /\ PendingOf(g) = {}
  /\ invitation' = Append(invitation, [club |-> g, status |-> "PENDING", team |-> Null])
  /\ UNCHANGED <<maxTeams, status, currentTeams, team, draw, late, request>>

\* clearDrawAndBracket
VoidDraw == drawn' = {} /\ meanwhile' = {} /\ UNCHANGED drawing

\* Mutant: reopening keeps the draw.
SetStatusOnly(next) ==
  /\ \/ next = "REGISTRATION_OPEN" /\ status \in {"DRAFT", "REGISTRATION_CLOSED"}
     \/ next \in {"DRAFT", "REGISTRATION_CLOSED"} /\ status = "REGISTRATION_OPEN"
     \/ next = "CANCELLED" /\ status \in PreStart \cup {"LEAGUE_IN_PROGRESS"}
  /\ status' = next
  /\ UNCHANGED <<maxTeams, currentTeams, team, invitation, draw, late, request>>

\* New teams may join a registration that opens again, so the draw goes.
SetStatus(next) ==
  /\ \/ next = "REGISTRATION_OPEN" /\ status \in {"DRAFT", "REGISTRATION_CLOSED"}
     \/ next \in {"DRAFT", "REGISTRATION_CLOSED"} /\ status = "REGISTRATION_OPEN"
     \/ next = "CANCELLED" /\ status \in PreStart \cup {"LEAGUE_IN_PROGRESS"}
  /\ status' = next
  /\ IF status = "REGISTRATION_CLOSED" /\ next = "REGISTRATION_OPEN"
     THEN VoidDraw ELSE UNCHANGED draw
  /\ UNCHANGED <<maxTeams, currentTeams, team, invitation, late, request>>

\* Before the start the place is free again and the draw void.  Later the team's
\* matches are forfeited, and its place stays taken.
Withdraw(c) ==
  /\ status \notin {"COMPLETED", "CANCELLED"}
  /\ c \in Approved
  /\ team' = [team EXCEPT ![c].status = "WITHDRAWN"]
  /\ IF status \in PreStart
     THEN currentTeams' = currentTeams - 1 /\ VoidDraw /\ UNCHANGED late
     ELSE late' = late \cup {c} /\ UNCHANGED <<currentTeams, draw>>
  /\ UNCHANGED <<maxTeams, status, invitation, request>>

\* The approved teams are read, but registration is open until their draw is written.
DrawRead ==
  /\ status \in PreStart
  /\ Cardinality(Approved) >= 2
  /\ drawing' = [step |-> "rows", teams |-> Approved]
  /\ meanwhile' = {request[s].captain : s \in {x \in Slot : HoldsPlace(x)}}
  /\ UNCHANGED <<maxTeams, status, currentTeams, team, invitation, drawn, late, request>>

\* The rows of an earlier draw go.
DrawRows ==
  /\ drawing.step = "rows"
  /\ drawn' = drawing.teams
  /\ drawing' = [step |-> "close"]
  /\ UNCHANGED <<maxTeams, status, currentTeams, team, invitation, meanwhile, late, request>>

\* From the status that was read, which only the organizer moves.
DrawClose ==
  /\ drawing.step = "close"
  /\ status' = "REGISTRATION_CLOSED"
  /\ drawing' = Idle
  /\ UNCHANGED <<maxTeams, currentTeams, team, invitation, drawn, meanwhile, late, request>>

StartLeague ==
  /\ status \in PreStart
  /\ drawn # {}
  /\ status' = "LEAGUE_IN_PROGRESS"
  /\ UNCHANGED <<maxTeams, currentTeams, team, invitation, draw, late, request>>

\* A new format voids the draw; a league without results goes back to before it.
SetFormat ==
  /\ status \in PreStart \cup {"LEAGUE_IN_PROGRESS"}
  /\ VoidDraw
  /\ status' = IF status \in PreStart THEN status ELSE "REGISTRATION_CLOSED"
  /\ UNCHANGED <<maxTeams, currentTeams, team, invitation, late, request>>

------------------------------------------------------------------------------

Step(s) ==
  \/ TakePlace(s) \/ CheckDuplicate(s) \/ CreateTeam(s)
  \/ Claim(s) \/ HandBack(s) \/ LinkTeam(s)

Entrants ==
  \E s \in Slot :
    \/ Step(s)
    \/ \E c \in Captain, g \in Club \cup {Null} : Register(s, c, g)
    \/ \E i \in Invitation, c \in Captain : AcceptRead(s, i, c)

\* One request at a time.
Organizer ==
  \/ /\ drawing = Idle
     /\ \/ \E g \in Club : Invite(g)
        \/ \E next \in PreStart \cup {"CANCELLED"} : SetStatus(next)
        \/ \E c \in Captain : Withdraw(c)
        \/ DrawRead \/ StartLeague \/ SetFormat
  \/ DrawRows \/ DrawClose

Next ==
  \/ Entrants
  \/ \E i \in Invitation : Decline(i) \/ Revoke(i) \/ Expire(i)
  \/ Organizer

Spec == Init /\ [][Next]_vars

------------------------------------------------------------------------------
(* Properties *)

InvitationStatus == {"PENDING", "ACCEPTED", "DECLINED", "REVOKED", "EXPIRED"}

\* Every field keeps to its schema, and the counter stays between nothing and
\* maxTeams through rollbacks and withdrawals.
TypeOK ==
  /\ maxTeams \in Places
  /\ status \in PreStart \cup {"LEAGUE_IN_PROGRESS", "CANCELLED"}
  /\ currentTeams \in 0..maxTeams
  /\ team \in [Captain -> [status : {"none", "APPROVED", "WITHDRAWN"},
                           club : Club \cup {Null}]]
  /\ invitation \in Seq([club : Club, status : InvitationStatus,
                         team : Captain \cup {Null}])
  /\ drawn \subseteq Captain /\ meanwhile \subseteq Captain /\ late \subseteq Captain
  /\ drawing \in [step : {"idle", "close"}] \cup [step : {"rows"}, teams : SUBSET Captain]

\* accept: "The invitation is claimed first, so two admins accepting at once
\* register one team; if registration then fails the claim is handed back."
\* An accepted invitation that nobody is working on has its team, and a group
\* has one team by invitation.
InvitedBy(i) == {c \in Captain : invitation[i].team = c}
Worked(i) == \E s \in Active : request[s].invitation = i /\ ~At(s, "claim")
AcceptedIsIn ==
  /\ \A i \in Invitation :
       (invitation[i].status = "ACCEPTED" /\ ~Worked(i)) <=> InvitedBy(i) # {}
  /\ \A i \in Invitation : \A c \in InvitedBy(i) :
       team[c].status # "none" /\ team[c].club = invitation[i].club
  /\ \A g \in Club :
       Cardinality({c \in Approved : \E i \in Invitation :
                      invitation[i].club = g /\ c \in InvitedBy(i)}) <= 1

\* registerTeam: places are taken before the rows are created and "rolled back".
\* The counter is the number of teams, of registrations that hold a place, and
\* of teams that left after the start, whose places nobody gives back; the teams
\* that came by an invitation are those of the accepted ones.
SeatsCounted ==
  /\ TypeOK
  /\ currentTeams =
       Cardinality(Approved) + Cardinality(late) + Cardinality({s \in Slot : HoldsPlace(s)})
  /\ AcceptedIsIn

\* setStatus: an invitation "was already answered, revoked or expired": no
\* answer is changed by another that was on its way, only a claim handed back.
AnsweredOnce ==
  [][\A i \in Invitation :
       invitation'[i].status # invitation[i].status =>
         \/ invitation[i].status = "PENDING"
         \/ invitation[i].status = "ACCEPTED" /\ invitation'[i].status = "PENDING"
              /\ \E s \in Slot : At(s, "handBack") /\ request[s].invitation = i]_vars

\* setStatus: "New teams may join, so the draw and bracket no longer hold."  What
\* is drawn are the teams that take part, and those that have left since the
\* start.  Missing are only teams whose registration overlapped the draw itself,
\* which reads them before it closes registration (tournament-phases.service.ts:359
\* and 441); nobody else holds or is about to get a place.
DrawCurrent ==
  drawn # {} /\ drawing = Idle =>
    /\ Approved \subseteq drawn \cup meanwhile
    /\ drawn \subseteq Approved \cup late
    /\ \A s \in Slot : HoldsPlace(s) => request[s].captain \in meanwhile

==============================================================================
