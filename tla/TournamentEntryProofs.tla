------------------------ MODULE TournamentEntryProofs ------------------------
(***************************************************************************)
(* Theorems about TournamentEntry, for any number of captains, groups,     *)
(* places, invitations and requests in flight: the places of a tournament  *)
(* are counted right, an accepted invitation has its team and is answered  *)
(* once, and what is drawn are the teams that take part.                   *)
(***************************************************************************)
EXTENDS TournamentEntry, SumLemmas, SequenceTheorems

-----------------------------------------------------------------------------
(* Requests *)

\* Where a request in flight may be, and what it carries.
Steps == {"claim", "take", "check", "create", "link", "handBack"}

Request == [step : Steps, captain : Captain, club : Club \cup {Null},
            invitation : Nat \cup {Null}]

\* Requests are well formed, and those in flight register different captains.
RequestsOK ==
  /\ request \in [Slot -> {Idle} \cup Request]
  /\ \A s, t \in Active : request[s].captain = request[t].captain => s = t

\* An answer is about an invitation of its group.
Invites(r) ==
  /\ r.step \in {"claim", "link", "handBack"} => r.invitation # Null
  /\ r.invitation # Null => /\ r.invitation \in Invitation
                            /\ invitation[r.invitation].club = r.club

\* A request of slot s goes on, and remains who it is.
Advances(s, step) ==
  /\ request[s] \in Request /\ step \in Steps \ {"claim"}
  /\ step \in {"link", "handBack"} => ByInvitation(s)
  /\ request' = [request EXCEPT ![s] = [request[s] EXCEPT !.step = step]]

\* What a request keeps when it goes on.
LEMMA Advanced ==
  ASSUME NEW r \in Request, NEW step \in Steps
  PROVE  LET q == [r EXCEPT !.step = step] IN
           /\ q \in Request /\ q.step = step
           /\ q.captain = r.captain /\ q.club = r.club /\ q.invitation = r.invitation
BY DEF Request

\* A slot is idle, or at a step of a request.
LEMMA RequestNotIdle ==
  ASSUME NEW r \in {Idle} \cup Request
  PROVE  /\ r # Idle <=> r \in Request
         /\ r # Idle <=> r.step \in Steps
         /\ r = Idle <=> r.step = "idle"
BY DEF Request, Idle, Steps

\* Every step leaves the requests alone, begins one, ends one or takes one on.
Moves ==
  \/ UNCHANGED request
  \/ \E s \in Slot, r \in Request : Invites(r) /\ Begin(s, r)
  \/ \E s \in Slot : request[s] \in Request /\ Finish(s)
  \/ \E s \in Slot, step \in Steps : Advances(s, step)

\* Every answer in flight is about an invitation of its group.
InvitedOK == \A s \in Active : Invites(request[s])

\* Whose step is known is in flight.
LEMMA InFlight ==
  ASSUME RequestsOK, NEW s \in Slot, NEW step \in Steps, At(s, step)
  PROVE  request[s] \in Request
BY RequestNotIdle DEF RequestsOK, At

\* How the handlers write that a request goes on.
LEMMA ProceedAdvances ==
  ASSUME RequestsOK, NEW s \in Slot, request[s] \in Request, NEW step \in Steps \ {"claim"},
         step \in {"link", "handBack"} => ByInvitation(s), Proceed(s, step)
  PROVE  Advances(s, step)
BY DEF Proceed, Advances, RequestsOK

\* A refused request hands its claim back, or has none and ends.
LEMMA RefuseMoves ==
  ASSUME RequestsOK, NEW s \in Slot, request[s] \in Request, Refuse(s)
  PROVE  \/ ByInvitation(s) /\ Advances(s, "handBack")
         \/ ~ByInvitation(s) /\ Finish(s)
BY ProceedAdvances DEF Refuse, Steps

\* Captains stay different, for a request begins only with a new one.
LEMMA RequestsStay ==
  ASSUME RequestsOK, Moves
  PROVE  RequestsOK'
<1>1. CASE UNCHANGED request BY <1>1 DEF RequestsOK, Active
<1>2. ASSUME NEW s \in Slot, NEW r \in Request, Begin(s, r) PROVE RequestsOK'
  <2>1. /\ request[s] = Idle
        /\ \A t \in Active : request[t].captain # r.captain
        /\ request' = [request EXCEPT ![s] = r]
    BY <1>2 DEF Begin
  <2>2. request' \in [Slot -> {Idle} \cup Request] BY <2>1 DEF RequestsOK
  <2>3. \A t \in Slot : t # s => request'[t] = request[t] BY <2>1 DEF RequestsOK
  <2>4. request'[s] = r BY <2>1 DEF RequestsOK
  <2> QED BY <2>1, <2>2, <2>3, <2>4 DEF RequestsOK, Active
<1>3. ASSUME NEW s \in Slot, Finish(s) PROVE RequestsOK'
  BY <1>3 DEF RequestsOK, Finish, Active
<1>4. ASSUME NEW s \in Slot, NEW step \in Steps, Advances(s, step) PROVE RequestsOK'
  <2>1. PICK r \in Request : r = request[s] BY <1>4 DEF Advances
  <2>2. PICK q \in Request : q = [r EXCEPT !.step = step] /\ q.captain = r.captain
    BY Advanced
  <2>3. request' = [request EXCEPT ![s] = q] BY <1>4, <2>1, <2>2 DEF Advances
  <2>4. r # Idle /\ q # Idle BY RequestNotIdle
  <2> QED BY <2>1, <2>2, <2>3, <2>4 DEF RequestsOK, Active
<1> QED BY <1>1, <1>2, <1>3, <1>4 DEF Moves

\* Rows of invitations.
InvitationRow == [club : Club, status : InvitationStatus, team : Captain \cup {Null}]

\* What an answer leaves of a row.
LEMMA RowAnswered ==
  ASSUME NEW row \in InvitationRow, NEW answer \in InvitationStatus
  PROVE  LET q == [row EXCEPT !.status = answer] IN
           /\ q \in InvitationRow
           /\ q.status = answer /\ q.club = row.club /\ q.team = row.team
BY DEF InvitationRow

\* What a link leaves of a row.
LEMMA RowLinked ==
  ASSUME NEW row \in InvitationRow, NEW c \in Captain
  PROVE  LET q == [row EXCEPT !.team = c] IN
           /\ q \in InvitationRow
           /\ q.status = row.status /\ q.club = row.club /\ q.team = c
BY DEF InvitationRow

\* Invitations are numbered from one, and each is a row.
LEMMA InvitationRows ==
  ASSUME TypeOK
  PROVE  /\ Invitation = 1..Len(invitation) /\ Len(invitation) \in Nat
         /\ \A i \in Invitation : i \in Nat /\ invitation[i] \in InvitationRow
<1>1. invitation \in Seq(InvitationRow) BY DEF TypeOK, InvitationRow
<1>2. /\ Invitation = 1..Len(invitation) /\ Len(invitation) \in Nat
      /\ invitation \in [1..Len(invitation) -> InvitationRow]
  BY <1>1, LenProperties DEF Invitation
<1> QED BY <1>2

\* What a step does to the requests, whatever else it does.
LEMMA NextMoves ==
  ASSUME RequestsOK, TypeOK, Next
  PROVE  Moves
<1>1. ASSUME NEW s \in Slot, Step(s) PROVE Moves
  <2>1. request[s] \in Request
    BY <1>1, InFlight DEF Step, TakePlace, CheckDuplicate, CreateTeam, Claim, HandBack,
       LinkTeam, Steps
  <2>2. ASSUME NEW step \in Steps \ {"claim"}, Proceed(s, step),
               step \in {"link", "handBack"} => ByInvitation(s)
        PROVE  Moves
    BY <2>1, <2>2, ProceedAdvances DEF Moves
  <2>3. ASSUME Finish(s) PROVE Moves BY <2>1, <2>3 DEF Moves
  <2>4. "take" \in Steps /\ "check" \in Steps /\ "create" \in Steps /\ "link" \in Steps
        /\ "handBack" \in Steps
    BY DEF Steps
  <2>5. ASSUME Refuse(s) PROVE Moves BY <2>2, <2>3, <2>4, <2>5 DEF Refuse
  <2> QED BY <1>1, <2>2, <2>3, <2>4, <2>5 DEF Step, TakePlace, CheckDuplicate, CreateTeam,
             Claim, HandBack, LinkTeam
<1>2. ASSUME NEW s \in Slot, NEW c \in Captain, NEW g \in Club \cup {Null},
             Register(s, c, g)
      PROVE  Moves
  <2> DEFINE r == [step |-> "take", captain |-> c, club |-> g, invitation |-> Null]
  <2>1. r \in Request BY DEF Request, Steps
  <2>2. Begin(s, r) BY <1>2 DEF Register
  <2>3. Invites(r) BY DEF Invites
  <2> QED BY <2>1, <2>2, <2>3 DEF Moves
<1>3. ASSUME NEW s \in Slot, NEW i \in Invitation, NEW c \in Captain, AcceptRead(s, i, c)
      PROVE  Moves
  <2> DEFINE r == [step |-> "claim", captain |-> c, club |-> invitation[i].club,
                   invitation |-> i]
  <2>1. i \in Nat /\ invitation[i].club \in Club BY InvitationRows DEF InvitationRow
  <2>2. r \in Request BY <2>1 DEF Request, Steps
  <2>3. Begin(s, r) BY <1>3 DEF AcceptRead
  <2>4. Invites(r) BY <2>1, EntryAssumption DEF Invites
  <2> QED BY <2>2, <2>3, <2>4 DEF Moves
<1>4. ASSUME NEW i \in Invitation, Decline(i) \/ Revoke(i) \/ Expire(i) PROVE Moves
  BY <1>4 DEF Decline, Revoke, Expire, Moves
<1>5. ASSUME Organizer PROVE Moves
  BY <1>5 DEF Organizer, Invite, SetStatus, Withdraw, DrawRead, DrawRows, DrawClose,
     StartLeague, SetFormat, Moves
<1> QED BY <1>1, <1>2, <1>3, <1>4, <1>5 DEF Next, Entrants

-----------------------------------------------------------------------------
(* Types of the invitations *)

\* An invitation is answered, and stays the invitation of its group.
LEMMA AnswerChanges ==
  ASSUME TypeOK, NEW i \in Invitation, NEW answer \in InvitationStatus, Answer(i, answer)
  PROVE  /\ invitation' \in Seq(InvitationRow)
         /\ Invitation' = Invitation
         /\ \A j \in Invitation : j # i => invitation'[j] = invitation[j]
         /\ invitation'[i].status = answer
         /\ invitation'[i].club = invitation[i].club
         /\ invitation'[i].team = invitation[i].team
<1>1. invitation \in Seq(InvitationRow) BY DEF TypeOK, InvitationRow
<1>2. i \in 1..Len(invitation) BY InvitationRows
<1>3. PICK row \in InvitationRow : row = invitation[i] BY InvitationRows
<1>4. PICK q \in InvitationRow : /\ q = [row EXCEPT !.status = answer]
                               /\ q.status = answer /\ q.club = row.club /\ q.team = row.team
  BY RowAnswered
<1>5. invitation' = [invitation EXCEPT ![i] = q] BY <1>3, <1>4 DEF Answer
<1>6. /\ invitation' \in Seq(InvitationRow)
      /\ Len(invitation') = Len(invitation)
      /\ \A j \in 1..Len(invitation) : invitation'[j] = IF j = i THEN q ELSE invitation[j]
  BY <1>1, <1>2, <1>5, ExceptSeq
<1>7. Invitation = 1..Len(invitation) BY InvitationRows
<1>8. Invitation' = 1..Len(invitation') BY <1>6, LenProperties DEF Invitation
<1> QED BY <1>2, <1>3, <1>4, <1>6, <1>7, <1>8

\* A team is linked to an accepted invitation.
LEMMA LinkChanges ==
  ASSUME TypeOK, NEW i \in Invitation, NEW c \in Captain,
         invitation' = [invitation EXCEPT ![i].team = c]
  PROVE  /\ invitation' \in Seq(InvitationRow)
         /\ Invitation' = Invitation
         /\ \A j \in Invitation : j # i => invitation'[j] = invitation[j]
         /\ invitation'[i].status = invitation[i].status
         /\ invitation'[i].club = invitation[i].club
         /\ invitation'[i].team = c
<1>1. invitation \in Seq(InvitationRow) BY DEF TypeOK, InvitationRow
<1>2. i \in 1..Len(invitation) BY InvitationRows
<1>3. PICK row \in InvitationRow : row = invitation[i] BY InvitationRows
<1>4. PICK q \in InvitationRow : /\ q = [row EXCEPT !.team = c]
                               /\ q.status = row.status /\ q.club = row.club /\ q.team = c
  BY RowLinked
<1>5. invitation' = [invitation EXCEPT ![i] = q] BY <1>3, <1>4
<1>6. /\ invitation' \in Seq(InvitationRow)
      /\ Len(invitation') = Len(invitation)
      /\ \A j \in 1..Len(invitation) : invitation'[j] = IF j = i THEN q ELSE invitation[j]
  BY <1>1, <1>2, <1>5, ExceptSeq
<1>7. Invitation = 1..Len(invitation) BY InvitationRows
<1>8. Invitation' = 1..Len(invitation') BY <1>6, LenProperties DEF Invitation
<1> QED BY <1>2, <1>3, <1>4, <1>6, <1>7, <1>8

\* A group is invited.
LEMMA InviteChanges ==
  ASSUME TypeOK, NEW g \in Club,
         invitation' = Append(invitation, [club |-> g, status |-> "PENDING", team |-> Null])
  PROVE  /\ invitation' \in Seq(InvitationRow)
         /\ Invitation' = Invitation \cup {Len(invitation) + 1}
         /\ Len(invitation) + 1 \notin Invitation
         /\ \A j \in Invitation : invitation'[j] = invitation[j]
         /\ invitation'[Len(invitation) + 1] = [club |-> g, status |-> "PENDING", team |-> Null]
<1> DEFINE row == [club |-> g, status |-> "PENDING", team |-> Null]
<1>1. row \in InvitationRow BY DEF InvitationRow, InvitationStatus
<1> HIDE DEF row
<1>2. invitation \in Seq(InvitationRow) BY DEF TypeOK, InvitationRow
<1>3. invitation' = Append(invitation, row) BY DEF row
<1>4. /\ invitation' \in Seq(InvitationRow)
      /\ Len(invitation') = Len(invitation) + 1
      /\ \A j \in 1..Len(invitation) : invitation'[j] = invitation[j]
      /\ invitation'[Len(invitation) + 1] = row
  BY <1>1, <1>2, <1>3, AppendProperties
<1>5. Invitation = 1..Len(invitation) /\ Len(invitation) \in Nat BY InvitationRows
<1>6. Invitation' = 1..Len(invitation') BY <1>4, LenProperties DEF Invitation
<1> QED BY <1>4, <1>5, <1>6 DEF row

-----------------------------------------------------------------------------
(* The invitations of requests *)

\* Invitations are sent, answered and linked, and remain of their group.
LEMMA InvitationsKept ==
  ASSUME TypeOK, RequestsOK, InvitedOK, Next
  PROVE  /\ invitation' \in Seq(InvitationRow)
         /\ Invitation \subseteq Invitation'
         /\ \A i \in Invitation : invitation'[i].club = invitation[i].club
<1> DEFINE Goal == /\ invitation' \in Seq(InvitationRow)
                   /\ Invitation \subseteq Invitation'
                   /\ \A i \in Invitation : invitation'[i].club = invitation[i].club
<1>1. ASSUME UNCHANGED invitation PROVE Goal
  BY <1>1 DEF TypeOK, InvitationRow, Invitation
<1>2. ASSUME NEW i \in Invitation, NEW answer \in InvitationStatus, Answer(i, answer)
      PROVE  Goal
  BY <1>2, AnswerChanges
<1>3. ASSUME NEW g \in Club, Invite(g) PROVE Goal BY <1>3, InviteChanges DEF Invite
<1>4. ASSUME NEW s \in Slot, LinkTeam(s) PROVE Goal
  <2>1. request[s] \in Request /\ request[s] # Idle
    BY <1>4, InFlight, RequestNotIdle DEF LinkTeam, Steps
  <2>2. request[s].captain \in Captain BY <2>1 DEF Request
  <2>3. request[s].invitation \in Invitation BY <1>4, <2>1 DEF InvitedOK, Invites, LinkTeam, At, Active
  <2> QED BY <1>4, <2>2, <2>3, LinkChanges DEF LinkTeam
<1>5. ASSUME NEW s \in Slot, Claim(s) \/ HandBack(s) PROVE Goal
  <2>1. request[s] \in Request /\ request[s] # Idle
    BY <1>5, InFlight, RequestNotIdle DEF Claim, HandBack, Steps
  <2>2. request[s].invitation \in Invitation
    BY <1>5, <2>1 DEF InvitedOK, Invites, Claim, HandBack, At, Active
  <2>3. "ACCEPTED" \in InvitationStatus /\ "PENDING" \in InvitationStatus
    BY DEF InvitationStatus
  <2> HIDE DEF Goal
  <2> QED BY <1>1, <1>2, <1>5, <2>2, <2>3 DEF Claim, HandBack
<1>6. ASSUME NEW s \in Slot, TakePlace(s) \/ CheckDuplicate(s) \/ CreateTeam(s) PROVE Goal
  BY <1>1, <1>6 DEF TakePlace, CheckDuplicate, CreateTeam
<1>7. ASSUME NEW i \in Invitation, Decline(i) \/ Revoke(i) \/ Expire(i) PROVE Goal
  BY <1>2, <1>7 DEF Decline, Revoke, Expire, InvitationStatus
<1>8. ASSUME NEW s \in Slot, NEW c \in Captain, NEW g \in Club \cup {Null},
             Register(s, c, g)
      PROVE  Goal
  BY <1>1, <1>8 DEF Register
<1>9. ASSUME NEW s \in Slot, NEW i \in Invitation, NEW c \in Captain, AcceptRead(s, i, c)
      PROVE  Goal
  BY <1>1, <1>9 DEF AcceptRead
<1>10. ASSUME Organizer PROVE Goal
  BY <1>1, <1>3, <1>10 DEF Organizer, SetStatus, Withdraw, DrawRead, DrawRows,
     DrawClose, StartLeague, SetFormat
<1> HIDE DEF Goal
<1>11. Goal BY <1>4, <1>5, <1>6, <1>7, <1>8, <1>9, <1>10 DEF Next, Entrants, Step
<1> QED BY <1>11 DEF Goal

\* An answer keeps its invitation, which keeps its group.
LEMMA InvitedStays ==
  ASSUME TypeOK, RequestsOK, InvitedOK, Next
  PROVE  InvitedOK'
<1>1. /\ Invitation \subseteq Invitation'
      /\ \A i \in Invitation : invitation'[i].club = invitation[i].club
  BY InvitationsKept
<1>2. ASSUME NEW r, Invites(r) PROVE Invites(r)'
  BY <1>1, <1>2 DEF Invites
<1>3. SUFFICES ASSUME NEW t \in Slot, NEW r, request'[t] = r, r # Idle PROVE Invites(r)'
  BY DEF InvitedOK, Active, Invites
<1>4. SUFFICES Invites(r) BY <1>2
<1>5. \A s \in Slot : request[s] # Idle => Invites(request[s]) BY DEF InvitedOK, Active
<1>6. CASE request'[t] = request[t] BY <1>3, <1>5, <1>6
<1>7. ASSUME NEW s \in Slot, NEW q \in Request, Invites(q), Begin(s, q) PROVE Invites(r)
  BY <1>3, <1>6, <1>7 DEF Begin, RequestsOK
<1>8. ASSUME NEW s \in Slot, Finish(s) PROVE Invites(r)
  BY <1>3, <1>6, <1>8 DEF Finish, RequestsOK
<1>9. ASSUME NEW s \in Slot, NEW step \in Steps, Advances(s, step) PROVE Invites(r)
  <2>1. PICK p \in Request : p = request[s] BY <1>9 DEF Advances
  <2>2. PICK q \in Request : /\ q = [p EXCEPT !.step = step]
                             /\ q.step = step /\ q.club = p.club /\ q.invitation = p.invitation
    BY Advanced
  <2>3. request' = [request EXCEPT ![s] = q] BY <1>9, <2>1, <2>2 DEF Advances
  <2>4. Invites(p) BY <1>5, <2>1, RequestNotIdle
  <2>5. Invites(q) BY <1>9, <2>1, <2>2, <2>4 DEF Advances, Invites, ByInvitation
  <2> QED BY <1>3, <1>6, <2>3, <2>5 DEF RequestsOK
<1>10. CASE UNCHANGED request BY <1>6, <1>10
<1> QED BY <1>7, <1>8, <1>9, <1>10, NextMoves DEF Moves

-----------------------------------------------------------------------------
(* Places *)

\* A row that is about to be created is not there; a row that is not there is
\* empty; who left after the start is marked so.
RowsOK ==
  /\ \A s \in Slot : At(s, "create") => team[request[s].captain] = NoTeam
  /\ \A c \in Captain : team[c].status = "none" => team[c] = NoTeam
  /\ \A c \in late : team[c].status = "WITHDRAWN"

\* The requests that hold a place without a row.
Held == {s \in Slot : HoldsPlace(s)}

\* The inductive invariant of the counter.
CountInv ==
  /\ TypeOK /\ RequestsOK /\ InvitedOK /\ RowsOK
  /\ currentTeams = Cardinality(Approved) + Cardinality(late) + Cardinality(Held)

\* One request changes: it comes to hold a place, or holds one no longer.
LEMMA HeldMoves ==
  ASSUME RequestsOK, NEW s \in Slot, NEW q \in {Idle} \cup Request,
         request' = [request EXCEPT ![s] = q]
  PROVE  /\ Cardinality(Held) \in Nat /\ Cardinality(Held') \in Nat
         /\ Cardinality(Held') = Cardinality(Held) - One(HoldsPlace(s))
                                 + One(q.step \in {"check", "create"})
<1>1. IsFiniteSet(Slot) BY EntryAssumption
<1>2. IsFiniteSet(Held) /\ IsFiniteSet(Held')
  <2>1. Held \subseteq Slot /\ Held' \subseteq Slot BY DEF Held
  <2> QED BY <1>1, <2>1, FS_Subset
<1>3. request'[s] = q /\ \A t \in Slot : t # s => request'[t] = request[t]
  BY DEF RequestsOK
<1>4. Held \ {s} = Held' \ {s} BY <1>3 DEF Held, HoldsPlace
<1>5. s \in Held <=> HoldsPlace(s) BY DEF Held
<1>6. s \in Held' <=> q.step \in {"check", "create"} BY <1>3 DEF Held, HoldsPlace
<1>7. /\ Cardinality(Held) \in Nat /\ Cardinality(Held') \in Nat
      /\ Cardinality(Held') = Cardinality(Held) - One(s \in Held) + One(s \in Held')
  BY <1>2, <1>4, SetMove
<1> QED BY <1>5, <1>6, <1>7 DEF One

\* A request that is refused or ends gives up its place.
LEMMA HeldReleased ==
  ASSUME RequestsOK, NEW s \in Slot, request[s] \in Request, Refuse(s) \/ Finish(s)
  PROVE  /\ Cardinality(Held) \in Nat /\ Cardinality(Held') \in Nat
         /\ Cardinality(Held') = Cardinality(Held) - One(HoldsPlace(s))
<1>1. PICK q \in {Idle} \cup Request :
        request' = [request EXCEPT ![s] = q] /\ q.step \notin {"check", "create"}
  <2>1. CASE Finish(s)
    <3>1. request' = [request EXCEPT ![s] = Idle] /\ Idle.step \notin {"check", "create"}
      BY <2>1 DEF Finish, Idle
    <3> QED BY <3>1
  <2>2. CASE Advances(s, "handBack")
    <3>1. PICK r \in Request : r = request[s] OBVIOUS
    <3>2. PICK n \in Request : n = [r EXCEPT !.step = "handBack"] /\ n.step = "handBack"
      BY Advanced DEF Steps
    <3>3. request' = [request EXCEPT ![s] = n] BY <2>2, <3>1, <3>2 DEF Advances
    <3> QED BY <3>2, <3>3
  <2> QED BY <2>1, <2>2, RefuseMoves
<1>2. One(q.step \in {"check", "create"}) = 0 BY <1>1 DEF One
<1>3. One(HoldsPlace(s)) \in Nat BY DEF One
<1>4. /\ Cardinality(Held) \in Nat /\ Cardinality(Held') \in Nat
      /\ Cardinality(Held') = Cardinality(Held) - One(HoldsPlace(s))
                              + One(q.step \in {"check", "create"})
  BY <1>1, HeldMoves
<1> HIDE DEF One
<1> QED BY <1>2, <1>3, <1>4

\* A request goes on to a step with a place, or without.
LEMMA HeldAdvances ==
  ASSUME RequestsOK, NEW s \in Slot, NEW step \in Steps, Advances(s, step)
  PROVE  /\ Cardinality(Held) \in Nat /\ Cardinality(Held') \in Nat
         /\ Cardinality(Held') = Cardinality(Held) - One(HoldsPlace(s))
                                 + One(step \in {"check", "create"})
<1>1. PICK r \in Request : r = request[s] BY DEF Advances
<1>2. PICK q \in Request : q = [r EXCEPT !.step = step] /\ q.step = step BY Advanced
<1>3. request' = [request EXCEPT ![s] = q] BY <1>1, <1>2 DEF Advances
<1> QED BY <1>2, <1>3, HeldMoves

\* A request that has read begins without a place.
LEMMA HeldBegins ==
  ASSUME RequestsOK, NEW s \in Slot, NEW r \in Request, Begin(s, r),
         r.step \notin {"check", "create"}
  PROVE  Cardinality(Held') = Cardinality(Held)
<1>1. ~HoldsPlace(s) BY DEF Begin, HoldsPlace, Idle
<1>2. request' = [request EXCEPT ![s] = r] BY DEF Begin
<1>3. One(HoldsPlace(s)) = 0 /\ One(r.step \in {"check", "create"}) = 0 BY <1>1 DEF One
<1>4. /\ Cardinality(Held) \in Nat /\ Cardinality(Held') \in Nat
      /\ Cardinality(Held') = Cardinality(Held) - One(HoldsPlace(s))
                              + One(r.step \in {"check", "create"})
  BY <1>2, HeldMoves
<1> QED BY <1>3, <1>4

\* One row changes: its team takes part, or does no longer.
LEMMA ApprovedMoves ==
  ASSUME team \in [Captain -> [status : {"none", "APPROVED", "WITHDRAWN"}, club : Club \cup {Null}]],
         NEW c \in Captain, NEW row, team' = [team EXCEPT ![c] = row]
  PROVE  /\ Cardinality(Approved) \in Nat /\ Cardinality(Approved') \in Nat
         /\ Cardinality(Approved') = Cardinality(Approved) - One(team[c].status = "APPROVED")
                                     + One(row.status = "APPROVED")
<1>1. IsFiniteSet(Captain) BY EntryAssumption
<1>2. IsFiniteSet(Approved) /\ IsFiniteSet(Approved')
  <2>1. Approved \subseteq Captain /\ Approved' \subseteq Captain BY DEF Approved
  <2> QED BY <1>1, <2>1, FS_Subset
<1>3. team'[c] = row /\ \A d \in Captain : d # c => team'[d] = team[d] OBVIOUS
<1>4. Approved \ {c} = Approved' \ {c} BY <1>3 DEF Approved
<1>5. c \in Approved <=> team[c].status = "APPROVED" BY DEF Approved
<1>6. c \in Approved' <=> row.status = "APPROVED" BY <1>3 DEF Approved
<1>7. /\ Cardinality(Approved) \in Nat /\ Cardinality(Approved') \in Nat
      /\ Cardinality(Approved') = Cardinality(Approved) - One(c \in Approved) + One(c \in Approved')
  BY <1>2, <1>4, SetMove
<1> QED BY <1>5, <1>6, <1>7 DEF One

\* The three numbers are numbers.
LEMMA Numbers ==
  ASSUME TypeOK
  PROVE  /\ Cardinality(Approved) \in Nat /\ Cardinality(late) \in Nat
         /\ Cardinality(Held) \in Nat
         /\ maxTeams \in Nat /\ currentTeams \in Nat
         /\ IsFiniteSet(late)
<1>1. Approved \subseteq Captain /\ Held \subseteq Slot /\ late \subseteq Captain
  BY DEF Approved, Held, TypeOK
<1> QED BY <1>1, EntryAssumption, FS_Subset, FS_CardinalityType DEF TypeOK

\* Types, but for the counter.
Typed ==
  /\ maxTeams \in Places
  /\ status \in PreStart \cup {"LEAGUE_IN_PROGRESS", "CANCELLED"}
  /\ team \in [Captain -> [status : {"none", "APPROVED", "WITHDRAWN"}, club : Club \cup {Null}]]
  /\ invitation \in Seq(InvitationRow)
  /\ drawn \subseteq Captain /\ meanwhile \subseteq Captain /\ late \subseteq Captain
  /\ drawing \in [step : {"idle", "close"}] \cup [step : {"rows"}, teams : SUBSET Captain]

\* Every handler writes what its collection holds.
LEMMA TypedStays ==
  ASSUME TypeOK, RequestsOK, InvitedOK, Next
  PROVE  Typed' /\ maxTeams' = maxTeams
<1>1. invitation' \in Seq(InvitationRow) BY InvitationsKept
<1>2. Typed BY DEF TypeOK, Typed, InvitationRow
<1> DEFINE Goal == /\ maxTeams' = maxTeams
                   /\ status' \in PreStart \cup {"LEAGUE_IN_PROGRESS", "CANCELLED"}
                   /\ team' \in [Captain -> [status : {"none", "APPROVED", "WITHDRAWN"},
                                             club : Club \cup {Null}]]
                   /\ drawn' \subseteq Captain /\ meanwhile' \subseteq Captain
                   /\ late' \subseteq Captain
                   /\ drawing' \in [step : {"idle", "close"}]
                                     \cup [step : {"rows"}, teams : SUBSET Captain]
<1>3. ASSUME UNCHANGED <<maxTeams, status, team, draw, late>> PROVE Goal
  BY <1>2, <1>3 DEF Typed, draw
<1>4. ASSUME NEW s \in Slot, CreateTeam(s) PROVE Goal
  <2>1. request[s] \in Request BY <1>4, InFlight DEF CreateTeam, Steps
  <2>2. request[s].captain \in Captain /\ request[s].club \in Club \cup {Null}
    BY <2>1 DEF Request
  <2>3. [status |-> "APPROVED", club |-> request[s].club]
          \in [status : {"none", "APPROVED", "WITHDRAWN"}, club : Club \cup {Null}]
    BY <2>2
  <2> QED BY <1>2, <1>4, <2>2, <2>3 DEF CreateTeam, Typed, draw
<1>14. ASSUME NEW s \in Slot, TakePlace(s) PROVE Goal
  <2>1. request[s] \in Request BY <1>14, InFlight DEF TakePlace, Steps
  <2>2. request[s].captain \in Captain BY <2>1 DEF Request
  <2> QED BY <1>2, <1>14, <2>2 DEF TakePlace, Typed
<1>5. ASSUME NEW s \in Slot, Step(s), ~CreateTeam(s), ~TakePlace(s) PROVE Goal
  BY <1>3, <1>5 DEF Step, CheckDuplicate, Claim, HandBack, LinkTeam
<1>6. ASSUME NEW s \in Slot, NEW c \in Captain, NEW g \in Club \cup {Null},
             Register(s, c, g)
      PROVE  Goal
  BY <1>3, <1>6 DEF Register
<1>7. ASSUME NEW s \in Slot, NEW i \in Invitation, NEW c \in Captain, AcceptRead(s, i, c)
      PROVE  Goal
  BY <1>3, <1>7 DEF AcceptRead
<1>8. ASSUME NEW i \in Invitation, Decline(i) \/ Revoke(i) \/ Expire(i) PROVE Goal
  BY <1>3, <1>8 DEF Decline, Revoke, Expire
<1>9. ASSUME NEW c \in Captain, Withdraw(c) PROVE Goal
  <2>1. PICK row \in [status : {"none", "APPROVED", "WITHDRAWN"}, club : Club \cup {Null}] :
          row = team[c]
    BY <1>2 DEF Typed
  <2>2. [row EXCEPT !.status = "WITHDRAWN"] \in
          [status : {"none", "APPROVED", "WITHDRAWN"}, club : Club \cup {Null}]
    OBVIOUS
  <2>3. team' = [team EXCEPT ![c] = [row EXCEPT !.status = "WITHDRAWN"]]
    BY <1>9, <2>1 DEF Withdraw
  <2> QED BY <1>2, <1>9, <2>2, <2>3 DEF Withdraw, VoidDraw, draw, Typed
<1>10. ASSUME NEW next \in PreStart \cup {"CANCELLED"}, SetStatus(next) PROVE Goal
  BY <1>2, <1>10 DEF SetStatus, VoidDraw, draw, Typed
<1>11. ASSUME DrawRead \/ DrawRows \/ DrawClose PROVE Goal
  <2>1. CASE DrawRead
    <3>1. Approved \subseteq Captain BY DEF Approved
    <3>2. meanwhile' \subseteq Captain
      <4>1. ASSUME NEW s \in Slot, HoldsPlace(s) PROVE request[s].captain \in Captain
        BY <4>1, InFlight DEF HoldsPlace, At, Steps, Request
      <4> QED BY <2>1, <4>1 DEF DrawRead
    <3> QED BY <1>2, <2>1, <3>1, <3>2 DEF DrawRead, Typed
  <2>2. CASE DrawRows
    <3>1. drawing.teams \subseteq Captain BY <1>2, <2>2 DEF DrawRows, Typed
    <3> QED BY <1>2, <2>2, <3>1 DEF DrawRows, Typed
  <2>3. CASE DrawClose BY <1>2, <2>3 DEF DrawClose, Typed, Idle, PreStart
  <2> QED BY <1>11, <2>1, <2>2, <2>3
<1>13. ASSUME StartLeague \/ SetFormat \/ \E g \in Club : Invite(g) PROVE Goal
  BY <1>2, <1>13 DEF StartLeague, SetFormat, VoidDraw, draw, Invite, Typed, PreStart
<1> HIDE DEF Goal
<1>12. Goal
  BY <1>4, <1>5, <1>6, <1>7, <1>8, <1>9, <1>10, <1>11, <1>13, <1>14 DEF Next, Entrants, Organizer
<1> QED BY <1>1, <1>2, <1>12 DEF Goal, Typed

\* No row is about to be created that was not before.
Spared == \A t \in Slot : request'[t].step = "create" => request'[t] = request[t]

\* Only the check for duplicates leads to a creation.
LEMMA SparesCreation ==
  ASSUME RequestsOK, NEW s \in Slot,
         \/ UNCHANGED request
         \/ request[s] \in Request /\ (Refuse(s) \/ Finish(s))
         \/ \E r \in Request : r.step # "create" /\ Begin(s, r)
         \/ \E step \in Steps \ {"create"} : Advances(s, step)
  PROVE  Spared
<1>1. ASSUME NEW q \in {Idle} \cup Request, q.step # "create",
             request' = [request EXCEPT ![s] = q]
      PROVE  Spared
  BY <1>1 DEF Spared, RequestsOK
<1>2. CASE UNCHANGED request BY <1>2 DEF Spared
<1>3. CASE Finish(s) BY <1>1, <1>3 DEF Finish, Idle
<1>4. ASSUME NEW r \in Request, r.step # "create", Begin(s, r) PROVE Spared
  BY <1>1, <1>4 DEF Begin
<1>5. ASSUME NEW step \in Steps \ {"create"}, Advances(s, step) PROVE Spared
  <2>1. PICK r \in Request : r = request[s] BY <1>5 DEF Advances
  <2>2. PICK n \in Request : n = [r EXCEPT !.step = step] /\ n.step = step BY Advanced
  <2>3. request' = [request EXCEPT ![s] = n] BY <1>5, <2>1, <2>2 DEF Advances
  <2> QED BY <1>1, <2>2, <2>3
<1>6. CASE request[s] \in Request /\ Refuse(s)
  BY <1>3, <1>5, <1>6, RefuseMoves DEF Steps
<1> QED BY <1>2, <1>3, <1>4, <1>5, <1>6

\* Where no row changes, the rows stay as a creation needs them.
LEMMA RowsKept ==
  ASSUME RowsOK, Spared, UNCHANGED <<team, late>>
  PROVE  RowsOK'
<1>1. \A t \in Slot : request'[t].step = "create" => team'[request'[t].captain] = NoTeam
  BY DEF RowsOK, Spared, At
<1>2. /\ \A c \in Captain : team'[c].status = "none" => team'[c] = NoTeam
      /\ \A c \in late' : team'[c].status = "WITHDRAWN"
  BY DEF RowsOK
<1> QED BY <1>1, <1>2 DEF RowsOK, At, NoTeam

\* What a step has to show beside the types: rows, counter and its limit.
CountsOn ==
  /\ RowsOK'
  /\ currentTeams' = Cardinality(Approved') + Cardinality(late') + Cardinality(Held')
  /\ currentTeams' <= maxTeams

\* A place is taken while there is one, or the request is refused.
LEMMA CountsOnTakePlace ==
  ASSUME CountInv, NEW s \in Slot, TakePlace(s)
  PROVE  CountsOn
<1>1. request[s] \in Request /\ ~HoldsPlace(s)
  BY InFlight DEF CountInv, TakePlace, Steps, At, HoldsPlace
<1>2. One(HoldsPlace(s)) = 0 BY <1>1 DEF One
<1>3. UNCHANGED <<team, late, maxTeams>> /\ Approved' = Approved BY DEF TakePlace, Approved
<1>4. CASE status = "REGISTRATION_OPEN" /\ currentTeams < maxTeams
  <2>1. currentTeams' = currentTeams + 1 /\ Advances(s, "check")
    BY <1>1, <1>4, ProceedAdvances DEF TakePlace, CountInv, Steps
  <2>2. /\ Cardinality(Held) \in Nat /\ Cardinality(Held') \in Nat
        /\ Cardinality(Held') = Cardinality(Held) - One(HoldsPlace(s))
                                + One("check" \in {"check", "create"})
    BY <2>1, HeldAdvances DEF CountInv, Steps
  <2>3. One("check" \in {"check", "create"}) = 1 BY DEF One
  <2>4. RowsOK'
    <3>1. Spared BY <2>1, SparesCreation DEF CountInv, Steps
    <3> QED BY <1>3, <3>1, RowsKept DEF CountInv
  <2> QED BY <1>2, <1>3, <1>4, <2>1, <2>2, <2>3, <2>4, Numbers DEF CountInv, CountsOn
<1>5. CASE ~(status = "REGISTRATION_OPEN" /\ currentTeams < maxTeams)
  <2>1. currentTeams' = currentTeams /\ Refuse(s) BY <1>5 DEF TakePlace
  <2>2. /\ Cardinality(Held) \in Nat /\ Cardinality(Held') \in Nat
        /\ Cardinality(Held') = Cardinality(Held) - One(HoldsPlace(s))
    BY <1>1, <2>1, HeldReleased DEF CountInv
  <2>3. RowsOK'
    <3>1. Spared BY <1>1, <2>1, SparesCreation DEF CountInv
    <3> QED BY <1>3, <3>1, RowsKept DEF CountInv
  <2>4. currentTeams <= maxTeams BY Numbers DEF CountInv, TypeOK
  <2> QED BY <1>2, <1>3, <2>1, <2>2, <2>3, <2>4, Numbers DEF CountInv, CountsOn
<1> QED BY <1>4, <1>5

\* A duplicate gives back the place it holds.
LEMMA CountsOnCheck ==
  ASSUME CountInv, NEW s \in Slot, CheckDuplicate(s)
  PROVE  CountsOn
<1>1. request[s] \in Request /\ HoldsPlace(s)
  BY InFlight DEF CountInv, CheckDuplicate, Steps, At, HoldsPlace
<1>2. One(HoldsPlace(s)) = 1 BY <1>1 DEF One
<1>3. UNCHANGED <<team, late, maxTeams>> /\ Approved' = Approved BY DEF CheckDuplicate, Approved
<1>4. currentTeams <= maxTeams BY Numbers DEF CountInv, TypeOK
<1>5. CASE team[request[s].captain] # NoTeam
  <2>1. currentTeams' = currentTeams - 1 /\ Refuse(s) BY <1>5 DEF CheckDuplicate
  <2>2. /\ Cardinality(Held) \in Nat /\ Cardinality(Held') \in Nat
        /\ Cardinality(Held') = Cardinality(Held) - One(HoldsPlace(s))
    BY <1>1, <2>1, HeldReleased DEF CountInv
  <2>3. RowsOK'
    <3>1. Spared BY <1>1, <2>1, SparesCreation DEF CountInv
    <3> QED BY <1>3, <3>1, RowsKept DEF CountInv
  <2> QED BY <1>2, <1>3, <1>4, <2>1, <2>2, <2>3, Numbers DEF CountInv, CountsOn
<1>6. CASE team[request[s].captain] = NoTeam
  <2>1. currentTeams' = currentTeams /\ Advances(s, "create")
    BY <1>1, <1>6, ProceedAdvances DEF CheckDuplicate, CountInv, Steps
  <2>2. /\ Cardinality(Held) \in Nat /\ Cardinality(Held') \in Nat
        /\ Cardinality(Held') = Cardinality(Held) - One(HoldsPlace(s))
                                + One("create" \in {"check", "create"})
    BY <2>1, HeldAdvances DEF CountInv, Steps
  <2>3. One("create" \in {"check", "create"}) = 1 BY DEF One
  <2>4. RowsOK'
    <3>1. PICK r \in Request : r = request[s] BY <1>1
    <3>2. PICK n \in Request : /\ n = [r EXCEPT !.step = "create"]
                               /\ n.captain = r.captain
      <4>1. PICK n : n = [r EXCEPT !.step = "create"] OBVIOUS
      <4>2. "create" \in Steps BY DEF Steps
      <4>3. n \in Request /\ n.captain = r.captain BY <4>1, <4>2, Advanced, ZenonT(30)
      <4> QED BY <4>1, <4>3
    <3>3. request' = [request EXCEPT ![s] = n] BY <2>1, <3>1, <3>2 DEF Advances
    <3>4. \A t \in Slot : request'[t] = IF t = s THEN n ELSE request[t]
      BY <3>3 DEF CountInv, RequestsOK
    <3> QED BY <1>3, <1>6, <3>1, <3>2, <3>4 DEF CountInv, RowsOK, At, NoTeam
  <2> QED BY <1>2, <1>3, <1>4, <2>1, <2>2, <2>3, <2>4, Numbers DEF CountInv, CountsOn
<1> QED BY <1>5, <1>6

\* The place a request holds becomes its team's.
LEMMA CountsOnCreate ==
  ASSUME CountInv, NEW s \in Slot, CreateTeam(s)
  PROVE  CountsOn
<1> DEFINE c == request[s].captain
           row == [status |-> "APPROVED", club |-> request[s].club]
<1>1. request[s] \in Request /\ HoldsPlace(s) /\ At(s, "create")
  BY InFlight DEF CountInv, CreateTeam, Steps, At, HoldsPlace
<1>2. c \in Captain /\ team[c] = NoTeam BY <1>1 DEF Request, CountInv, RowsOK
<1>3. One(HoldsPlace(s)) = 1 /\ One(team[c].status = "APPROVED") = 0
      /\ One(row.status = "APPROVED") = 1
  BY <1>1, <1>2 DEF One, NoTeam
<1>4. team' = [team EXCEPT ![c] = row] BY DEF CreateTeam
<1>5. /\ Cardinality(Approved) \in Nat /\ Cardinality(Approved') \in Nat
      /\ Cardinality(Approved') = Cardinality(Approved) - One(team[c].status = "APPROVED")
                                  + One(row.status = "APPROVED")
  BY <1>2, <1>4, ApprovedMoves DEF CountInv, TypeOK
<1>6. /\ Cardinality(Held) \in Nat /\ Cardinality(Held') \in Nat
      /\ Cardinality(Held') = Cardinality(Held) - 1
      /\ Spared /\ request'[s].step # "create"
  <2>1. CASE ByInvitation(s)
    <3>1. Advances(s, "link") BY <1>1, <2>1, ProceedAdvances DEF CreateTeam, CountInv, Steps
    <3>2. One("link" \in {"check", "create"}) = 0 BY DEF One
    <3>3. /\ Cardinality(Held) \in Nat /\ Cardinality(Held') \in Nat
          /\ Cardinality(Held') = Cardinality(Held) - One(HoldsPlace(s))
                                  + One("link" \in {"check", "create"})
      BY <3>1, HeldAdvances DEF CountInv, Steps
    <3>4. Spared BY <3>1, SparesCreation DEF CountInv, Steps
    <3>5. request'[s].step = "link"
      <4>1. PICK r \in Request : r = request[s] BY <1>1
      <4>2. PICK n \in Request : n = [r EXCEPT !.step = "link"] /\ n.step = "link"
        BY Advanced DEF Steps
      <4>3. request' = [request EXCEPT ![s] = n] BY <3>1, <4>1, <4>2 DEF Advances
      <4> QED BY <4>2, <4>3 DEF CountInv, RequestsOK
    <3>6. One(HoldsPlace(s)) = 1 BY <1>3
    <3> QED BY <3>2, <3>3, <3>4, <3>5, <3>6
  <2>2. CASE ~ByInvitation(s)
    <3>1. Finish(s) BY <2>2 DEF CreateTeam
    <3>2. /\ Cardinality(Held) \in Nat /\ Cardinality(Held') \in Nat
          /\ Cardinality(Held') = Cardinality(Held) - One(HoldsPlace(s))
      BY <1>1, <3>1, HeldReleased DEF CountInv
    <3>3. Spared BY <1>1, <3>1, SparesCreation DEF CountInv
    <3>4. request'[s] = Idle BY <3>1 DEF Finish, CountInv, RequestsOK
    <3>5. One(HoldsPlace(s)) = 1 BY <1>3
    <3> QED BY <3>2, <3>3, <3>4, <3>5 DEF Idle
  <2> QED BY <2>1, <2>2
<1>7. /\ Cardinality(Approved) \in Nat /\ Cardinality(Approved') \in Nat
      /\ Cardinality(Approved') = Cardinality(Approved) + 1
  <2> HIDE DEF c, row
  <2> QED BY <1>3, <1>5
<1>8. UNCHANGED <<currentTeams, late, maxTeams>> BY DEF CreateTeam
<1>9. currentTeams <= maxTeams BY Numbers DEF CountInv, TypeOK
<1>10. RowsOK'
  <2>1. ASSUME NEW t \in Slot, request'[t].step = "create"
        PROVE  team'[request'[t].captain] = NoTeam
    <3>1. t # s /\ request'[t] = request[t] BY <1>6, <2>1 DEF Spared
    <3>2. request[t] \in Request BY <2>1, <3>1, InFlight DEF At, CountInv, Steps
    <3>3. request[t].captain # c /\ request[t].captain \in Captain
      BY <1>1, <3>1, <3>2, RequestNotIdle DEF CountInv, RequestsOK, Active, Request
    <3>4. team[request[t].captain] = NoTeam BY <2>1, <3>1 DEF CountInv, RowsOK, At
    <3> QED BY <1>4, <3>1, <3>3, <3>4 DEF CountInv, TypeOK
  <2>2. ASSUME NEW d \in Captain, team'[d].status = "none" PROVE team'[d] = NoTeam
    BY <1>2, <1>4, <2>2 DEF CountInv, TypeOK, RowsOK
  <2>3. ASSUME NEW d \in late PROVE team'[d].status = "WITHDRAWN"
    <3>1. team[d].status = "WITHDRAWN" /\ d \in Captain BY DEF CountInv, RowsOK, TypeOK
    <3>2. d # c BY <1>2, <3>1 DEF NoTeam
    <3> QED BY <1>4, <3>1, <3>2 DEF CountInv, TypeOK
  <2> QED BY <1>8, <2>1, <2>2, <2>3 DEF RowsOK, At, NoTeam
<1> QED BY <1>6, <1>7, <1>8, <1>9, <1>10, Numbers DEF CountInv, CountsOn

\* What is neither a step with a place nor a withdrawal leaves the numbers alone.
LEMMA CountsOnRest ==
  ASSUME CountInv, UNCHANGED <<currentTeams, team, late>>, Spared,
         Cardinality(Held') = Cardinality(Held)
  PROVE  CountsOn
<1>1. RowsOK' BY RowsKept DEF CountInv
<1>2. Approved' = Approved BY DEF Approved
<1>3. currentTeams <= maxTeams BY Numbers DEF CountInv, TypeOK
<1> QED BY <1>1, <1>2, <1>3 DEF CountInv, CountsOn

\* A team that withdraws keeps its group.
LEMMA RowWithdrawn ==
  ASSUME NEW row \in [status : {"none", "APPROVED", "WITHDRAWN"}, club : Club \cup {Null}]
  PROVE  LET gone == [row EXCEPT !.status = "WITHDRAWN"] IN
           gone.status = "WITHDRAWN" /\ gone.club = row.club
OBVIOUS

\* A team leaves with its place before the start, and without it later.
LEMMA CountsOnWithdraw ==
  ASSUME CountInv, NEW c \in Captain, Withdraw(c)
  PROVE  CountsOn
<1>1. PICK row \in [status : {"none", "APPROVED", "WITHDRAWN"}, club : Club \cup {Null}] :
        row = team[c]
  BY DEF CountInv, TypeOK
<1>2. row.status = "APPROVED" BY <1>1 DEF Withdraw, Approved
<1>3. PICK gone : gone = [row EXCEPT !.status = "WITHDRAWN"] /\ gone.status = "WITHDRAWN"
  BY RowWithdrawn
<1>4. team' = [team EXCEPT ![c] = gone] BY <1>1, <1>3 DEF Withdraw
<1>5. \A d \in Captain : team'[d] = IF d = c THEN gone ELSE team[d]
  BY <1>4 DEF CountInv, TypeOK
<1>6. /\ Cardinality(Approved) \in Nat /\ Cardinality(Approved') \in Nat
      /\ Cardinality(Approved') = Cardinality(Approved) - 1
  <2>1. /\ Cardinality(Approved) \in Nat /\ Cardinality(Approved') \in Nat
        /\ Cardinality(Approved') = Cardinality(Approved) - One(team[c].status = "APPROVED")
                                    + One(gone.status = "APPROVED")
    BY <1>4, ApprovedMoves DEF CountInv, TypeOK
  <2>2. One(team[c].status = "APPROVED") = 1 /\ One(gone.status = "APPROVED") = 0
    BY <1>1, <1>2, <1>3 DEF One
  <2> QED BY <2>1, <2>2
<1>7. UNCHANGED <<request, maxTeams>> /\ Held' = Held BY DEF Withdraw, Held, HoldsPlace
<1>8. c \notin late BY <1>1, <1>2 DEF CountInv, RowsOK
<1>9. late' \subseteq late \cup {c} /\ late \subseteq Captain
  BY DEF Withdraw, CountInv, TypeOK
<1>10. RowsOK'
  <2>1. ASSUME NEW t \in Slot, request[t].step = "create"
        PROVE  team'[request[t].captain] = NoTeam
    <3>1. team[request[t].captain] = NoTeam BY <2>1 DEF CountInv, RowsOK, At
    <3>2. request[t].captain # c BY <1>1, <1>2, <3>1 DEF NoTeam
    <3>3. request[t].captain \in Captain
      BY <2>1, InFlight DEF CountInv, At, Steps, Request
    <3> QED BY <1>5, <3>1, <3>2, <3>3
  <2>2. \A d \in Captain : team'[d].status = "none" => team'[d] = NoTeam
    BY <1>3, <1>5 DEF CountInv, RowsOK
  <2>3. \A d \in late' : team'[d].status = "WITHDRAWN"
    BY <1>3, <1>5, <1>9 DEF CountInv, RowsOK
  <2> QED BY <1>7, <2>1, <2>2, <2>3 DEF RowsOK, At, NoTeam
<1>11. currentTeams <= maxTeams BY Numbers DEF CountInv, TypeOK
<1>12. CASE status \in PreStart
  <2>1. currentTeams' = currentTeams - 1 /\ late' = late BY <1>12 DEF Withdraw
  <2> QED BY <1>6, <1>7, <1>10, <1>11, <2>1, Numbers DEF CountInv, CountsOn
<1>13. CASE status \notin PreStart
  <2>1. currentTeams' = currentTeams /\ late' = late \cup {c} BY <1>13 DEF Withdraw
  <2>2. Cardinality(late') = Cardinality(late) + 1
    BY <1>8, <2>1, Numbers, FS_AddElement DEF CountInv
  <2> QED BY <1>6, <1>7, <1>10, <1>11, <2>1, <2>2, Numbers DEF CountInv, CountsOn
<1> QED BY <1>12, <1>13

\* The counter follows every step.
LEMMA NextCounts ==
  ASSUME CountInv, Next
  PROVE  CountsOn
<1>1. ASSUME UNCHANGED <<currentTeams, team, late, request>> PROVE CountsOn
  BY <1>1, CountsOnRest DEF Spared, Held, HoldsPlace
<1>2. ASSUME NEW s \in Slot, Claim(s) \/ HandBack(s) \/ LinkTeam(s) PROVE CountsOn
  <2>1. request[s] \in Request /\ ~HoldsPlace(s)
    BY <1>2, InFlight DEF CountInv, Claim, HandBack, LinkTeam, Steps, At, HoldsPlace
  <2>2. One(HoldsPlace(s)) = 0 BY <2>1 DEF One
  <2>3. UNCHANGED <<currentTeams, team, late>> BY <1>2 DEF Claim, HandBack, LinkTeam
  <2>4. CASE Finish(s)
    <3>1. /\ Cardinality(Held) \in Nat /\ Cardinality(Held') \in Nat
          /\ Cardinality(Held') = Cardinality(Held) - One(HoldsPlace(s))
      BY <2>1, <2>4, HeldReleased DEF CountInv
    <3>2. Spared BY <2>1, <2>4, SparesCreation DEF CountInv
    <3> QED BY <2>2, <2>3, <3>1, <3>2, CountsOnRest
  <2>5. CASE Proceed(s, "take")
    <3>1. Advances(s, "take") BY <2>1, <2>5, ProceedAdvances DEF CountInv, Steps
    <3>2. One("take" \in {"check", "create"}) = 0 BY DEF One
    <3>3. /\ Cardinality(Held) \in Nat /\ Cardinality(Held') \in Nat
          /\ Cardinality(Held') = Cardinality(Held) - One(HoldsPlace(s))
                                  + One("take" \in {"check", "create"})
      BY <3>1, HeldAdvances DEF CountInv, Steps
    <3>4. Spared BY <3>1, SparesCreation DEF CountInv, Steps
    <3> QED BY <2>2, <2>3, <3>2, <3>3, <3>4, CountsOnRest
  <2> QED BY <1>2, <2>4, <2>5 DEF Claim, HandBack, LinkTeam
<1>3. ASSUME NEW s \in Slot, NEW r \in Request, Begin(s, r), r.step \in {"take", "claim"},
             UNCHANGED <<currentTeams, team, late>>
      PROVE  CountsOn
  <2>1. Cardinality(Held') = Cardinality(Held) BY <1>3, HeldBegins DEF CountInv
  <2>2. Spared BY <1>3, SparesCreation DEF CountInv
  <2> QED BY <1>3, <2>1, <2>2, CountsOnRest
<1>4. ASSUME NEW s \in Slot, NEW c \in Captain, NEW g \in Club \cup {Null},
             Register(s, c, g)
      PROVE  CountsOn
  <2>1. [step |-> "take", captain |-> c, club |-> g, invitation |-> Null] \in Request
    BY DEF Request, Steps
  <2> QED BY <1>3, <1>4, <2>1 DEF Register
<1>5. ASSUME NEW s \in Slot, NEW i \in Invitation, NEW c \in Captain, AcceptRead(s, i, c)
      PROVE  CountsOn
  <2>1. i \in Nat /\ invitation[i].club \in Club
    BY InvitationRows DEF InvitationRow, CountInv
  <2>2. [step |-> "claim", captain |-> c, club |-> invitation[i].club,
         invitation |-> i] \in Request
    BY <2>1 DEF Request, Steps
  <2> QED BY <1>3, <1>5, <2>2 DEF AcceptRead
<1>6. ASSUME NEW i \in Invitation, Decline(i) \/ Revoke(i) \/ Expire(i) PROVE CountsOn
  BY <1>1, <1>6 DEF Decline, Revoke, Expire
<1>7. ASSUME NEW g \in Club, Invite(g) PROVE CountsOn BY <1>1, <1>7 DEF Invite
<1>8. ASSUME NEW next \in PreStart \cup {"CANCELLED"}, SetStatus(next) PROVE CountsOn
  BY <1>1, <1>8 DEF SetStatus
<1>9. ASSUME DrawRead \/ DrawRows \/ DrawClose \/ StartLeague \/ SetFormat PROVE CountsOn
  BY <1>1, <1>9 DEF DrawRead, DrawRows, DrawClose, StartLeague, SetFormat
<1> QED BY <1>2, <1>4, <1>5, <1>6, <1>7, <1>8, <1>9, CountsOnTakePlace, CountsOnCheck,
        CountsOnCreate, CountsOnWithdraw DEF Next, Entrants, Organizer, Step

\* Nobody has registered.
LEMMA CountInvInit == Init => CountInv
<1> SUFFICES ASSUME Init PROVE CountInv OBVIOUS
<1>1. TypeOK
  <2>1. maxTeams \in Nat BY EntryAssumption DEF Init
  <2>2. drawing \in [step : {"idle", "close"}] BY DEF Init, Idle
  <2> QED BY <2>1, <2>2, EmptySeq DEF Init, TypeOK, PreStart, NoTeam
<1>2. RequestsOK /\ InvitedOK BY DEF Init, RequestsOK, InvitedOK, Active
<1>3. RowsOK BY DEF Init, RowsOK, At, Idle, NoTeam
<1>4. Approved = {} /\ late = {} /\ Held = {}
  BY DEF Init, Approved, NoTeam, Held, HoldsPlace, Idle
<1>5. Cardinality({}) = 0 BY FS_EmptySet
<1>6. currentTeams = 0 BY DEF Init
<1> QED BY <1>1, <1>2, <1>3, <1>4, <1>5, <1>6 DEF CountInv

\* Types, requests, rows and counter together are inductive.
LEMMA CountInvNext == CountInv /\ [Next]_vars => CountInv'
<1>1. ASSUME CountInv, Next PROVE CountInv'
  <2>1. RequestsOK' /\ InvitedOK'
    BY <1>1, NextMoves, RequestsStay, InvitedStays DEF CountInv
  <2>2. Typed' /\ maxTeams' = maxTeams BY <1>1, TypedStays DEF CountInv
  <2>3. CountsOn BY <1>1, NextCounts
  <2>4. Approved' \subseteq Captain /\ Held' \subseteq Slot /\ late' \subseteq Captain
    BY <2>2 DEF Approved, Held, Typed
  <2>5. Cardinality(Approved') \in Nat /\ Cardinality(late') \in Nat
        /\ Cardinality(Held') \in Nat
    BY <2>4, EntryAssumption, FS_Subset, FS_CardinalityType
  <2>6. currentTeams' \in 0..maxTeams
    BY <1>1, <2>3, <2>5, Numbers DEF CountInv, CountsOn
  <2>7. TypeOK' BY <2>2, <2>6 DEF Typed, TypeOK, InvitationRow, InvitationStatus, PreStart
  <2> QED BY <2>1, <2>3, <2>7 DEF CountInv, CountsOn
<1>2. ASSUME CountInv, UNCHANGED vars PROVE CountInv'
  <2>1. UNCHANGED <<maxTeams, status, currentTeams, team, invitation, drawn, drawing,
                    meanwhile, late, request>>
    BY <1>2 DEF vars, draw
  <2>2. TypeOK' BY <1>2, <2>1 DEF CountInv, TypeOK
  <2>3. RequestsOK' /\ InvitedOK'
    BY <1>2, <2>1 DEF CountInv, RequestsOK, InvitedOK, Invites, Active, Invitation
  <2>4. RowsOK' BY <1>2, <2>1 DEF CountInv, RowsOK, At
  <2>5. Approved' = Approved /\ Held' = Held BY <2>1 DEF Approved, Held, HoldsPlace
  <2> QED BY <1>2, <2>1, <2>2, <2>3, <2>4, <2>5 DEF CountInv
<1> QED BY <1>1, <1>2

\* Every reachable state is well typed, whatever the organizer does meanwhile, and the
\* counter never leaves 0..maxTeams.
THEOREM TypeCorrect == Spec => []TypeOK
<1>1. CountInv => TypeOK BY DEF CountInv
<1> QED BY <1>1, CountInvInit, CountInvNext, PTL DEF Spec

-----------------------------------------------------------------------------
(* Answers, where the organizer leaves alone whose request is in flight *)

\* The requests that have claimed an invitation, and are not done with it.
Work ==
  {w \in Slot \X Invitation : /\ request[w[1]].step \in Steps \ {"claim"}
                              /\ request[w[1]].invitation = w[2]}

\* The invitations that may still bring a team in; that have brought one; those
\* whose team is in.
Open ==
  {i \in Invitation : invitation[i].status = "PENDING" \/ \E s \in Slot : <<s, i>> \in Work}
Linked == {i \in Invitation : invitation[i].team # Null}
Brought == {i \in Linked : team[invitation[i].team].status = "APPROVED"}

\* An invitation in work is accepted, by one request, and has no team yet.
WorkOK ==
  \A s \in Slot, i \in Invitation : <<s, i>> \in Work =>
    /\ invitation[i].status = "ACCEPTED" /\ i \notin Linked
    /\ \A t \in Slot : <<t, i>> \in Work => t = s

\* What is to be linked is there.
LinkOK ==
  \A s \in Slot : request[s].step = "link" =>
    /\ team[request[s].captain].status # "none"
    /\ team[request[s].captain].club = request[s].club

\* The accepted invitations in nobody's work are those with a team, of their group.
LinkedOK ==
  /\ Linked = {i \in Invitation : invitation[i].status = "ACCEPTED" /\ i \notin Open}
  /\ \A i \in Linked : /\ team[invitation[i].team].status # "none"
                       /\ team[invitation[i].team].club = invitation[i].club

\* A group has one invitation that is open or whose team is in, or none.
OneOfGroup ==
  \A i, j \in Open \cup Brought : invitation[i].club = invitation[j].club => i = j

\* The inductive invariant of the answers; CountInv goes with it.
AnswersInv == WorkOK /\ LinkOK /\ LinkedOK /\ OneOfGroup

\* Teams come, and leave.
TeamsGoOn ==
  \A c \in Captain : team[c].status # "none" =>
    /\ team'[c].status # "none" /\ team'[c].club = team[c].club
    /\ team'[c].status = "APPROVED" => team[c].status = "APPROVED"

\* Steps that answer nothing and begin or end no work on an invitation.
LEMMA AnswersKept ==
  ASSUME CountInv, AnswersInv, LinkOK', TeamsGoOn, UNCHANGED <<invitation, Work>>
  PROVE  AnswersInv'
<1>1. Invitation' = Invitation BY DEF Invitation
<1>2. Open' = Open /\ Linked' = Linked BY <1>1 DEF Open, Linked
<1>3. \A i \in Linked : invitation[i].team \in Captain
  BY InvitationRows DEF Linked, InvitationRow, CountInv
<1>4. Brought' \subseteq Brought
  BY <1>2, <1>3 DEF Brought, AnswersInv, LinkedOK, TeamsGoOn
<1>5. WorkOK' BY <1>1, <1>2 DEF AnswersInv, WorkOK
<1>6. LinkedOK'
  BY <1>1, <1>2, <1>3 DEF AnswersInv, LinkedOK, TeamsGoOn
<1>7. OneOfGroup' BY <1>1, <1>2, <1>4 DEF AnswersInv, OneOfGroup
<1> QED BY <1>5, <1>6, <1>7 DEF AnswersInv

\* A pending invitation is declined, revoked or expires.
LEMMA AnswersRefused ==
  ASSUME CountInv, AnswersInv, NEW i \in Invitation, invitation[i].status = "PENDING",
         NEW answer \in InvitationStatus \ {"PENDING", "ACCEPTED"}, Answer(i, answer),
         UNCHANGED <<team, request>>
  PROVE  AnswersInv'
<1>1. /\ Invitation' = Invitation
      /\ \A j \in Invitation : j # i => invitation'[j] = invitation[j]
      /\ invitation'[i].status = answer
      /\ invitation'[i].club = invitation[i].club
      /\ invitation'[i].team = invitation[i].team
  BY AnswerChanges DEF CountInv
<1>2. Work' = Work BY <1>1 DEF Work
<1>3. \A s \in Slot : <<s, i>> \notin Work BY DEF AnswersInv, WorkOK
<1>4. Linked' = Linked /\ Brought' = Brought BY <1>1 DEF Linked, Brought
<1>5. Open' = Open \ {i} BY <1>1, <1>2, <1>3 DEF Open
<1>6. i \notin Linked /\ i \in Open BY DEF Open, AnswersInv, LinkedOK
<1>7. \A j \in Invitation : invitation'[j].club = invitation[j].club BY <1>1
<1>8. WorkOK' BY <1>1, <1>2, <1>3, <1>4 DEF AnswersInv, WorkOK
<1>9. LinkOK' BY DEF AnswersInv, LinkOK
<1>10. LinkedOK'
  <2>1. \A j \in Invitation : j \in Linked <=> invitation'[j].status = "ACCEPTED" /\ j \notin Open'
    BY <1>1, <1>5, <1>6 DEF AnswersInv, LinkedOK
  <2>2. \A j \in Linked : invitation'[j].team = invitation[j].team
                          /\ invitation'[j].club = invitation[j].club
    BY <1>1 DEF Linked
  <2> QED BY <1>1, <1>4, <2>1, <2>2 DEF AnswersInv, LinkedOK, Linked
<1>11. OneOfGroup'
  <2>1. Open \cup Brought \subseteq Invitation BY DEF Open, Brought, Linked
  <2> QED BY <1>4, <1>5, <1>7, <2>1 DEF AnswersInv, OneOfGroup
<1> QED BY <1>8, <1>9, <1>10, <1>11 DEF AnswersInv

\* What one request becomes, and the others stay.
LEMMA OthersWork ==
  ASSUME CountInv, NEW s \in Slot, NEW q \in {Idle} \cup Request,
         request' = [request EXCEPT ![s] = q], Invitation' = Invitation
  PROVE  /\ request'[s] = q
         /\ \A t \in Slot : t # s => request'[t] = request[t]
         /\ \A t \in Slot, i \in Invitation :
              <<t, i>> \in Work' <=>
                IF t = s THEN q.step \in Steps \ {"claim"} /\ q.invitation = i
                         ELSE <<t, i>> \in Work
<1>1. request'[s] = q /\ \A t \in Slot : t # s => request'[t] = request[t]
  BY DEF CountInv, RequestsOK
<1> QED BY <1>1 DEF Work

\* An answer in work is in work on its invitation.
LEMMA WorksOn ==
  ASSUME CountInv, NEW s \in Slot, request[s] \in Request, ByInvitation(s),
         request[s].step # "claim"
  PROVE  /\ request[s].invitation \in Invitation
         /\ \A i \in Invitation : <<s, i>> \in Work <=> i = request[s].invitation
<1>1. request[s].step \in Steps /\ s \in Active BY RequestNotIdle DEF Active
<1>2. request[s].invitation \in Invitation
  BY <1>1 DEF CountInv, InvitedOK, Invites, ByInvitation
<1> QED BY <1>1, <1>2 DEF Work

\* A pending invitation is claimed: from now on the request works on it.
LEMMA AnswersClaimed ==
  ASSUME CountInv, AnswersInv, NEW s \in Slot, Claim(s),
         invitation[request[s].invitation].status = "PENDING"
  PROVE  AnswersInv'
<1>1. request[s] \in Request BY InFlight DEF Claim, CountInv, Steps
<1>2. PICK i \in Invitation : i = request[s].invitation
  BY <1>1, RequestNotIdle DEF CountInv, InvitedOK, Invites, Claim, At, Active
<1>3. Answer(i, "ACCEPTED") /\ Proceed(s, "take") /\ UNCHANGED team /\ At(s, "claim")
  BY <1>2 DEF Claim
<1>4. /\ Invitation' = Invitation
      /\ \A j \in Invitation : j # i => invitation'[j] = invitation[j]
      /\ invitation'[i].status = "ACCEPTED"
      /\ invitation'[i].club = invitation[i].club
      /\ invitation'[i].team = invitation[i].team
  BY <1>2, <1>3, AnswerChanges DEF CountInv, InvitationStatus
<1>5. PICK q \in Request : /\ request' = [request EXCEPT ![s] = q]
                           /\ q.step = "take" /\ q.invitation = i
  <2>1. Advances(s, "take") BY <1>1, <1>3, ProceedAdvances DEF CountInv, Steps
  <2>2. PICK r \in Request : r = request[s] BY <1>1
  <2>3. PICK n \in Request : /\ n = [r EXCEPT !.step = "take"] /\ n.step = "take"
                             /\ n.invitation = r.invitation
    <3>1. PICK n : n = [r EXCEPT !.step = "take"] OBVIOUS
    <3>2. "take" \in Steps BY DEF Steps
    <3>3. n \in Request /\ n.step = "take" /\ n.invitation = r.invitation
      BY <3>1, <3>2, Advanced, ZenonT(30)
    <3> QED BY <3>1, <3>3
  <2>4. request' = [request EXCEPT ![s] = n] BY <2>1, <2>2, <2>3 DEF Advances
  <2> QED BY <1>2, <2>2, <2>3, <2>4
<1>6. /\ request'[s] = q /\ \A t \in Slot : t # s => request'[t] = request[t]
      /\ \A t \in Slot, j \in Invitation :
           <<t, j>> \in Work' <=> IF t = s THEN j = i ELSE <<t, j>> \in Work
  <2>1. q.step \in Steps \ {"claim"} BY <1>5 DEF Steps
  <2>2. /\ request'[s] = q /\ \A t \in Slot : t # s => request'[t] = request[t]
        /\ \A t \in Slot, j \in Invitation :
             <<t, j>> \in Work' <=>
               IF t = s THEN q.step \in Steps \ {"claim"} /\ q.invitation = j
                        ELSE <<t, j>> \in Work
    BY <1>4, <1>5, OthersWork
  <2> HIDE DEF Work, Steps
  <2> QED BY <1>5, <2>1, <2>2
<1>7. \A j \in Invitation : <<s, j>> \notin Work BY <1>3 DEF At, Work
<1>8. invitation[i].status = "PENDING" BY <1>2
<1>9. i \notin Linked /\ i \in Open /\ \A t \in Slot : <<t, i>> \notin Work
  BY <1>8 DEF AnswersInv, LinkedOK, Open, WorkOK
<1>10. Linked' = Linked /\ Brought' = Brought BY <1>3, <1>4 DEF Linked, Brought
<1>11. Open' = Open
  <2>1. i \in Open' BY <1>4, <1>6 DEF Open
  <2>2. \A j \in Invitation : j # i => (j \in Open' <=> j \in Open)
    BY <1>4, <1>6, <1>7 DEF Open
  <2>3. Open \subseteq Invitation /\ Open' \subseteq Invitation BY <1>4 DEF Open
  <2> QED BY <1>9, <2>1, <2>2, <2>3
<1>12. WorkOK' BY <1>4, <1>6, <1>7, <1>9, <1>10 DEF AnswersInv, WorkOK
<1>13. LinkOK' BY <1>3, <1>5, <1>6 DEF AnswersInv, LinkOK
<1>14. LinkedOK'
  <2>1. \A j \in Invitation : j \in Linked <=> invitation'[j].status = "ACCEPTED" /\ j \notin Open
    BY <1>4, <1>9 DEF AnswersInv, LinkedOK
  <2>2. \A j \in Linked : invitation'[j].team = invitation[j].team
                          /\ invitation'[j].club = invitation[j].club
    BY <1>4 DEF Linked
  <2> QED BY <1>3, <1>4, <1>10, <1>11, <2>1, <2>2 DEF AnswersInv, LinkedOK, Linked
<1>15. OneOfGroup'
  <2>1. Open \cup Brought \subseteq Invitation BY DEF Open, Brought, Linked
  <2>2. \A j \in Invitation : invitation'[j].club = invitation[j].club BY <1>4
  <2> QED BY <1>10, <1>11, <2>1, <2>2 DEF AnswersInv, OneOfGroup
<1> QED BY <1>12, <1>13, <1>14, <1>15 DEF AnswersInv

\* A claim is handed back: no other invitation of the group can be pending.
LEMMA AnswersHandedBack ==
  ASSUME CountInv, AnswersInv, NEW s \in Slot, HandBack(s)
  PROVE  AnswersInv'
<1>1. request[s] \in Request /\ request[s].step = "handBack"
  BY InFlight DEF HandBack, CountInv, Steps, At
<1>2. ByInvitation(s)
  BY <1>1, RequestNotIdle DEF CountInv, InvitedOK, Invites, Active, ByInvitation
<1>3. PICK i \in Invitation : i = request[s].invitation BY <1>1, <1>2, WorksOn
<1>4. \A j \in Invitation : <<s, j>> \in Work <=> j = i BY <1>1, <1>2, <1>3, WorksOn
<1>5. /\ invitation[i].status = "ACCEPTED" /\ i \notin Linked /\ i \in Open
      /\ \A t \in Slot : <<t, i>> \in Work => t = s
  BY <1>4 DEF AnswersInv, WorkOK, Open
<1>6. PendingOf(invitation[i].club) = {}
  <2>1. \A j \in PendingOf(invitation[i].club) : /\ j \in Open /\ invitation[j].status = "PENDING"
                                                /\ invitation[j].club = invitation[i].club
    BY DEF PendingOf, Open
  <2> QED BY <1>5, <2>1 DEF AnswersInv, OneOfGroup
<1>7. Answer(i, "PENDING") /\ Finish(s) /\ UNCHANGED team BY <1>3, <1>5, <1>6 DEF HandBack
<1>8. /\ Invitation' = Invitation
      /\ \A j \in Invitation : j # i => invitation'[j] = invitation[j]
      /\ invitation'[i].status = "PENDING"
      /\ invitation'[i].club = invitation[i].club
      /\ invitation'[i].team = invitation[i].team
  BY <1>7, AnswerChanges DEF CountInv, InvitationStatus
<1>9. /\ request'[s] = Idle /\ \A t \in Slot : t # s => request'[t] = request[t]
      /\ \A t \in Slot, j \in Invitation : <<t, j>> \in Work' <=> t # s /\ <<t, j>> \in Work
  <2>1. Idle.step \notin Steps BY DEF Idle, Steps
  <2>2. request' = [request EXCEPT ![s] = Idle] BY <1>7 DEF Finish
  <2> QED BY <1>8, <2>1, <2>2, OthersWork
<1>10. Linked' = Linked /\ Brought' = Brought BY <1>7, <1>8 DEF Linked, Brought
<1>11. Open' = Open
  <2>1. i \in Open' BY <1>8 DEF Open
  <2>2. \A j \in Invitation : j # i => (j \in Open' <=> j \in Open)
    BY <1>4, <1>8, <1>9 DEF Open
  <2>3. Open \subseteq Invitation /\ Open' \subseteq Invitation BY <1>8 DEF Open
  <2> QED BY <1>5, <2>1, <2>2, <2>3
<1>12. WorkOK' BY <1>4, <1>5, <1>8, <1>9, <1>10 DEF AnswersInv, WorkOK
<1>13. LinkOK' BY <1>7, <1>9 DEF AnswersInv, LinkOK, Idle
<1>14. LinkedOK'
  <2>1. \A j \in Invitation : j \in Linked <=> invitation'[j].status = "ACCEPTED" /\ j \notin Open
    BY <1>5, <1>8 DEF AnswersInv, LinkedOK
  <2>2. \A j \in Linked : invitation'[j].team = invitation[j].team
                          /\ invitation'[j].club = invitation[j].club
    BY <1>8 DEF Linked
  <2> QED BY <1>7, <1>8, <1>10, <1>11, <2>1, <2>2 DEF AnswersInv, LinkedOK, Linked
<1>15. OneOfGroup'
  <2>1. Open \cup Brought \subseteq Invitation BY DEF Open, Brought, Linked
  <2>2. \A j \in Invitation : invitation'[j].club = invitation[j].club BY <1>8
  <2> QED BY <1>10, <1>11, <2>1, <2>2 DEF AnswersInv, OneOfGroup
<1> QED BY <1>12, <1>13, <1>14, <1>15 DEF AnswersInv

\* The new team is linked to its invitation, which is settled by that.
LEMMA AnswersLinked ==
  ASSUME CountInv, AnswersInv, NEW s \in Slot, LinkTeam(s)
  PROVE  AnswersInv'
<1>1. request[s] \in Request /\ request[s].step = "link"
  BY InFlight DEF LinkTeam, CountInv, Steps, At
<1>2. ByInvitation(s) /\ s \in Active
  BY <1>1, RequestNotIdle DEF CountInv, InvitedOK, Invites, Active, ByInvitation
<1>3. PICK i \in Invitation : i = request[s].invitation BY <1>1, <1>2, WorksOn
<1>4. \A j \in Invitation : <<s, j>> \in Work <=> j = i BY <1>1, <1>2, <1>3, WorksOn
<1>5. /\ invitation[i].status = "ACCEPTED" /\ i \notin Linked /\ i \in Open
      /\ \A t \in Slot : <<t, i>> \in Work => t = s
  BY <1>4 DEF AnswersInv, WorkOK, Open
<1>6. PICK c \in Captain : c = request[s].captain BY <1>1 DEF Request
<1>7. /\ team[c].status # "none" /\ team[c].club = invitation[i].club
  BY <1>1, <1>2, <1>3, <1>6 DEF AnswersInv, LinkOK, CountInv, InvitedOK, Invites, ByInvitation
<1>8. /\ invitation' = [invitation EXCEPT ![i].team = c]
      /\ Finish(s) /\ UNCHANGED team
  BY <1>3, <1>6 DEF LinkTeam
<1>9. /\ Invitation' = Invitation
      /\ \A j \in Invitation : j # i => invitation'[j] = invitation[j]
      /\ invitation'[i].status = invitation[i].status
      /\ invitation'[i].club = invitation[i].club
      /\ invitation'[i].team = c
  BY <1>8, LinkChanges DEF CountInv
<1>10. /\ request'[s] = Idle /\ \A t \in Slot : t # s => request'[t] = request[t]
       /\ \A t \in Slot, j \in Invitation : <<t, j>> \in Work' <=> t # s /\ <<t, j>> \in Work
  <2>1. Idle.step \notin Steps BY DEF Idle, Steps
  <2>2. request' = [request EXCEPT ![s] = Idle] BY <1>8 DEF Finish
  <2> QED BY <1>9, <2>1, <2>2, OthersWork
<1>11. Linked' = Linked \cup {i}
  <2>1. c # Null BY EntryAssumption
  <2> QED BY <1>9, <2>1 DEF Linked
<1>12. Brought' \subseteq Brought \cup {i} BY <1>8, <1>9, <1>11 DEF Brought, Linked
<1>13. Open' = Open \ {i}
  <2>1. i \notin Open' BY <1>5, <1>9, <1>10 DEF Open
  <2>2. \A j \in Invitation : j # i => (j \in Open' <=> j \in Open)
    BY <1>4, <1>9, <1>10 DEF Open
  <2>3. Open \subseteq Invitation /\ Open' \subseteq Invitation BY <1>9 DEF Open
  <2> QED BY <2>1, <2>2, <2>3
<1>14. WorkOK' BY <1>4, <1>5, <1>9, <1>10, <1>11 DEF AnswersInv, WorkOK
<1>15. LinkOK' BY <1>8, <1>10 DEF AnswersInv, LinkOK, Idle
<1>16. LinkedOK'
  <2>1. \A j \in Invitation : j \in Linked' <=> invitation'[j].status = "ACCEPTED" /\ j \notin Open'
    BY <1>5, <1>9, <1>11, <1>13 DEF AnswersInv, LinkedOK
  <2>2. \A j \in Linked : j # i /\ invitation'[j] = invitation[j]
    BY <1>5, <1>9 DEF Linked
  <2>3. \A j \in Linked' : team'[invitation'[j].team].status # "none"
                           /\ team'[invitation'[j].team].club = invitation'[j].club
    BY <1>7, <1>8, <1>9, <1>11, <2>2 DEF AnswersInv, LinkedOK
  <2>4. Linked' \subseteq Invitation' BY DEF Linked
  <2> QED BY <1>9, <2>1, <2>3, <2>4 DEF LinkedOK
<1>17. OneOfGroup'
  <2>1. Open \cup Brought \subseteq Invitation BY DEF Open, Brought, Linked
  <2>2. \A j \in Invitation : invitation'[j].club = invitation[j].club BY <1>9
  <2> QED BY <1>5, <1>12, <1>13, <2>1, <2>2 DEF AnswersInv, OneOfGroup
<1> QED BY <1>14, <1>15, <1>16, <1>17 DEF AnswersInv

\* A group is invited, of which no answer is in flight.
LEMMA AnswersInvited ==
  ASSUME CountInv, AnswersInv, Crossed = FALSE, NEW g \in Club, Invite(g)
  PROVE  AnswersInv'
<1> DEFINE n == Len(invitation) + 1
<1>1. PICK new : new = n OBVIOUS
<1>2. /\ Invitation' = Invitation \cup {new} /\ new \notin Invitation
      /\ \A j \in Invitation : invitation'[j] = invitation[j]
      /\ invitation'[new] = [club |-> g, status |-> "PENDING", team |-> Null]
  BY <1>1, InviteChanges DEF Invite, CountInv
<1> HIDE DEF n
<1>3. UNCHANGED <<team, request>> BY DEF Invite
<1>4. Work' = Work
  <2>1. ASSUME NEW s \in Slot, request[s].step \in Steps PROVE request[s].invitation # new
    <3>1. new # Null BY <1>1, InvitationRows, EntryAssumption DEF n, CountInv
    <3>2. s \in Active BY <2>1, RequestNotIdle DEF Active, CountInv, RequestsOK
    <3>3. request[s].invitation # Null => request[s].invitation \in Invitation
      BY <3>2 DEF CountInv, InvitedOK, Invites
    <3> QED BY <1>2, <3>1, <3>3
  <2> QED BY <1>2, <1>3, <2>1 DEF Work
<1>5. Linked' = Linked /\ Brought' = Brought BY <1>2, <1>3 DEF Linked, Brought
<1>6. Open' = Open \cup {new} /\ new \notin Open /\ new \notin Linked
  BY <1>2, <1>4 DEF Open, Linked
<1>7. \A j \in Open \cup Brought : invitation[j].club # g
  <2>1. ASSUME NEW j \in Open, invitation[j].club = g PROVE FALSE
    <3>1. PendingOf(g) = {} /\ ~\E s \in Active : ByInvitation(s) /\ request[s].club = g
      BY DEF Invite
    <3>2. j \in Invitation /\ invitation[j].status # "PENDING"
      BY <2>1, <3>1 DEF Open, PendingOf
    <3>3. PICK s \in Slot : <<s, j>> \in Work BY <3>2 DEF Open
    <3>4. request[s].step \in Steps /\ request[s].invitation = j BY <3>3 DEF Work
    <3>5. s \in Active /\ ByInvitation(s)
      BY <3>2, <3>4, RequestNotIdle, InvitationRows, EntryAssumption
         DEF Active, ByInvitation, CountInv, RequestsOK
    <3>6. request[s].club = g
      BY <2>1, <3>4, <3>5 DEF CountInv, InvitedOK, Invites, ByInvitation
    <3> QED BY <3>1, <3>5, <3>6
  <2>2. ASSUME NEW j \in Brought, invitation[j].club = g PROVE FALSE
    <3>1. j \in Linked /\ j \in Invitation /\ team[invitation[j].team].status = "APPROVED"
      BY DEF Brought, Linked
    <3>2. team[invitation[j].team].club = g BY <2>2, <3>1 DEF AnswersInv, LinkedOK
    <3>3. invitation[j].team \in Captain
      BY <3>1, InvitationRows DEF Linked, CountInv, InvitationRow
    <3> QED BY <3>1, <3>2, <3>3 DEF Invite, HasTeam, Approved
  <2> QED BY <2>1, <2>2
<1>8. WorkOK' BY <1>2, <1>4, <1>5 DEF AnswersInv, WorkOK, Work
<1>9. LinkOK' BY <1>3 DEF AnswersInv, LinkOK
<1>10. LinkedOK'
  <2>1. \A j \in Invitation' : j \in Linked' <=> invitation'[j].status = "ACCEPTED" /\ j \notin Open'
    BY <1>2, <1>5, <1>6 DEF AnswersInv, LinkedOK
  <2>2. \A j \in Linked : invitation'[j] = invitation[j] BY <1>2 DEF Linked
  <2>3. Linked' \subseteq Invitation' BY DEF Linked
  <2> QED BY <1>3, <1>5, <2>1, <2>2, <2>3 DEF AnswersInv, LinkedOK
<1>11. OneOfGroup'
  <2>1. Open \cup Brought \subseteq Invitation BY DEF Open, Brought, Linked
  <2>2. \A j \in Open \cup Brought : invitation'[j] = invitation[j] BY <1>2, <2>1
  <2> QED BY <1>2, <1>5, <1>6, <1>7, <2>2 DEF AnswersInv, OneOfGroup
<1> QED BY <1>8, <1>9, <1>10, <1>11 DEF AnswersInv

\* A request changes, and its work does not; if it comes to link its team, that is there.
LEMMA AnswersKeptBy ==
  ASSUME CountInv, AnswersInv, NEW s \in Slot, NEW q \in {Idle} \cup Request,
         request' = [request EXCEPT ![s] = q], UNCHANGED invitation, TeamsGoOn,
         q.step = "link" => /\ team'[q.captain].status # "none"
                            /\ team'[q.captain].club = q.club,
         \A i \in Invitation :
           <<s, i>> \in Work <=> q.step \in Steps \ {"claim"} /\ q.invitation = i
  PROVE  AnswersInv'
<1>1. Invitation' = Invitation BY DEF Invitation
<1>2. /\ request'[s] = q /\ \A t \in Slot : t # s => request'[t] = request[t]
      /\ \A t \in Slot, i \in Invitation : <<t, i>> \in Work' <=> <<t, i>> \in Work
  <2>1. /\ request'[s] = q /\ \A t \in Slot : t # s => request'[t] = request[t]
        /\ \A t \in Slot, i \in Invitation :
             <<t, i>> \in Work' <=>
               IF t = s THEN q.step \in Steps \ {"claim"} /\ q.invitation = i
                        ELSE <<t, i>> \in Work
    BY <1>1, OthersWork
  <2> HIDE DEF Work, Steps
  <2> QED BY <2>1
<1>3. Work' = Work
  <2>1. Work \subseteq Slot \X Invitation /\ Work' \subseteq Slot \X Invitation
    BY <1>1 DEF Work
  <2> QED BY <1>2, <2>1
<1>4. LinkOK'
  <2>1. ASSUME NEW t \in Slot, t # s, request'[t].step = "link"
        PROVE  /\ team'[request'[t].captain].status # "none"
               /\ team'[request'[t].captain].club = request'[t].club
    <3>1. request'[t] = request[t] BY <1>2, <2>1
    <3>2. request[t].captain \in Captain
      BY <2>1, <3>1, InFlight DEF CountInv, At, Steps, Request
    <3> QED BY <2>1, <3>1, <3>2 DEF AnswersInv, LinkOK, TeamsGoOn
  <2> QED BY <1>2, <2>1 DEF LinkOK
<1> QED BY <1>3, <1>4, AnswersKept

\* A request goes on with its work, ends without any, or begins without any.
LEMMA AnswersGoOn ==
  ASSUME CountInv, AnswersInv, NEW s \in Slot, UNCHANGED invitation, TeamsGoOn,
         \/ \E step \in Steps : /\ request[s].step # "claim" /\ Advances(s, step)
                                /\ step = "link" =>
                                     /\ team'[request[s].captain].status # "none"
                                     /\ team'[request[s].captain].club = request[s].club
         \/ request[s] \in Request /\ Finish(s) /\ (~ByInvitation(s) \/ request[s].step = "claim")
         \/ \E r \in Request : /\ Begin(s, r)
                               /\ r.step \in {"claim", "take"}
                               /\ r.step = "take" => r.invitation = Null
  PROVE  AnswersInv'
<1>1. \A i \in Invitation : i # Null BY InvitationRows, EntryAssumption DEF CountInv
<1>2. ASSUME NEW step \in Steps, request[s].step # "claim", Advances(s, step),
             step = "link" => /\ team'[request[s].captain].status # "none"
                              /\ team'[request[s].captain].club = request[s].club
      PROVE  AnswersInv'
  <2>1. PICK r \in Request : r = request[s] BY <1>2 DEF Advances
  <2>2. PICK q \in Request : /\ q = [r EXCEPT !.step = step] /\ q.step = step
                             /\ q.captain = r.captain /\ q.club = r.club
                             /\ q.invitation = r.invitation
    BY Advanced
  <2>3. request' = [request EXCEPT ![s] = q] BY <1>2, <2>1, <2>2 DEF Advances
  <2>4. r.step \in Steps \ {"claim"} /\ step \in Steps \ {"claim"}
    BY <1>2, <2>1 DEF Advances, Request
  <2>5. \A i \in Invitation :
          <<s, i>> \in Work <=> q.step \in Steps \ {"claim"} /\ q.invitation = i
    BY <2>1, <2>2, <2>4 DEF Work
  <2>6. q.step = "link" => /\ team'[q.captain].status # "none"
                           /\ team'[q.captain].club = q.club
    BY <1>2, <2>1, <2>2
  <2> QED BY <2>3, <2>5, <2>6, AnswersKeptBy
<1>3. ASSUME request[s] \in Request, Finish(s), ~ByInvitation(s) \/ request[s].step = "claim"
      PROVE  AnswersInv'
  <2>1. \A i \in Invitation : <<s, i>> \notin Work BY <1>1, <1>3 DEF Work, ByInvitation
  <2>2. Idle.step \notin Steps /\ Idle.step # "link" BY DEF Idle, Steps
  <2>3. request' = [request EXCEPT ![s] = Idle] BY <1>3 DEF Finish
  <2> QED BY <2>1, <2>2, <2>3, AnswersKeptBy
<1>4. ASSUME NEW r \in Request, Begin(s, r), r.step \in {"claim", "take"},
             r.step = "take" => r.invitation = Null
      PROVE  AnswersInv'
  <2>1. request[s] = Idle /\ request' = [request EXCEPT ![s] = r] BY <1>4 DEF Begin
  <2>2. \A i \in Invitation : <<s, i>> \notin Work BY <2>1 DEF Work, Idle, Steps
  <2>3. \A i \in Invitation : ~(r.step \in Steps \ {"claim"} /\ r.invitation = i)
    BY <1>1, <1>4
  <2>4. r.step # "link" BY <1>4
  <2> QED BY <2>1, <2>2, <2>3, <2>4, AnswersKeptBy
<1> QED BY <1>2, <1>3, <1>4

\* Where no team changes, teams go on.
LEMMA TeamsStay == ASSUME CountInv, UNCHANGED team PROVE TeamsGoOn
BY DEF TeamsGoOn

\* Every step keeps the answers in order.
LEMMA AnswersInvNext ==
  ASSUME CountInv, AnswersInv, Crossed = FALSE, Next
  PROVE  AnswersInv'
<1>1. ASSUME NEW s \in Slot, TakePlace(s) \/ CheckDuplicate(s) PROVE AnswersInv'
  <2>1. request[s] \in Request /\ request[s].step # "claim"
    BY <1>1, InFlight DEF TakePlace, CheckDuplicate, At, CountInv, Steps
  <2>2. UNCHANGED invitation /\ TeamsGoOn
    BY <1>1, TeamsStay DEF TakePlace, CheckDuplicate
  <2>3. CASE Refuse(s)
    <3>1. \/ Advances(s, "handBack")
          \/ ~ByInvitation(s) /\ Finish(s)
      BY <2>1, <2>3, RefuseMoves DEF CountInv
    <3> QED BY <2>1, <2>2, <3>1, AnswersGoOn DEF Steps
  <2>4. ASSUME NEW step \in {"check", "create"}, Proceed(s, step) PROVE AnswersInv'
    <3>1. Advances(s, step) BY <2>1, <2>4, ProceedAdvances DEF CountInv, Steps
    <3> QED BY <2>1, <2>2, <2>4, <3>1, AnswersGoOn DEF Steps
  <2> QED BY <1>1, <2>3, <2>4 DEF TakePlace, CheckDuplicate
<1>2. ASSUME NEW s \in Slot, CreateTeam(s) PROVE AnswersInv'
  <2>1. request[s] \in Request /\ request[s].step = "create"
    BY <1>2, InFlight DEF CreateTeam, At, CountInv, Steps
  <2>2. PICK c \in Captain : c = request[s].captain BY <2>1 DEF Request
  <2>3. team[c] = NoTeam BY <2>1, <2>2 DEF CountInv, RowsOK, At
  <2>4. team' = [team EXCEPT ![c] = [status |-> "APPROVED", club |-> request[s].club]]
    BY <1>2, <2>2 DEF CreateTeam
  <2>5. team'[c].status = "APPROVED" /\ team'[c].club = request[s].club
        /\ \A d \in Captain : d # c => team'[d] = team[d]
    BY <2>4 DEF CountInv, TypeOK
  <2>6. TeamsGoOn BY <2>3, <2>5 DEF TeamsGoOn, NoTeam
  <2>7. UNCHANGED invitation BY <1>2 DEF CreateTeam
  <2>8. CASE ByInvitation(s)
    <3>1. Advances(s, "link")
      BY <1>2, <2>1, <2>8, ProceedAdvances DEF CreateTeam, CountInv, Steps
    <3> QED BY <2>1, <2>2, <2>5, <2>6, <2>7, <3>1, AnswersGoOn DEF Steps
  <2>9. CASE ~ByInvitation(s)
    <3>1. Finish(s) BY <1>2, <2>9 DEF CreateTeam
    <3> QED BY <2>1, <2>6, <2>7, <2>9, <3>1, AnswersGoOn
  <2> QED BY <2>8, <2>9
<1>3. ASSUME NEW s \in Slot, Claim(s) PROVE AnswersInv'
  <2>1. CASE invitation[request[s].invitation].status = "PENDING"
    BY <1>3, <2>1, AnswersClaimed
  <2>2. CASE invitation[request[s].invitation].status # "PENDING"
    <3>1. request[s] \in Request /\ request[s].step = "claim"
      BY <1>3, InFlight DEF Claim, At, CountInv, Steps
    <3>2. Finish(s) /\ UNCHANGED <<invitation, team>> BY <1>3, <2>2 DEF Claim
    <3> QED BY <3>1, <3>2, TeamsStay, AnswersGoOn
  <2> QED BY <2>1, <2>2
<1>4. ASSUME NEW s \in Slot, NEW c \in Captain, NEW g \in Club \cup {Null},
             Register(s, c, g)
      PROVE  AnswersInv'
  <2> DEFINE r == [step |-> "take", captain |-> c, club |-> g, invitation |-> Null]
  <2>1. r \in Request /\ r.step = "take" /\ r.invitation = Null BY DEF Request, Steps
  <2>2. Begin(s, r) /\ UNCHANGED <<invitation, team>> BY <1>4 DEF Register
  <2> HIDE DEF r
  <2> QED BY <2>1, <2>2, TeamsStay, AnswersGoOn
<1>5. ASSUME NEW s \in Slot, NEW i \in Invitation, NEW c \in Captain, AcceptRead(s, i, c)
      PROVE  AnswersInv'
  <2>1. i \in Nat /\ invitation[i].club \in Club
    BY InvitationRows DEF InvitationRow, CountInv
  <2> DEFINE r == [step |-> "claim", captain |-> c, club |-> invitation[i].club,
                   invitation |-> i]
  <2>2. r \in Request /\ r.step = "claim" BY <2>1 DEF Request, Steps
  <2>3. PICK q \in Request : q = r /\ q.step = "claim" BY <2>2
  <2>4. Begin(s, q) /\ UNCHANGED <<invitation, team>> BY <1>5, <2>3 DEF AcceptRead, Begin
  <2>5. TeamsGoOn BY <2>4, TeamsStay
  <2> QED BY <2>3, <2>4, <2>5, AnswersGoOn
<1>6. ASSUME NEW i \in Invitation, Decline(i) \/ Revoke(i) \/ Expire(i) PROVE AnswersInv'
  BY <1>6, AnswersRefused DEF Decline, Revoke, Expire, InvitationStatus
<1>7. ASSUME UNCHANGED <<invitation, request>>, TeamsGoOn PROVE AnswersInv'
  <2>1. UNCHANGED Work BY <1>7 DEF Work, Invitation
  <2>2. LinkOK'
    <3>1. ASSUME NEW t \in Slot, request[t].step = "link" PROVE request[t].captain \in Captain
      BY <3>1, InFlight DEF CountInv, At, Steps, Request
    <3> QED BY <1>7, <3>1 DEF AnswersInv, LinkOK, TeamsGoOn
  <2> QED BY <1>7, <2>1, <2>2, AnswersKept
<1>8. ASSUME NEW c \in Captain, Withdraw(c) PROVE AnswersInv'
  <2>1. PICK row \in [status : {"none", "APPROVED", "WITHDRAWN"}, club : Club \cup {Null}] :
          row = team[c]
    BY DEF CountInv, TypeOK
  <2>2. PICK gone : /\ gone = [row EXCEPT !.status = "WITHDRAWN"]
                    /\ gone.status = "WITHDRAWN" /\ gone.club = row.club
    BY RowWithdrawn
  <2>3. team' = [team EXCEPT ![c] = gone] BY <1>8, <2>1, <2>2 DEF Withdraw
  <2>4. \A d \in Captain : team'[d] = IF d = c THEN gone ELSE team[d]
    BY <2>3 DEF CountInv, TypeOK
  <2>5. TeamsGoOn BY <2>1, <2>2, <2>4 DEF TeamsGoOn
  <2> QED BY <1>7, <1>8, <2>5 DEF Withdraw
<1>9. ASSUME NEW next \in PreStart \cup {"CANCELLED"}, SetStatus(next) PROVE AnswersInv'
  BY <1>7, <1>9, TeamsStay DEF SetStatus
<1>10. ASSUME DrawRead \/ DrawRows \/ DrawClose \/ StartLeague \/ SetFormat PROVE AnswersInv'
  BY <1>7, <1>10, TeamsStay DEF DrawRead, DrawRows, DrawClose, StartLeague, SetFormat
<1> QED BY <1>1, <1>2, <1>3, <1>4, <1>5, <1>6, <1>8, <1>9, <1>10, AnswersHandedBack,
        AnswersLinked, AnswersInvited DEF Next, Entrants, Organizer, Step

\* What the invariant says of accepted invitations.
LEMMA AnswersAreIn ==
  ASSUME CountInv, AnswersInv
  PROVE  AcceptedIsIn
<1>1. \A i \in Invitation : i # Null BY InvitationRows, EntryAssumption DEF CountInv
<1>2. \A i \in Invitation : InvitedBy(i) = IF i \in Linked THEN {invitation[i].team} ELSE {}
  BY InvitationRows, EntryAssumption DEF CountInv, InvitationRow, InvitedBy, Linked
<1>3. \A i \in Invitation : Worked(i) <=> \E s \in Slot : <<s, i>> \in Work
  BY <1>1, RequestNotIdle DEF Worked, Work, Active, At, CountInv, RequestsOK
<1>4. ASSUME NEW i \in Invitation
      PROVE  (invitation[i].status = "ACCEPTED" /\ ~Worked(i)) <=> InvitedBy(i) # {}
  <2>1. invitation[i].status = "ACCEPTED" => (i \in Open <=> Worked(i)) BY <1>3 DEF Open
  <2>2. i \in Linked <=> invitation[i].status = "ACCEPTED" /\ i \notin Open
    BY DEF AnswersInv, LinkedOK
  <2> QED BY <1>2, <2>1, <2>2
<1>5. ASSUME NEW i \in Invitation, NEW c \in InvitedBy(i)
      PROVE  team[c].status # "none" /\ team[c].club = invitation[i].club
  BY <1>2, <1>5 DEF AnswersInv, LinkedOK
<1>6. ASSUME NEW g \in Club
      PROVE  Cardinality({c \in Approved : \E i \in Invitation :
                            invitation[i].club = g /\ c \in InvitedBy(i)}) <= 1
  <2> DEFINE C == {c \in Approved : \E i \in Invitation :
                     invitation[i].club = g /\ c \in InvitedBy(i)}
  <2>1. ASSUME NEW c \in C, NEW d \in C PROVE c = d
    <3>1. PICK i \in Invitation : invitation[i].club = g /\ c \in InvitedBy(i) OBVIOUS
    <3>2. PICK j \in Invitation : invitation[j].club = g /\ d \in InvitedBy(j) OBVIOUS
    <3>3. i \in Brought /\ j \in Brought /\ c = invitation[i].team /\ d = invitation[j].team
      BY <1>2, <3>1, <3>2 DEF Brought, Approved
    <3>4. i = j BY <3>1, <3>2, <3>3 DEF AnswersInv, OneOfGroup
    <3> QED BY <3>3, <3>4
  <2> HIDE DEF C
  <2>2. Cardinality(C) <= 1
    <3>1. CASE C = {}
      <4>1. Cardinality({}) = 0 BY FS_EmptySet
      <4> QED BY <3>1, <4>1
    <3>2. CASE C # {}
      <4>1. PICK c \in C : C = {c} BY <2>1, <3>2
      <4>2. Cardinality({c}) = 1 BY FS_Singleton
      <4> QED BY <4>1, <4>2
    <3> QED BY <3>1, <3>2
  <2> QED BY <2>2 DEF C
<1> QED BY <1>4, <1>5, <1>6 DEF AcceptedIsIn

\* Nobody is invited.
LEMMA AnswersInvInit == Init => AnswersInv
<1> SUFFICES ASSUME Init PROVE AnswersInv OBVIOUS
<1>1. Invitation = {} BY DEF Init, Invitation
<1>2. Work = {} /\ Open = {} /\ Linked = {} /\ Brought = {}
  BY <1>1 DEF Work, Open, Linked, Brought
<1>3. LinkOK BY DEF Init, LinkOK, Idle
<1> QED BY <1>1, <1>2, <1>3 DEF AnswersInv, WorkOK, LinkedOK, OneOfGroup

\* And so does a step of nobody.
LEMMA AnswersInvStutters ==
  ASSUME AnswersInv, UNCHANGED vars
  PROVE  AnswersInv'
<1>1. Invitation' = Invitation BY DEF vars, Invitation
<1>2. Work' = Work BY <1>1 DEF vars, Work
<1>3. Open' = Open /\ Linked' = Linked /\ Brought' = Brought
  BY <1>1, <1>2 DEF vars, Open, Linked, Brought
<1> QED BY <1>1, <1>2, <1>3 DEF vars, AnswersInv, WorkOK, LinkOK, LinkedOK, OneOfGroup

\* Places: the counter is the teams, those who left after the start and the
\* registrations that hold a place; an accepted invitation has its team, and a
\* group at most one by invitation.
THEOREM SeatsStayCounted ==
  ASSUME Crossed = FALSE
  PROVE  Spec => []SeatsCounted
<1>1. Init => CountInv /\ AnswersInv BY CountInvInit, AnswersInvInit
<1>2. (CountInv /\ AnswersInv) /\ [Next]_vars => (CountInv /\ AnswersInv)'
  BY CountInvNext, AnswersInvNext, AnswersInvStutters
<1>3. CountInv /\ AnswersInv => SeatsCounted
  BY AnswersAreIn DEF SeatsCounted, CountInv, Held
<1> QED BY <1>1, <1>2, <1>3, PTL DEF Spec

-----------------------------------------------------------------------------
(* Answers are final *)

\* Which handler may change the status of an invitation, and from what.
LEMMA NextAnswers ==
  ASSUME CountInv, Next, NEW i \in Invitation, invitation'[i].status # invitation[i].status
  PROVE  \/ invitation[i].status = "PENDING"
         \/ invitation[i].status = "ACCEPTED" /\ invitation'[i].status = "PENDING"
              /\ \E s \in Slot : At(s, "handBack") /\ request[s].invitation = i
<1> DEFINE Goal == \/ invitation[i].status = "PENDING"
                   \/ invitation[i].status = "ACCEPTED" /\ invitation'[i].status = "PENDING"
                        /\ \E s \in Slot : At(s, "handBack") /\ request[s].invitation = i
<1>1. ASSUME NEW j \in Invitation, NEW answer \in InvitationStatus, Answer(j, answer)
      PROVE  j = i /\ invitation'[i].status = answer
  BY <1>1, AnswerChanges DEF CountInv
<1>2. ASSUME NEW j \in Invitation, Decline(j) \/ Revoke(j) \/ Expire(j) PROVE Goal
  BY <1>1, <1>2 DEF Decline, Revoke, Expire, InvitationStatus
<1>3. ASSUME NEW s \in Slot, Claim(s) \/ HandBack(s) \/ LinkTeam(s) PROVE Goal
  <2>1. request[s] \in Request /\ request[s].step \in {"claim", "handBack", "link"}
    BY <1>3, InFlight DEF Claim, HandBack, LinkTeam, CountInv, Steps, At
  <2>2. s \in Active BY <2>1, RequestNotIdle DEF Active
  <2>3. PICK j \in Invitation : j = request[s].invitation
    BY <2>1, <2>2 DEF CountInv, InvitedOK, Invites
  <2>4. CASE Claim(s)
    BY <1>1, <2>3, <2>4 DEF Claim, InvitationStatus
  <2>5. CASE HandBack(s)
    BY <1>1, <2>3, <2>5 DEF HandBack, InvitationStatus
  <2>6. CASE LinkTeam(s)
    <3>1. PICK c \in Captain : c = request[s].captain BY <2>1 DEF Request
    <3>2. invitation' = [invitation EXCEPT ![j].team = c] BY <2>3, <2>6, <3>1 DEF LinkTeam
    <3> QED BY <3>2, LinkChanges DEF CountInv
  <2> QED BY <1>3, <2>4, <2>5, <2>6
<1>4. ASSUME NEW g \in Club, Invite(g) PROVE Goal
  BY <1>4, InviteChanges DEF Invite, CountInv
<1>5. ASSUME UNCHANGED invitation PROVE Goal BY <1>5
<1> HIDE DEF Goal
<1>6. Goal
  BY <1>2, <1>3, <1>4, <1>5 DEF Next, Entrants, Organizer, Step, TakePlace, CheckDuplicate,
     CreateTeam, Register, AcceptRead, SetStatus, Withdraw, DrawRead, DrawRows,
     DrawClose, StartLeague, SetFormat
<1> QED BY <1>6 DEF Goal

\* Answers: no answer to an invitation is changed by another that was on its way,
\* only a claim is handed back, by the request that made it; also when the
\* organizer draws and invites meanwhile.
THEOREM AnsweredOnceHolds == Spec => AnsweredOnce
<1>1. CountInv /\ [Next]_vars =>
        [\A i \in Invitation :
           invitation'[i].status # invitation[i].status =>
             \/ invitation[i].status = "PENDING"
             \/ invitation[i].status = "ACCEPTED" /\ invitation'[i].status = "PENDING"
                  /\ \E s \in Slot : At(s, "handBack") /\ request[s].invitation = i]_vars
  BY NextAnswers
<1> QED BY <1>1, CountInvInit, CountInvNext, PTL DEF Spec, AnsweredOnce

-----------------------------------------------------------------------------
(* The draw *)

\* The teams of the draw that stands or is being made.
Made == IF drawing.step = "rows" THEN drawing.teams ELSE drawn

Outside == drawing = Idle /\ drawn = {}

\* While a draw is made and once it is, who takes part is in it, or was about to while
\* it was made; and once it is, registration is closed.
DrawInv ==
  \/ Outside
  \/ /\ Approved \subseteq Made \cup meanwhile
     /\ Made \subseteq Approved \cup late
     /\ \A s \in Slot : HoldsPlace(s) => request[s].captain \in meanwhile
     /\ drawing = Idle => status \in {"REGISTRATION_CLOSED", "LEAGUE_IN_PROGRESS", "CANCELLED"}

\* Nobody comes to hold a place.
NoMoreHold ==
  \A t \in Slot : HoldsPlace(t)' => HoldsPlace(t) /\ request'[t].captain = request[t].captain

\* A request that does not come to hold a place.
LEMMA HeldShrinks ==
  ASSUME RequestsOK, NEW s \in Slot,
         \/ request[s] \in Request /\ (Refuse(s) \/ Finish(s))
         \/ \E r \in Request : r.step \notin {"check", "create"} /\ Begin(s, r)
         \/ \E step \in Steps : /\ step \notin {"check", "create"} \/ HoldsPlace(s)
                                /\ Advances(s, step)
  PROVE  NoMoreHold
<1>1. ASSUME NEW q \in {Idle} \cup Request, request' = [request EXCEPT ![s] = q],
             \/ q.step \notin {"check", "create"}
             \/ HoldsPlace(s) /\ q.captain = request[s].captain
      PROVE  NoMoreHold
  BY <1>1 DEF NoMoreHold, HoldsPlace, RequestsOK
<1>2. CASE Finish(s) BY <1>1, <1>2 DEF Finish, Idle
<1>3. ASSUME NEW r \in Request, r.step \notin {"check", "create"}, Begin(s, r)
      PROVE  NoMoreHold
  BY <1>1, <1>3 DEF Begin
<1>4. ASSUME NEW step \in Steps, Advances(s, step),
             step \notin {"check", "create"} \/ HoldsPlace(s)
      PROVE  NoMoreHold
  <2>1. PICK r \in Request : r = request[s] BY <1>4 DEF Advances
  <2>2. PICK n \in Request : /\ n = [r EXCEPT !.step = step] /\ n.step = step
                            /\ n.captain = r.captain
    BY Advanced
  <2>3. request' = [request EXCEPT ![s] = n] BY <1>4, <2>1, <2>2 DEF Advances
  <2> QED BY <1>1, <1>4, <2>1, <2>2, <2>3
<1>5. CASE request[s] \in Request /\ Refuse(s)
  BY <1>2, <1>4, <1>5, RefuseMoves DEF Steps
<1> QED BY <1>2, <1>3, <1>4, <1>5

\* Whoever takes a place while the draw is made is noted, and none is taken later.
LEMMA DrawInvTakePlace ==
  ASSUME CountInv, DrawInv, NEW s \in Slot, TakePlace(s)
  PROVE  DrawInv'
<1>1. UNCHANGED <<status, drawn, drawing, late>> /\ Approved' = Approved /\ Made' = Made
  BY DEF TakePlace, Approved, Made
<1>2. request[s] \in Request BY InFlight DEF TakePlace, CountInv, Steps
<1>3. CASE Refuse(s) /\ UNCHANGED meanwhile
  <2>1. NoMoreHold BY <1>2, <1>3, HeldShrinks DEF CountInv
  <2> QED BY <1>1, <1>3, <2>1 DEF DrawInv, Outside, NoMoreHold
<1>4. CASE status = "REGISTRATION_OPEN" /\ drawing # Idle
  <2>1. \/ meanwhile' = meanwhile \cup {request[s].captain} /\ Proceed(s, "check")
        \/ Refuse(s) /\ UNCHANGED meanwhile
    BY <1>4 DEF TakePlace
  <2>2. SUFFICES ASSUME meanwhile' = meanwhile \cup {request[s].captain}, Proceed(s, "check")
                 PROVE  DrawInv'
    BY <1>3, <2>1
  <2>3. Advances(s, "check") BY <1>2, <2>2, ProceedAdvances DEF CountInv, Steps
  <2>8. PICK r \in Request : r = request[s] BY <1>2
  <2>9. PICK n \in Request : n = [r EXCEPT !.step = "check"] /\ n.captain = r.captain
    <3>1. "check" \in Steps BY DEF Steps
    <3> QED BY <3>1, Advanced
  <2>4. n = [request[s] EXCEPT !.step = "check"] /\ n.captain = request[s].captain
    BY <2>8, <2>9
  <2>5. request' = [request EXCEPT ![s] = n] BY <2>3, <2>4 DEF Advances
  <2>6. /\ request'[s].captain = request[s].captain
        /\ \A t \in Slot : t # s => request'[t] = request[t]
    <3>1. request \in [Slot -> {Idle} \cup Request] BY DEF CountInv, RequestsOK
    <3>2. n.captain = request[s].captain BY <2>4
    <3>3. s \in Slot OBVIOUS
    <3> QED BY ONLY <2>5, <3>1, <3>2, <3>3
  <2>7. \A t \in Slot : HoldsPlace(t)' => request'[t].captain \in meanwhile'
    BY <1>4, <2>2, <2>6 DEF DrawInv, Outside, HoldsPlace
  <2> QED BY <1>1, <1>4, <2>2, <2>7 DEF DrawInv, Outside
<1>5. CASE drawing = Idle /\ drawn = {} BY <1>1, <1>5 DEF DrawInv, Outside
<1>6. CASE status # "REGISTRATION_OPEN" BY <1>3, <1>6 DEF TakePlace
<1> QED BY <1>4, <1>5, <1>6 DEF DrawInv, Outside

\* The rows of those with a place are theirs to create.
LEMMA DrawInvHolders ==
  ASSUME CountInv, DrawInv, NEW s \in Slot, CheckDuplicate(s) \/ CreateTeam(s)
  PROVE  DrawInv'
<1>1. request[s] \in Request /\ HoldsPlace(s)
  BY InFlight DEF CheckDuplicate, CreateTeam, CountInv, Steps, At, HoldsPlace
<1>2. UNCHANGED <<status, drawn, drawing, meanwhile, late>> /\ Made' = Made
  BY DEF CheckDuplicate, CreateTeam, draw, Made
<1>3. NoMoreHold
  <2>1. \/ Refuse(s) \/ Finish(s) \/ Proceed(s, "create")
        \/ ByInvitation(s) /\ Proceed(s, "link")
    BY DEF CheckDuplicate, CreateTeam
  <2>2. CASE Proceed(s, "create")
    <3>1. Advances(s, "create") BY <1>1, <2>2, ProceedAdvances DEF CountInv, Steps
    <3> QED BY <1>1, <3>1, HeldShrinks DEF CountInv, Steps
  <2>3. CASE ByInvitation(s) /\ Proceed(s, "link")
    <3>1. Advances(s, "link") BY <1>1, <2>3, ProceedAdvances DEF CountInv, Steps
    <3> QED BY <3>1, HeldShrinks DEF CountInv, Steps
  <2> QED BY <1>1, <2>1, <2>2, <2>3, HeldShrinks DEF CountInv
<1>4. Approved \subseteq Approved' /\ Approved' \subseteq Approved \cup {request[s].captain}
  BY DEF CheckDuplicate, CreateTeam, Approved, CountInv, TypeOK
<1> QED BY <1>1, <1>2, <1>3, <1>4 DEF DrawInv, Outside, NoMoreHold

\* A draw notes those with a place when it begins.
LEMMA DrawInvDraws ==
  ASSUME CountInv, DrawInv, DrawRead \/ DrawRows \/ DrawClose
  PROVE  DrawInv'
<1>1. /\ UNCHANGED <<late, request>> /\ Approved' = Approved
      /\ \A s \in Slot : HoldsPlace(s)' = HoldsPlace(s)
  BY DEF DrawRead, DrawRows, DrawClose, Approved, HoldsPlace
<1>2. CASE DrawRead
  <2>1. Made' = Approved /\ drawing' # Idle BY <1>2 DEF DrawRead, Made, Idle
  <2>2. \A s \in Slot : HoldsPlace(s) => request[s].captain \in meanwhile' BY <1>2 DEF DrawRead
  <2> QED BY <1>1, <2>1, <2>2 DEF DrawInv, Outside
<1>3. CASE DrawRows
  <2>1. Made' = Made /\ drawing' # Idle /\ drawing # Idle /\ meanwhile' = meanwhile
    BY <1>3 DEF DrawRows, Made, Idle
  <2> QED BY <1>1, <2>1 DEF DrawInv, Outside
<1>4. CASE DrawClose
  <2>1. /\ Made' = Made /\ drawing # Idle /\ meanwhile' = meanwhile
        /\ status' = "REGISTRATION_CLOSED"
    BY <1>4 DEF DrawClose, Made, Idle
  <2> QED BY <1>1, <2>1 DEF DrawInv, Outside
<1> QED BY <1>2, <1>3, <1>4

\* Whatever else changes who takes part voids the draw.
LEMMA DrawInvNext ==
  ASSUME CountInv, DrawInv, Next
  PROVE  DrawInv'
<1>1. CASE drawing = Idle /\ VoidDraw BY <1>1 DEF DrawInv, Outside, VoidDraw
<1>2. ASSUME UNCHANGED <<status, draw, late>>, Approved' = Approved, NoMoreHold
      PROVE  DrawInv'
  BY <1>2 DEF DrawInv, Outside, Made, draw, NoMoreHold
<1>3. ASSUME UNCHANGED request PROVE NoMoreHold BY <1>3 DEF NoMoreHold, HoldsPlace
<1>6. ASSUME NEW s \in Slot, Claim(s) \/ HandBack(s) \/ LinkTeam(s) PROVE DrawInv'
  <2>1. UNCHANGED <<status, draw, late, team>> /\ Approved' = Approved
    BY <1>6 DEF Claim, HandBack, LinkTeam, Approved
  <2>2. request[s] \in Request
    BY <1>6, InFlight DEF Claim, HandBack, LinkTeam, CountInv, Steps
  <2>3. Finish(s) \/ Proceed(s, "take") BY <1>6 DEF Claim, HandBack, LinkTeam
  <2>4. NoMoreHold
    <3>1. CASE Finish(s) BY <2>2, <3>1, HeldShrinks DEF CountInv
    <3>2. CASE Proceed(s, "take")
      <4>1. Advances(s, "take") BY <2>2, <3>2, ProceedAdvances DEF CountInv, Steps
      <4> QED BY <4>1, HeldShrinks DEF CountInv, Steps
    <3> QED BY <2>3, <3>1, <3>2
  <2> QED BY <1>2, <2>1, <2>4
<1>7. ASSUME NEW s \in Slot, NEW c \in Captain, NEW g \in Club \cup {Null},
             Register(s, c, g)
      PROVE  DrawInv'
  <2> DEFINE r == [step |-> "take", captain |-> c, club |-> g, invitation |-> Null]
  <2>1. UNCHANGED <<status, draw, late, team>> /\ Approved' = Approved
    BY <1>7 DEF Register, Approved
  <2>2. Begin(s, r) /\ r \in Request /\ r.step = "take" BY <1>7 DEF Register, Request, Steps
  <2> HIDE DEF r
  <2>3. NoMoreHold BY <2>2, HeldShrinks DEF CountInv
  <2> QED BY <1>2, <2>1, <2>3
<1>8. ASSUME NEW s \in Slot, NEW i \in Invitation, NEW c \in Captain, AcceptRead(s, i, c)
      PROVE  DrawInv'
  <2> DEFINE r == [step |-> "claim", captain |-> c, club |-> invitation[i].club,
                   invitation |-> i]
  <2>1. UNCHANGED <<status, draw, late, team>> /\ Approved' = Approved
    BY <1>8 DEF AcceptRead, Approved
  <2>2. r \in Request /\ r.step = "claim"
    BY InvitationRows DEF CountInv, InvitationRow, Request, Steps
  <2>3. PICK q \in Request : q = r /\ q.step = "claim" BY <2>2
  <2>4. Begin(s, q) BY <1>8, <2>3 DEF AcceptRead, Begin
  <2>5. NoMoreHold BY <2>3, <2>4, HeldShrinks DEF CountInv
  <2> QED BY <1>2, <2>1, <2>5
<1>9. ASSUME NEW i \in Invitation, Decline(i) \/ Revoke(i) \/ Expire(i) PROVE DrawInv'
  BY <1>2, <1>3, <1>9 DEF Decline, Revoke, Expire, Approved
<1>10. ASSUME NEW g \in Club, Invite(g) PROVE DrawInv'
  BY <1>2, <1>3, <1>10 DEF Invite, Approved
<1>11. ASSUME drawing = Idle, NEW next \in PreStart \cup {"CANCELLED"}, SetStatus(next)
       PROVE  DrawInv'
  <2>1. UNCHANGED <<late, team, request>> /\ Approved' = Approved /\ NoMoreHold
    BY <1>3, <1>11 DEF SetStatus, Approved
  <2>2. CASE VoidDraw BY <1>1, <1>11, <2>2
  <2>3. CASE UNCHANGED draw /\ drawn = {}
    BY <1>11, <2>3 DEF draw, DrawInv, Outside
  <2>4. CASE UNCHANGED draw /\ drawn # {} /\ ~VoidDraw
    <3>1. status' = "CANCELLED"
      BY <1>11, <2>4 DEF SetStatus, DrawInv, Outside, PreStart
    <3> QED BY <2>1, <2>4, <3>1 DEF DrawInv, Outside, Made, draw, NoMoreHold
  <2> QED BY <1>11, <2>2, <2>3, <2>4 DEF SetStatus
<1>12. ASSUME drawing = Idle, NEW c \in Captain, Withdraw(c) PROVE DrawInv'
  <2>1. UNCHANGED <<status, request>> /\ NoMoreHold BY <1>3, <1>12 DEF Withdraw
  <2>2. CASE VoidDraw BY <1>1, <1>12, <2>2
  <2>3. CASE ~VoidDraw
    <3>1. UNCHANGED draw /\ late' = late \cup {c} BY <1>12, <2>3 DEF Withdraw
    <3>2. Approved' \subseteq Approved /\ Approved \subseteq Approved' \cup {c}
      BY <1>12 DEF Withdraw, Approved, CountInv, TypeOK
    <3> QED BY <2>1, <3>1, <3>2 DEF DrawInv, Outside, Made, draw, NoMoreHold
  <2> QED BY <2>2, <2>3
<1>14. CASE StartLeague
  <2>1. UNCHANGED <<draw, late>> /\ NoMoreHold /\ Approved' = Approved
        /\ status' = "LEAGUE_IN_PROGRESS"
    BY <1>3, <1>14 DEF StartLeague, Approved
  <2> QED BY <2>1 DEF DrawInv, Outside, Made, draw, NoMoreHold
<1>15. CASE drawing = Idle /\ SetFormat BY <1>1, <1>15 DEF SetFormat
<1> QED BY <1>6, <1>7, <1>8, <1>9, <1>10, <1>11, <1>12, <1>14, <1>15, DrawInvTakePlace,
        DrawInvHolders, DrawInvDraws DEF Next, Entrants, Organizer, Step

\* The draw is the teams that take part, and those that left since the start; missing
\* are only those whose registration overlapped the draw.  Whatever crosses, for any
\* number of registrations in flight.
THEOREM DrawStaysCurrent == Spec => []DrawCurrent
<1>1. Init => CountInv /\ DrawInv BY CountInvInit DEF Init, DrawInv, Outside
<1>2. (CountInv /\ DrawInv) /\ [Next]_vars => (CountInv /\ DrawInv)'
  <2>1. ASSUME DrawInv, UNCHANGED vars PROVE DrawInv'
    BY <2>1 DEF vars, draw, DrawInv, Outside, Made, Approved, HoldsPlace
  <2> QED BY <2>1, CountInvNext, DrawInvNext
<1>3. DrawInv => DrawCurrent BY DEF DrawInv, Outside, Made, Idle, DrawCurrent
<1> QED BY <1>1, <1>2, <1>3, PTL DEF Spec

==============================================================================
