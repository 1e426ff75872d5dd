--------------------------- MODULE KnockoutBracket ---------------------------
(***************************************************************************)
(* The knockout phase of one tournament, from the bracket an organizer     *)
(* starts to its placements (tournaments/tournament-phases.service.ts).    *)
(*                                                                         *)
(* A handler is a list of steps still to do: deciding a tie saves the      *)
(* match, places its winner in the next one and its loser in the match for *)
(* the third place, lets a withdrawn team lose a tie that has become       *)
(* ready, which decides that tie in turn, and at last looks whether the    *)
(* tournament is over.  Steps of several requests interleave.              *)
(***************************************************************************)
EXTENDS Integers, Sequences, FiniteSets, SequencesExt

CONSTANTS
  Team,        \* registrations in the tournament
  Setup,       \* the brackets that may be started, with their format and the
               \* bounds on requests in flight and on withdrawals
  Score,       \* the scores that are recorded, home goals first
  Absent,      \* the sides that may fail to show up
  Slot,        \* requests in flight
  Apart,       \* requests in flight are about different teams
  Null

ForfeitScore == 3

ASSUME KnockoutAssumption ==
  /\ \A st \in Setup :
       /\ st.slots \in Seq(Team \cup {Null})
       /\ st.rounds \in 1..4 /\ Len(st.slots) = 2 ^ st.rounds
       /\ st.legs \in {1, 2} /\ st.third \in BOOLEAN
       /\ st.requests \in Nat /\ st.withdrawals \in Nat
       \* seedBracket and validateBracketOrder place each team once and pair no byes
       /\ \A i, j \in 1..Len(st.slots) :
            (i # j /\ st.slots[i] = st.slots[j]) =>
              /\ st.slots[i] = Null
              /\ (i + 1) \div 2 # (j + 1) \div 2
  /\ Score \subseteq Nat \X Nat /\ Absent \subseteq {"home", "away"}
  /\ Apart \in BOOLEAN
  /\ Null \notin Team

VARIABLES
  setup,      \* the bracket's positions, legs per tie, and whether third is played
  match,      \* the TournamentMatch rows of the phase
  withdrawn,  \* teams whose registration is WITHDRAWN
  phase,      \* the KNOCKOUT phase's status
  status,     \* the tournament's status
  placements, \* <<place, team>> pairs on the tournament
  request     \* per slot: the teams it concerns and the steps it has to do

vars == <<setup, match, withdrawn, phase, status, placements, request>>

Other(side) == IF side = "home" THEN "away" ELSE "home"

------------------------------------------------------------------------------
(* The bracket's shape (persistBracket)                                    *)
(*                                                                         *)
(* A match is <<round, slot, leg>>.  The match for the third place forms a *)
(* round of its own after the final.                                       *)

Rounds == setup.rounds
Final == <<Rounds, 1, 1>>
ThirdMatch == <<Rounds + 1, 1, 1>>

Pair(n) == <<setup.slots[2 * n - 1], setup.slots[2 * n]>>
HasBye(tie) == tie[1] = 1 /\ Null \in Range(Pair(tie[2]))

\* The rows to create: a tie of two legs is two of them, the final, the match
\* for third and a bye are always one.
Ties == {t \in (1..Rounds) \X (1..Len(setup.slots)) : t[2] <= 2 ^ (Rounds - t[1])}
FirstLegs == {<<tie[1], tie[2], 1>> : tie \in Ties}
SecondLegs ==
  {<<tie[1], tie[2], 2>> :
     tie \in {x \in Ties : setup.legs = 2 /\ x[1] < Rounds /\ ~HasBye(x)}}
ThirdPlace == IF setup.third /\ Rounds >= 2 THEN {ThirdMatch} ELSE {}

Match == DOMAIN match
WithThird == ThirdMatch \in Match
TieOf(m) == <<m[1], m[2]>>
FirstLeg(m) == <<m[1], m[2], 1>>
SecondLeg(m) == <<m[1], m[2], 2>>
FirstOfTwo(m) == m[3] = 1 /\ SecondLeg(m) \in Match

\* Where a tie's winner and its loser go on; the row that decides the tie, its
\* only or its second leg, carries both.
SideFor(n) == IF n % 2 = 1 THEN "home" ELSE "away"
WinnerTo(m) ==
  IF m[1] < Rounds
  THEN {[on |-> <<m[1] + 1, (m[2] + 1) \div 2, 1>>, side |-> SideFor(m[2])]}
  ELSE {}
LoserTo(m) ==
  IF WithThird /\ m[1] = Rounds - 1
  THEN {[on |-> ThirdMatch, side |-> SideFor(m[2])]}
  ELSE {}

Unplayed(home, away) ==
  [home |-> home, away |-> away, status |-> "SCHEDULED", isBye |-> FALSE,
   homeGoals |-> Null, awayGoals |-> Null, forfeit |-> Null, winner |-> Null]

Free(n) == CHOOSE x \in Range(Pair(n)) : x # Null
Bye(x) == [Unplayed(x, Null) EXCEPT !.isBye = TRUE, !.status = "COMPLETED", !.winner = x]

\* Mutant: a bye's team has to be advanced by somebody.
EntrantByHand(r, n) == Null

\* A bye's team goes straight to round two.
Entrant(r, n) ==
  IF r = 2 /\ HasBye(<<1, n>>) THEN Free(n) ELSE Null

FreshMatch(m) ==
  LET home == IF m[1] = 1 THEN Pair(m[2])[1] ELSE Entrant(m[1], 2 * m[2] - 1)
      away == IF m[1] = 1 THEN Pair(m[2])[2] ELSE Entrant(m[1], 2 * m[2])
  IN CASE HasBye(TieOf(m)) -> Bye(Free(m[2]))
       [] m[1] > Rounds -> Unplayed(Null, Null)
       [] m[3] = 2 -> Unplayed(away, home)
       [] OTHER -> Unplayed(home, away)

Idle == [on |-> {}, todo |-> <<>>]

Init ==
  /\ setup \in Setup
  /\ match = [m \in FirstLegs \cup SecondLegs \cup ThirdPlace |-> FreshMatch(m)]
  /\ withdrawn = {}
  /\ phase = "IN_PROGRESS"
  /\ status = "KNOCKOUT_IN_PROGRESS"
  /\ placements = {}
  /\ request = [s \in Slot |-> Idle]

------------------------------------------------------------------------------
(* Steps                                                                   *)

TeamsOf(m) == {match[m].home, match[m].away}
Ready(m) == match[m].status = "SCHEDULED" /\ Null \notin TeamsOf(m)
Decided(m) == match[m].winner # Null

Begin(s, who, steps) ==
  /\ request[s] = Idle
  /\ Cardinality({t \in Slot : request[t] # Idle}) < setup.requests
  /\ Apart => \A t \in Slot : request[t].on \cap who = {}
  /\ request' = [request EXCEPT ![s] = [on |-> who, todo |-> steps]]
  /\ UNCHANGED <<setup, match, withdrawn, phase, status, placements>>

Next1(s) == request[s].todo[1]
AtStep(s, do) == request[s].todo # <<>> /\ Next1(s).do = do

\* The step in hand gives way to others; a request with nothing left is over.
Then(s, steps) ==
  LET todo == steps \o Tail(request[s].todo) IN
  request' = [request EXCEPT ![s] = IF todo = <<>> THEN Idle ELSE [@ EXCEPT !.todo = todo]]

\* A row to save, with the tie's winner and loser if it decides the tie.  Both
\* are taken from the row as it was read.
Result(m, home, away, forfeit) ==
  [do |-> "save", on |-> m, homeGoals |-> home, awayGoals |-> away,
   forfeit |-> forfeit, winner |-> Null, loser |-> Null]
Deciding(m, home, away, forfeit, side) ==
  [Result(m, home, away, forfeit) EXCEPT
     !.winner = match[m][side], !.loser = match[m][Other(side)]]

\* The side that forfeits loses 3-0.
HomeForfeit(forfeit) == IF forfeit = "home" THEN 0 ELSE ForfeitScore
AwayForfeit(forfeit) == IF forfeit = "away" THEN 0 ELSE ForfeitScore

\* Advancing places the team and lets a withdrawn one lose the tie.
Advance(goals, x) ==
  IF goals = {} THEN <<>>
  ELSE LET g == CHOOSE g \in goals : TRUE IN
       <<[do |-> "place", on |-> g.on, side |-> g.side, team |-> x],
         [do |-> "check", on |-> g.on]>>

\* The row with its result (decideTie).
SavedRow(row, r) ==
  [row EXCEPT !.homeGoals = r.homeGoals, !.awayGoals = r.awayGoals,
              !.forfeit = r.forfeit, !.status = "COMPLETED",
              !.winner = IF r.winner # Null THEN r.winner ELSE @]

SaveMatch(s) ==
  /\ AtStep(s, "save")
  /\ LET r == Next1(s) IN
        /\ match' = [match EXCEPT ![r.on] = SavedRow(@, r)]
        /\ Then(s, IF r.winner # Null
                   THEN Advance(WinnerTo(r.on), r.winner) \o
                        Advance(LoserTo(r.on), r.loser) \o <<[do |-> "after"]>>
                   ELSE <<>>)
  /\ UNCHANGED <<setup, withdrawn, phase, status, placements>>

\* Mutant: leg 2 does not learn who has come.
PlaceInFirstLeg(s) ==
  /\ AtStep(s, "place")
  /\ match' = [match EXCEPT ![Next1(s).on][Next1(s).side] = Next1(s).team]
  /\ Then(s, <<>>)
  /\ UNCHANGED <<setup, withdrawn, phase, status, placements>>

\* A two-legged tie gets the team on the other side in leg 2.
PlaceTeam(s) ==
  /\ AtStep(s, "place")
  /\ LET p == Next1(s) IN
       match' = [m \in Match |->
         IF m = p.on THEN [match[m] EXCEPT ![p.side] = p.team]
         ELSE IF FirstOfTwo(p.on) /\ m = SecondLeg(p.on)
         THEN [match[m] EXCEPT ![Other(p.side)] = p.team]
         ELSE match[m]]
  /\ Then(s, <<>>)
  /\ UNCHANGED <<setup, withdrawn, phase, status, placements>>

\* A withdrawn team in a ready tie loses it; when both have withdrawn, the one
\* the database lists first.
Walkover(m, side) ==
  IF FirstOfTwo(m)
  THEN <<Result(m, HomeForfeit(side), AwayForfeit(side), side),
         Deciding(SecondLeg(m), HomeForfeit(Other(side)), AwayForfeit(Other(side)),
                  Other(side), side)>>
  ELSE <<Deciding(m, HomeForfeit(side), AwayForfeit(side), side, Other(side))>>

\* Mutant: a withdrawn team that was waiting for its opponent is overlooked.
CheckHomeOnly(s) ==
  /\ AtStep(s, "check")
  /\ LET m == Next1(s).on IN
       IF Ready(m) /\ match[m].home \in withdrawn
       THEN Then(s, Walkover(m, "home"))
       ELSE Then(s, <<>>)
  /\ UNCHANGED <<setup, match, withdrawn, phase, status, placements>>

MaybeWalkover(s) ==
  /\ AtStep(s, "check")
  /\ LET m == Next1(s).on IN
       IF Ready(m) /\ TeamsOf(m) \cap withdrawn # {}
       THEN \E side \in {"home", "away"} :
              /\ match[m][side] \in withdrawn
              /\ Then(s, Walkover(m, side))
       ELSE Then(s, <<>>)
  /\ UNCHANGED <<setup, match, withdrawn, phase, status, placements>>

------------------------------------------------------------------------------
(* The end                                                                 *)

LoserOf(m) ==
  IF match[m].home = match[m].winner THEN match[m].away ELSE match[m].home

Semis == {m \in Match : m[1] = Rounds - 1 /\ Decided(m) /\ ~match[m].isBye}

\* Without a match for it, both losers of the semi-finals share the third place.
Placing ==
  {<<1, match[Final].winner>>, <<2, LoserOf(Final)>>} \cup
  (IF WithThird
   THEN {<<3, match[ThirdMatch].winner>>, <<4, LoserOf(ThirdMatch)>>}
   ELSE {<<3, LoserOf(m)>> : m \in Semis})

AllDecided == Decided(Final) /\ (WithThird => Decided(ThirdMatch))

LookForEnd(s) ==
  /\ AtStep(s, "after")
  /\ Then(s, IF AllDecided THEN <<[do |-> "complete", with |-> Placing]>> ELSE <<>>)
  /\ UNCHANGED <<setup, match, withdrawn, phase, status, placements>>

\* Mutant: corrections after the end do not reach the placements.
CompleteOnce(s) ==
  /\ AtStep(s, "complete")
  /\ phase' = "COMPLETED"
  /\ IF status = "KNOCKOUT_IN_PROGRESS"
     THEN status' = "COMPLETED" /\ placements' = Next1(s).with
     ELSE UNCHANGED <<status, placements>>
  /\ Then(s, <<>>)
  /\ UNCHANGED <<setup, match, withdrawn>>

Complete(s) ==
  /\ AtStep(s, "complete")
  /\ phase' = "COMPLETED"
  /\ IF status \in {"KNOCKOUT_IN_PROGRESS", "COMPLETED"}
     THEN status' = "COMPLETED" /\ placements' = Next1(s).with
     ELSE UNCHANGED <<status, placements>>
  /\ Then(s, <<>>)
  /\ UNCHANGED <<setup, match, withdrawn>>

------------------------------------------------------------------------------
(* Recording a result                                                      *)

\* Mutant: only the match the winner went to locks a result.
NextUnplayedForWinner(m) ==
  \A g \in WinnerTo(m) : \A leg \in Match :
    TieOf(leg) = TieOf(g.on) => match[leg].status # "COMPLETED" \/ match[leg].isBye

\* A result is locked once the match the winner or the loser went to has one.
NextUnplayed(m) ==
  \A g \in WinnerTo(m) \cup LoserTo(m) : \A leg \in Match :
    TieOf(leg) = TieOf(g.on) => match[leg].status # "COMPLETED" \/ match[leg].isBye

Recordable(m) ==
  /\ status \in {"KNOCKOUT_IN_PROGRESS", "COMPLETED"}
  /\ ~match[m].isBye /\ Null \notin TeamsOf(m)

\* Whom a result concerns: a correction, or a score for a team that has
\* withdrawn, may meet any other request.
Concerned(m) ==
  IF match[m].status = "COMPLETED" \/ TeamsOf(m) \cap withdrawn # {}
  THEN Team ELSE TeamsOf(m)

\* Goals of the home team of m and its opponent over the tie so far: leg 1 was
\* played the other way round.
Aggregate(m, goals) ==
  IF m[3] = 2
  THEN <<goals[1] + match[FirstLeg(m)].awayGoals, goals[2] + match[FirstLeg(m)].homeGoals>>
  ELSE goals

\* A draw stands in the first leg of two.
RecordFirstLeg(s, m) ==
  /\ Recordable(m) /\ FirstOfTwo(m)
  /\ match[SecondLeg(m)].status # "COMPLETED"
  /\ \/ \E goals \in Score :
          Begin(s, Concerned(m), <<Result(m, goals[1], goals[2], Null)>>)
     \/ \E side \in Absent :
          Begin(s, Concerned(m), <<Result(m, HomeForfeit(side), AwayForfeit(side), side)>>)

MayDecide(m) ==
  /\ Recordable(m) /\ ~FirstOfTwo(m)
  /\ m[3] = 2 => match[FirstLeg(m)].status = "COMPLETED"
  /\ NextUnplayed(m)

\* Penalties name the winner of a level score, and only of one.
RecordScore(s, m) ==
  /\ MayDecide(m)
  /\ \E goals \in Score, side \in {"home", "away"} :
       LET total == Aggregate(m, goals) IN
       /\ total[1] > total[2] => side = "home"
       /\ total[1] < total[2] => side = "away"
       /\ Begin(s, Concerned(m), <<Deciding(m, goals[1], goals[2], Null, side)>>)

RecordForfeit(s, m) ==
  /\ MayDecide(m)
  /\ \E side \in Absent :
       Begin(s, Concerned(m),
             <<Deciding(m, HomeForfeit(side), AwayForfeit(side), side, Other(side))>>)

------------------------------------------------------------------------------
(* Withdrawing a team, cancelling                                          *)

\* Whom a withdrawal concerns: the team and those it meets or has met.
Opponents(x) == UNION {TeamsOf(m) : m \in {k \in Match : x \in TeamsOf(k)}} \ {Null}

\* (The bound counts the withdrawals under way.)
Withdrawing(t) == AtStep(t, "withdraw")
WithdrawRead(s, x) ==
  /\ status = "KNOCKOUT_IN_PROGRESS"
  /\ x \notin withdrawn
  /\ Cardinality(withdrawn) + Cardinality({t \in Slot : Withdrawing(t)}) < setup.withdrawals
  /\ Begin(s, Opponents(x) \cup {x}, <<[do |-> "withdraw", team |-> x]>>)

WithdrawTeam(s) ==
  /\ AtStep(s, "withdraw")
  /\ withdrawn' = withdrawn \cup {Next1(s).team}
  /\ Then(s, <<[do |-> "pending", team |-> Next1(s).team]>>)
  /\ UNCHANGED <<setup, match, phase, status, placements>>

FindPending(s) ==
  /\ AtStep(s, "pending")
  /\ \E ms \in SetToSeqs({m \in Match : Ready(m) /\ Next1(s).team \in TeamsOf(m)}) :
       Then(s, [i \in DOMAIN ms |-> [do |-> "check", on |-> ms[i]]])
  /\ UNCHANGED <<setup, match, withdrawn, phase, status, placements>>

Cancel ==
  /\ status = "KNOCKOUT_IN_PROGRESS"
  /\ status' = "CANCELLED"
  /\ UNCHANGED <<setup, match, withdrawn, phase, placements, request>>

------------------------------------------------------------------------------

Step(s) ==
  \/ SaveMatch(s) \/ PlaceTeam(s) \/ MaybeWalkover(s)
  \/ LookForEnd(s) \/ Complete(s)
  \/ WithdrawTeam(s) \/ FindPending(s)

Next ==
  \/ \E s \in Slot :
       \/ Step(s)
       \/ \E m \in Match : RecordFirstLeg(s, m) \/ RecordScore(s, m) \/ RecordForfeit(s, m)
       \/ \E x \in Team : WithdrawRead(s, x)
  \/ Cancel

\* A request that was accepted is carried through; nobody has to make one.
Spec == Init /\ [][Next]_vars /\ \A s \in Slot : WF_vars(Step(s))

------------------------------------------------------------------------------
(* Types *)

MatchRow ==
  [home : Team \cup {Null}, away : Team \cup {Null},
   status : {"SCHEDULED", "COMPLETED"}, isBye : BOOLEAN,
   homeGoals : Nat \cup {Null}, awayGoals : Nat \cup {Null},
   forfeit : {"home", "away", Null}, winner : Team \cup {Null}]

\* Every record has the fields of its row: a match keeps its two places and one
\* winner of theirs through edits, walkovers and placings in any order.
TypeOK ==
  /\ setup \in Setup
  /\ \A m \in Match : match[m] \in MatchRow
  /\ \A m \in Match : Decided(m) => match[m].winner \in TeamsOf(m)
  /\ withdrawn \subseteq Team
  /\ phase \in {"IN_PROGRESS", "COMPLETED"}
  /\ status \in {"KNOCKOUT_IN_PROGRESS", "COMPLETED", "CANCELLED"}
  /\ placements \subseteq (1..4) \X Team

------------------------------------------------------------------------------
(* Properties                                                              *)

Quiet == \A s \in Slot : request[s] = Idle

In(m, side, x) ==
  /\ match[m][side] = x
  /\ FirstOfTwo(m) => match[SecondLeg(m)][Other(side)] = x

\* decideTie "moves the winner (and a semi-final loser) on": between requests,
\* who has won a tie is in the next one, in both its legs and on the right
\* sides, and who has lost a semi-final is in the match for third, also after
\* results were corrected and walkovers given; and every match keeps the fields
\* of its row, its winner one of its two teams.
WinnersAdvance ==
  /\ TypeOK
  /\ Quiet => \A m \in Match : Decided(m) =>
       /\ \A g \in WinnerTo(m) : In(g.on, g.side, match[m].winner)
       /\ \A g \in LoserTo(m) : ~match[m].isBye => In(g.on, g.side, LoserOf(m))

\* assertNextUnplayed: "A result is locked once the match the winner (or loser)
\* went to has one."  No request changes a result below a played match; nor is
\* a cancelled tournament completed by the requests that were still under way
\* (setStatus).
Locked(m) ==
  /\ Decided(m) /\ ~match[m].isBye
  /\ \E g \in WinnerTo(m) \cup LoserTo(m) :
       \/ match[g.on].status = "COMPLETED"
       \/ FirstOfTwo(g.on) /\ match[SecondLeg(g.on)].status = "COMPLETED"
CancelledStays == status = "CANCELLED" => status' = status /\ placements' = placements
ResultsLocked ==
  [][CancelledStays /\ \A m \in Match : Locked(m) => match'[m] = match[m]]_vars

\* maybeWalkover: "A withdrawn team in a ready knockout tie loses it by
\* walkover."  Withdrawing and filling a tie each look for the other: whichever
\* comes last finds the team, and the tie is decided without the organizer.
Stranded(x) == x \in withdrawn /\ \E m \in Match : Ready(m) /\ x \in TeamsOf(m)
WalkoverComes == []<>(\A x \in Team : ~Stranded(x))

\* afterKnockoutResult: a tournament whose last matches are decided is over, and
\* its placements are those of the matches, after the last correction too.
PlacementsCurrent ==
  (Quiet /\ status # "CANCELLED") =>
    /\ status = "COMPLETED" <=> Decided(Final) /\ (WithThird => Decided(ThirdMatch))
    /\ status = "COMPLETED" => placements = Placing

\* "Final (and third-place match) decided -> COMPLETED": while the tournament
\* goes on there is a match left to play that leads there.
SomethingToPlay ==
  (Quiet /\ status = "KNOCKOUT_IN_PROGRESS") => \E m \in Match : Ready(m)

=============================================================================
