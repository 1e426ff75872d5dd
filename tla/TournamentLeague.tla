-------------------------- MODULE TournamentLeague --------------------------
(***************************************************************************)
(* A tournament's league, from its draw to the start of the knockout       *)
(* (tournaments/tournament-phases.service.ts): draw, fixtures, results,    *)
(* withdrawals, the end of the league, ties and the organizer's rulings,   *)
(* qualification, and the bracket it seeds.  The rules are those of        *)
(* TournamentEngine; TournamentEntry has what comes before, KnockoutBracket *)
(* what comes after.                                                       *)
(*                                                                         *)
(* A result in flight goes through saving the match, reading its group,    *)
(* caching the standings, looking for the end of the league and running    *)
(* the qualification, each a step of its own.                              *)
(***************************************************************************)
EXTENDS TournamentEngine

CONSTANTS
  Settings,        \* the leagues considered
  Scores,          \* what matches may end with
  Slot,            \* requests in flight (a bound)
  InOrder,         \* matches are played in the order of the fixtures
  MaxMatches,      \* longer leagues are not started (a bound)
  MaxEdits,        \* results changed, leagues restructured (a bound)
  MaxWithdrawals,  \* teams that withdraw (a bound)
  Layouts,         \* brackets laid out by hand, by seed
  Seedings         \* seedings changed to in review

ASSUME LeagueAssumption ==
  /\ IsFiniteSet(Slot) /\ InOrder \in BOOLEAN
  /\ {MaxMatches, MaxEdits, MaxWithdrawals} \subseteq Nat
  /\ \A s \in Settings : ValidSettings(s, Len(s.club))

VARIABLES
  settings,    \* Tournament.format and settings
  status,      \* Tournament.status
  league,      \* status of the LEAGUE phase
  knockout,    \* status of the KNOCKOUT phase
  groups,      \* LeagueGroupTeam rows, by group and draw order
  match,       \* TournamentMatch rows of the league, by sequence
  standings,   \* LeagueGroup.standings
  withdrawn,   \* teams whose registration is WITHDRAWN
  rulings,     \* Tournament.tieResolutions
  qualified,   \* QualificationResult rows, by seed
  bracket,     \* teams of the first round by position, none when not built
  confirmed,   \* whether bracketConfirmedAt is set
  placements,  \* Tournament.placements of a league without knockout
  edits,       \* results changed and leagues restructured so far
  request      \* per slot, what a request still has to do

vars == <<settings, status, league, knockout, groups, match, standings, withdrawn,
          rulings, qualified, bracket, confirmed, placements, edits, request>>
review == <<qualified, bracket, confirmed>>
setup == <<settings, groups, knockout>>

Teams == DOMAIN settings.club
Approved == Teams \ withdrawn
Group == DOMAIN groups
Rules == [points |-> settings.points, tiebreakers |-> settings.tiebreakers]

Idle == [step |-> "idle"]
Active == {s \in Slot : request[s] # Idle}
At(s, step) == request[s].step = step
Finish(s) == request' = [request EXCEPT ![s] = Idle]
Requalify == [step |-> "qualify", new |-> FALSE, status |-> "QUALIFICATION_REVIEW"]

Unplayed == [homeGoals |-> 0, awayGoals |-> 0, homeCards |-> 0, awayCards |-> 0]
Forfeit(side) == [Unplayed EXCEPT !.homeGoals = IF side = "HOME" THEN 0 ELSE 3,
                                  !.awayGoals = IF side = "HOME" THEN 3 ELSE 0]

Init ==
  /\ settings \in Settings
  /\ status = "REGISTRATION_CLOSED" /\ league = "PENDING" /\ knockout = "PENDING"
  /\ groups = <<>> /\ match = <<>> /\ standings = <<>>
  /\ withdrawn = {} /\ rulings = <<>>
  /\ qualified = <<>> /\ bracket = <<>> /\ confirmed = FALSE /\ placements = <<>>
  /\ edits = 0
  /\ request = [s \in Slot |-> Idle]

------------------------------------------------------------------------------
(* The table of a group *)

Of(g) == {i \in DOMAIN match : match[i].group = g}
Plays(i, t) == t \in {match[i].home, match[i].away}
\* Mutant: a match that will not be played is waited for.
PendingWithVoid == {i \in DOMAIN match : match[i].status # "COMPLETED"}

Pending == {i \in DOMAIN match : match[i].status = "SCHEDULED"}

Result(m) ==
  [home |-> m.home, away |-> m.away,
   homeGoals |-> m.score.homeGoals, awayGoals |-> m.score.awayGoals,
   homeCards |-> m.score.homeCards, awayCards |-> m.score.awayCards]

Results(g) == {Result(match[i]) : i \in {j \in Of(g) : match[j].status = "COMPLETED"}}

\* A withdrawn team whose results were all removed leaves the table.
Live(g) ==
  {t \in ToSet(groups[g]) : t \in withdrawn =>
     \E i \in Of(g) : Plays(i, t) /\ match[i].status # "VOID"}

NoTable == [row |-> <<>>, blocks |-> <<>>]

Blocks(g, known) == ComputeStandings(Live(g), Results(g), Rules, known)

\* What is cached: the tallies and the order.
Table(g, known) ==
  [row |-> [t \in Live(g) |-> Tally(t, Results(g), settings.points)],
   blocks |-> Blocks(g, known)]

\* What qualification goes by: withdrawn teams are no longer ranked.
StateOf(g, order, blocks) ==
  [ranked |-> SelectSeq(FinishBlocks(blocks, order), LAMBDA t : t \notin withdrawn),
   results |-> Results(g),
   ties |-> Ties(blocks)]

\* With the teams of each group in the order drawn.
GroupStates(drawn, known) ==
  FoldLeft(LAMBDA states, g : Append(states, StateOf(g, drawn[g], Blocks(g, known))),
           <<>>, [g \in Group |-> g])

QualificationFor(drawn, known) ==
  Qualify(GroupStates(drawn, known), settings.qualifyPerGroup, settings.bestOfRest,
          settings.seeding, Rules, known)

QualificationState(known) == QualificationFor(groups, known)

\* Of a league without knockout: the top three.
PerGroup(states) ==
  Min({(3 + Len(states) - 1) \div Len(states)}
        \cup {Len(states[g].ranked) : g \in DOMAIN states})

TopOf(states, known) == Qualify(states, PerGroup(states), 0, "CROSS_GROUP", Rules, known)

LeagueOnlyState(known) == TopOf(GroupStates(groups, known), known)

Outcome(known) ==
  IF settings.format = "LEAGUE" THEN LeagueOnlyState(known) ELSE QualificationState(known)

------------------------------------------------------------------------------
(* The organizer's requests that run alone *)

Alone == Active = {}

\* The groups drawn: by hand, at random or from pots.  Every group has two teams.
Drawn ==
  LET count == settings.groupCount
  IN CASE settings.groupDraw = "MANUAL" -> {settings.groups}
       [] settings.groupDraw = "RANDOM" ->
            UNION {RandomDraw(teams, count, settings.separate, settings.club) :
                     teams \in settings.shuffles}
       [] settings.groupDraw = "SEEDED" ->
            SeededDraw(settings.pots, count, settings.separate, settings.club)

Draw ==
  /\ Alone /\ status = "REGISTRATION_CLOSED"
  /\ settings.groupCount * 2 <= Cardinality(Approved)
  /\ settings.groupDraw = "SEEDED" => IsPartition(settings.pots, Approved)
  /\ \E drawn \in Drawn :
       /\ IsPartition(drawn, Approved)
       /\ \A g \in DOMAIN drawn : Len(drawn[g]) >= 2
       /\ groups' = drawn
       /\ standings' = [g \in DOMAIN drawn |-> NoTable]
  /\ match' = <<>>
  /\ qualified' = <<>> /\ bracket' = <<>> /\ confirmed' = FALSE
  /\ league' = "PENDING" /\ knockout' = "PENDING"
  /\ UNCHANGED <<settings, status, withdrawn, rulings, placements, edits, request>>

FixturesOf(g) ==
  LET robin == RoundRobin(groups[g], settings.double)
  IN [i \in DOMAIN robin |->
        [group |-> g, matchday |-> robin[i].matchday,
         home |-> robin[i].home, away |-> robin[i].away]]

GenerateFixtures ==
  /\ Alone /\ status = "REGISTRATION_CLOSED" /\ groups # <<>>
  /\ LET fixtures == OrderForRest(FlattenSeq([g \in Group |-> FixturesOf(g)]))
     IN match' = [i \in DOMAIN fixtures |->
          [group |-> fixtures[i].group, matchday |-> fixtures[i].matchday,
           home |-> fixtures[i].home, away |-> fixtures[i].away,
           status |-> "SCHEDULED", score |-> Unplayed]]
  /\ UNCHANGED <<setup, status, league, withdrawn, rulings, review, placements,
                 edits, request>>
  /\ standings' = [g \in Group |-> Table(g, rulings)']

StartLeague ==
  /\ Alone /\ status = "REGISTRATION_CLOSED"
  /\ match # <<>> /\ Len(match) <= MaxMatches
  /\ status' = "LEAGUE_IN_PROGRESS" /\ league' = "IN_PROGRESS"
  /\ UNCHANGED <<setup, match, standings, withdrawn, rulings, review, placements,
                 edits, request>>

------------------------------------------------------------------------------
(* Qualification *)

TeamsAt(slots, seeds) ==
  [i \in DOMAIN slots |-> IF slots[i] = 0 THEN Null ELSE seeds[slots[i]].team]

\* The brackets that may be built from these seeds, by position.
Brackets(seeds, seeding) ==
  IF seeding = "RANDOM_DRAW"
  THEN {TeamsAt(SeedBracket(order, FALSE), order) :
          order \in {[i \in DOMAIN seeds |-> seeds[p[i]]] : p \in SetToSeqs(DOMAIN seeds)}}
  ELSE {TeamsAt(SeedBracket(seeds, seeding = "CROSS_GROUP"), seeds)}

\* Stores who qualified and drops the bracket; proposes a new one unless a tie is
\* open or the organizer seeds by hand.
RunQualification(out, seeding) ==
  /\ qualified' = out.qualifiers
  /\ bracket' \in IF out.ties = {} /\ seeding # "MANUAL"
                  THEN Brackets(out.qualifiers, seeding) ELSE {<<>>}
  /\ confirmed' = FALSE

TopThree(out) == SubSeq(out.qualifiers, 1, Min({3, Len(out.qualifiers)}))

\* Mutant: a tie opened by a change leaves a completed league completed.
CompleteLeagueOnce(out, loaded) ==
  IF out.ties = {} /\ status \in {"LEAGUE_IN_PROGRESS", "COMPLETED"}
  THEN /\ status' = "COMPLETED"
       /\ placements' = TopThree(out)
  ELSE UNCHANGED <<status, placements>>

\* The top three are placed unless a tie among them is open, which a change after
\* completion may bring; loaded is the status the request went by.
CompleteLeagueOnly(out, loaded) ==
  CASE out.ties = {} /\ status \in {"LEAGUE_IN_PROGRESS", "COMPLETED"} ->
         /\ status' = "COMPLETED"
         /\ placements' = TopThree(out)
    [] out.ties # {} /\ loaded = "COMPLETED" /\ status = "COMPLETED" ->
         status' = "LEAGUE_IN_PROGRESS" /\ placements' = <<>>
    [] OTHER -> UNCHANGED <<status, placements>>

------------------------------------------------------------------------------
(* Results (saveResult, refreshGroup, afterLeagueResult) *)

Editable ==
  {"LEAGUE_IN_PROGRESS", "QUALIFICATION_REVIEW"}
    \cup (IF settings.format = "LEAGUE" THEN {"COMPLETED"} ELSE {})

\* New results of different matches may overlap; one that changes a result runs
\* alone.  A result always gives the cards.
LoadMatch(s, i, score) ==
  /\ request[s] = Idle
  /\ match[i].status # "VOID" /\ status \in Editable
  /\ InOrder => \A j \in 1..i - 1 : match[j].status # "SCHEDULED"
  /\ IF match[i].status = "SCHEDULED"
     THEN /\ \A r \in Active : request[r].new /\ ~(At(r, "save") /\ request[r].match = i)
          /\ UNCHANGED edits
     ELSE Alone /\ edits < MaxEdits /\ edits' = edits + 1
  /\ request' = [request EXCEPT ![s] =
       [step |-> "save", match |-> i, score |-> score,
        new |-> match[i].status = "SCHEDULED", status |-> status]]
  /\ UNCHANGED <<setup, status, league, match, standings, withdrawn, rulings, review,
                 placements>>

SaveMatch(s) ==
  /\ At(s, "save")
  /\ match' = [match EXCEPT ![request[s].match].score = request[s].score,
                            ![request[s].match].status = "COMPLETED"]
  /\ request' = [request EXCEPT ![s] =
       [step |-> "read", group |-> match[@.match].group, new |-> @.new,
        status |-> @.status]]
  /\ UNCHANGED <<setup, status, league, standings, withdrawn, rulings, review,
                 placements, edits>>

ReadGroup(s) ==
  /\ At(s, "read")
  /\ request' = [request EXCEPT ![s] =
       [step |-> "cache", group |-> @.group, table |-> Table(@.group, rulings),
        new |-> @.new, status |-> @.status]]
  /\ UNCHANGED <<setup, status, league, match, standings, withdrawn, rulings, review,
                 placements, edits>>

CacheStandings(s) ==
  /\ At(s, "cache")
  /\ standings' = [standings EXCEPT ![request[s].group] = request[s].table]
  /\ request' = [request EXCEPT ![s] =
       [step |-> "after", new |-> @.new, status |-> @.status]]
  /\ UNCHANGED <<setup, status, league, match, withdrawn, rulings, review, placements,
                 edits>>

GoOn(s) == request' = [request EXCEPT ![s].step = "qualify"]

\* Mutant: whoever sees the end of the league moves it on, whatever it is by now.
EndOfLeagueUnchecked(s) ==
  /\ At(s, "after")
  /\ IF Pending # {} THEN Finish(s) /\ UNCHANGED <<status, league, placements>>
     ELSE /\ league' = "COMPLETED"
          /\ IF settings.format = "LEAGUE"
             THEN /\ CompleteLeagueOnly(LeagueOnlyState(rulings), request[s].status)
                  /\ Finish(s)
             ELSE status' = "QUALIFICATION_REVIEW" /\ GoOn(s) /\ UNCHANGED placements
  /\ UNCHANGED <<setup, match, standings, withdrawn, rulings, review, edits>>

\* With nothing left to play a league without knockout completes.  One with it
\* moves to the review, once, and a result changed in review qualifies anew.
EndOfLeague(s) ==
  LET loaded == request[s].status
      Review ==
        /\ UNCHANGED placements
        /\ CASE loaded = "LEAGUE_IN_PROGRESS" /\ status = loaded ->
                  status' = "QUALIFICATION_REVIEW" /\ GoOn(s)
             [] loaded = "QUALIFICATION_REVIEW" -> UNCHANGED status /\ GoOn(s)
             [] OTHER -> UNCHANGED status /\ Finish(s)
  IN /\ At(s, "after")
     /\ IF Pending # {} THEN Finish(s) /\ UNCHANGED <<status, league, placements>>
        ELSE /\ league' = "COMPLETED"
             /\ IF settings.format = "LEAGUE"
                THEN CompleteLeagueOnly(LeagueOnlyState(rulings), loaded) /\ Finish(s)
                ELSE Review
     /\ UNCHANGED <<setup, match, standings, withdrawn, rulings, review, edits>>

ReviewResults(s) ==
  /\ At(s, "qualify")
  /\ RunQualification(QualificationState(rulings), settings.seeding)
  /\ Finish(s)
  /\ UNCHANGED <<setup, status, league, match, standings, withdrawn, rulings,
                 placements, edits>>

------------------------------------------------------------------------------
(* Withdrawals *)

Leaves(t) ==
  /\ t \in Approved
  /\ Cardinality(withdrawn) < MaxWithdrawals
  /\ withdrawn' = withdrawn \cup {t}

\* Under half of its matches played, all its results go; half or more, and the
\* rest are forfeited.
WithdrawFromLeague(s, t) ==
  LET own == {i \in DOMAIN match : Plays(i, t) /\ match[i].status # "VOID"}
      played == {i \in own : match[i].status = "COMPLETED"}
      few == Cardinality(played) * 2 < Cardinality(own)
      After(m) ==
        IF few THEN [m EXCEPT !.status = "VOID"]
        ELSE IF m.status = "COMPLETED" THEN m
        ELSE [m EXCEPT !.status = "COMPLETED",
                       !.score = Forfeit(IF m.home = t THEN "HOME" ELSE "AWAY")]
  IN /\ Alone /\ status = "LEAGUE_IN_PROGRESS"
     /\ Leaves(t)
     /\ match' = [i \in DOMAIN match |-> IF i \in own THEN After(match[i]) ELSE match[i]]
     /\ request' = [request EXCEPT ![s] =
          IF own = {} THEN [step |-> "after", new |-> FALSE, status |-> status]
          ELSE [step |-> "read", group |-> match[Min(own)].group, new |-> FALSE,
                status |-> status]]
     /\ UNCHANGED <<setup, status, league, standings, rulings, review, placements, edits>>

\* The next team of its group moves up.
WithdrawInReview(s, t) ==
  /\ Alone /\ status = "QUALIFICATION_REVIEW"
  /\ Leaves(t)
  /\ request' = [request EXCEPT ![s] = Requalify]
  /\ UNCHANGED <<setup, status, league, match, standings, rulings, review, placements,
                 edits>>

\* In the knockout its ties are walkovers, which KnockoutBracket has.
WithdrawInKnockout(t) ==
  /\ Alone /\ status = "KNOCKOUT_IN_PROGRESS"
  /\ Leaves(t)
  /\ UNCHANGED <<setup, status, league, match, standings, rulings, review, placements,
                 edits, request>>

------------------------------------------------------------------------------
(* Ties, bracket, status *)

MayRule ==
  /\ Alone /\ league = "COMPLETED"
  /\ \/ status = "QUALIFICATION_REVIEW"
     \/ settings.format = "LEAGUE" /\ status = "LEAGUE_IN_PROGRESS"

\* A ruling orders the teams of one open tie; tables and qualification follow.
ResolveTie(order) ==
  LET known == Append(rulings, order)
  IN /\ MayRule
     /\ ToSet(order) \in Outcome(rulings).ties
     /\ rulings' = known
     /\ IF settings.format = "LEAGUE"
        THEN CompleteLeagueOnly(LeagueOnlyState(known), status) /\ UNCHANGED review
        ELSE /\ RunQualification(QualificationState(known), settings.seeding)
             /\ UNCHANGED <<status, placements>>
     /\ standings' = [g \in Group |-> Table(g, known)]
     /\ UNCHANGED <<setup, league, match, withdrawn, edits, request>>

MayBuild ==
  /\ Alone /\ settings.format = "LEAGUE_KNOCKOUT" /\ knockout = "PENDING"
  /\ status = "QUALIFICATION_REVIEW"
  /\ QualificationState(rulings).ties = {}

\* Confirming takes the bracket that stands; without one it is built, which
\* seeding by hand refuses.
ConfirmBracket ==
  /\ MayBuild
  /\ bracket # <<>> \/ settings.seeding # "MANUAL"
  /\ bracket' \in IF bracket # <<>> THEN {bracket}
                  ELSE Brackets(qualified, settings.seeding)
  /\ confirmed' = TRUE
  /\ UNCHANGED <<setup, status, league, match, standings, withdrawn, rulings, qualified,
                 placements, edits, request>>

RebuildBracket ==
  /\ MayBuild
  /\ settings.seeding # "MANUAL"
  /\ bracket' \in Brackets(qualified, settings.seeding)
  /\ confirmed' = FALSE
  /\ UNCHANGED <<setup, status, league, match, standings, withdrawn, rulings, qualified,
                 placements, edits, request>>

LayOutBracket(slots, confirm) ==
  /\ MayBuild
  /\ ValidBracketOrder(slots, qualified)
  /\ bracket' = TeamsAt(slots, qualified)
  /\ confirmed' = confirm
  /\ UNCHANGED <<setup, status, league, match, standings, withdrawn, rulings, qualified,
                 placements, edits, request>>

StartKnockout ==
  /\ confirmed /\ MayBuild
  /\ status' = "KNOCKOUT_IN_PROGRESS" /\ knockout' = "IN_PROGRESS"
  /\ UNCHANGED <<settings, groups, league, match, standings, withdrawn, rulings, review,
                 placements, edits, request>>

\* Seeding may change until a knockout match is played, which a withdrawal from
\* the bracket is taken to do; a knockout that has started goes back to the review.
SetFormat(s, seeding) ==
  /\ Alone /\ settings.format = "LEAGUE_KNOCKOUT"
  /\ status \in {"QUALIFICATION_REVIEW", "KNOCKOUT_IN_PROGRESS"}
  /\ status = "KNOCKOUT_IN_PROGRESS" => ToSet(bracket) \cap withdrawn = {}
  /\ settings' = [settings EXCEPT !.seeding = seeding]
  /\ ValidSettings(settings', Cardinality(Approved))
  /\ status' = "QUALIFICATION_REVIEW" /\ knockout' = "PENDING"
  /\ confirmed' = (status = "QUALIFICATION_REVIEW" /\ confirmed)
  /\ bracket' = IF status = "QUALIFICATION_REVIEW" THEN bracket ELSE <<>>
  /\ request' = [request EXCEPT ![s] = Requalify]
  /\ UNCHANGED <<groups, league, match, standings, withdrawn, rulings, qualified,
                 placements, edits>>

\* A league without results goes back to before its draw; rulings stay.
Restructure ==
  /\ Alone /\ status = "LEAGUE_IN_PROGRESS" /\ edits < MaxEdits
  /\ edits' = edits + 1
  /\ \A i \in DOMAIN match : match[i].status # "COMPLETED"
  /\ ValidSettings(settings, Cardinality(Approved))
  /\ status' = "REGISTRATION_CLOSED" /\ league' = "PENDING" /\ knockout' = "PENDING"
  /\ groups' = <<>> /\ match' = <<>> /\ standings' = <<>>
  /\ qualified' = <<>> /\ bracket' = <<>> /\ confirmed' = FALSE
  /\ UNCHANGED <<settings, withdrawn, rulings, placements, request>>

\* Another request may be in flight.
Cancel ==
  /\ status \in {"LEAGUE_IN_PROGRESS", "QUALIFICATION_REVIEW", "KNOCKOUT_IN_PROGRESS"}
  /\ status' = "CANCELLED"
  /\ UNCHANGED <<setup, league, match, standings, withdrawn, rulings, review, placements,
                 edits, request>>

------------------------------------------------------------------------------

Step(s) ==
  SaveMatch(s) \/ ReadGroup(s) \/ CacheStandings(s) \/ EndOfLeague(s) \/ ReviewResults(s)

League ==
  \/ Draw \/ GenerateFixtures \/ StartLeague \/ Restructure \/ Cancel
  \/ \E s \in Slot :
       \/ Step(s)
       \/ \E i \in DOMAIN match, score \in Scores : LoadMatch(s, i, score)
       \/ \E t \in Teams : WithdrawFromLeague(s, t)

Review ==
  \/ \E t \in Teams : WithdrawInKnockout(t) \/ \E s \in Slot : WithdrawInReview(s, t)
  \/ MayRule /\ \E tie \in Outcome(rulings).ties :
                 \E order \in SetToSeqs(tie) : ResolveTie(order)
  \/ ConfirmBracket \/ RebuildBracket
  \/ \E slots \in Layouts, confirm \in BOOLEAN : LayOutBracket(slots, confirm)
  \/ StartKnockout
  \/ \E s \in Slot, seeding \in Seedings : SetFormat(s, seeding)

Next == League \/ (Alone /\ league = "COMPLETED" /\ Review)

Spec == Init /\ [][Next]_vars

------------------------------------------------------------------------------
(* Properties *)

\* Every variable keeps to its type: what a request may find in the database, a
\* league that is ranked and a bracket of qualified teams.
TypeOK ==
  /\ status \in {"REGISTRATION_CLOSED", "LEAGUE_IN_PROGRESS", "QUALIFICATION_REVIEW",
                 "KNOCKOUT_IN_PROGRESS", "COMPLETED", "CANCELLED"}
  /\ league \in {"PENDING", "IN_PROGRESS", "COMPLETED"}
  /\ knockout \in {"PENDING", "IN_PROGRESS"}
  /\ groups # <<>> => \A g \in Group : ToSet(groups[g]) \subseteq Teams
  /\ \A i \in DOMAIN match :
       /\ match[i].group \in Group
       /\ {match[i].home, match[i].away} \subseteq ToSet(groups[match[i].group])
       /\ match[i].status \in {"SCHEDULED", "COMPLETED", "VOID"}
  /\ DOMAIN standings = Group
  /\ withdrawn \subseteq Teams
  /\ \A i \in DOMAIN rulings : IsInjective(rulings[i]) /\ ToSet(rulings[i]) \subseteq Teams
  /\ ToSet(bracket) \subseteq {qualified[i].team : i \in DOMAIN qualified} \cup {Null}
  /\ confirmed \in BOOLEAN
  /\ edits \in 0..MaxEdits
  /\ \A s \in Slot :
       request[s].step \in {"idle", "save", "read", "cache", "after", "qualify"}

\* The fixtures are a round robin (generateFixtures): every two teams of a group
\* meet once, or once at each one's home; nobody has two matches on a matchday;
\* there are as many as the organizer was promised, for groups as even as drawn;
\* a match is brought forward by one matchday at most, and with several groups
\* of one size nobody plays twice in a row.
FixturesComplete ==
  LET Meetings(t, u) == {i \in DOMAIN match : match[i].home = t /\ match[i].away = u}
  IN match # <<>> /\ status = "REGISTRATION_CLOSED" =>
       /\ \A g, h \in Group : \A t \in ToSet(groups[g]) : \A u \in ToSet(groups[h]) \ {t} :
            IF g # h THEN Meetings(t, u) = {}
            ELSE IF settings.double THEN Cardinality(Meetings(t, u)) = 1
            ELSE Cardinality(Meetings(t, u) \cup Meetings(u, t)) = 1
       /\ \A i, j \in DOMAIN match :
            i < j => /\ match[i].matchday <= match[j].matchday + 1
                     /\ match[i].matchday = match[j].matchday => Rests(match[i], match[j])
       /\ settings.groupDraw = "RANDOM" =>
            Len(match) = LeaguePreview(settings, Cardinality(Approved))
       /\ Len(groups) > 1 /\ (\A g, h \in Group : Len(groups[g]) = Len(groups[h])) =>
            \A i \in DOMAIN match \ {1} : Rests(match[i], match[i - 1])

\* A draw is fair (randomDraw, seededDraw): sizes differ by one at most; clubs to
\* be kept apart are spread as evenly; a group has one team of a pot at most.
DrawSpreads ==
  LET by == settings.groupDraw
      Even(Size(_)) == \A g, h \in Group : Size(g) <= Size(h) + 1
      OfClub(c, g) == Cardinality({t \in ToSet(groups[g]) : settings.club[t] = c})
  IN groups # <<>> /\ match = <<>> =>
       /\ by = "RANDOM" \/ (by = "SEEDED" /\ ~settings.separate) =>
            Even(LAMBDA g : Len(groups[g]))
       /\ by = "RANDOM" /\ settings.separate =>
            \A c \in Range(settings.club) \ {Null} : Even(LAMBDA g : OfClub(c, g))
       /\ by = "SEEDED" =>
            \A p \in DOMAIN settings.pots, g \in Group :
              Cardinality(ToSet(settings.pots[p]) \cap ToSet(groups[g])) <= 1

\* u is above v when the first criterion that separates the teams of S, or the
\* ruling for them, says so.
Above(u, v, S, ctx) ==
  LET c == FirstCriterion(1, S, ctx)
      value == CriterionValues(ctx.tiebreakers[c], S, ctx)
      Rank(t) == SelectInSeq(ctx.rulings[Ruling(S, ctx.rulings)], LAMBDA x : x = t)
  IN IF c # 0 /\ ctx.tiebreakers[c] # "LOTS" THEN value[u] > value[v]
     ELSE Ruling(S, ctx.rulings) # 0 /\ Rank(u) < Rank(v)

\* Every place in a finished table can be explained (computeStandings): by points,
\* or by the first criterion that separated two teams from each other while they
\* were level with those between them; and teams left level are level by every
\* criterion among themselves, with no ruling for them.
RankingJustified ==
  Alone /\ match # <<>> /\ Pending = {} =>
    \A g \in Group :
      LET ctx == GroupContext(Live(g), Results(g), Rules, rulings)
          blocks == Blocks(g, rulings)
          PointsOf(t) == ctx.row[t].points
          Level(i, j) == UNION {blocks[k] : k \in i..j}
          Explained(i, j, u, v) ==
            \/ PointsOf(u) > PointsOf(v)
            \/ \E a \in 1..i, b \in j..Len(blocks) :
                 /\ \A t \in Level(a, b) : PointsOf(t) = PointsOf(u)
                 /\ Above(u, v, Level(a, b), ctx)
      IN /\ Level(1, Len(blocks)) = Live(g)
         /\ \A i, j \in DOMAIN blocks : i < j =>
              \A u \in blocks[i], v \in blocks[j] : Explained(i, j, u, v)
         /\ \A i \in DOMAIN blocks : Cardinality(blocks[i]) > 1 =>
              \A u, v \in blocks[i] :
                PointsOf(u) = PointsOf(v) /\ ~Above(u, v, blocks[i], ctx)

\* The groups had two teams been drawn in each other's place.
Exchanged(g, u, v) ==
  [groups EXCEPT ![g] = [i \in DOMAIN @ |-> IF @[i] = u THEN v
                                            ELSE IF @[i] = v THEN u ELSE @[i]]]

\* Teams no tiebreaker separates stay in the order they were drawn in, and when no
\* tie is left to resolve that order decides nothing (qualify: "Ties block only
\* where they decide something"): any two teams of an unbroken tie drawn the other
\* way round, the same teams go through as the same seeds.
QualifyDecided ==
  LET Unmoved(now) ==
        now.ties = {} =>
          \A g \in Group : \A tie \in Ties(Blocks(g, rulings)) : \A u, v \in tie :
            now.qualifiers = QualificationFor(Exchanged(g, u, v), rulings).qualifiers
  IN Alone /\ status = "QUALIFICATION_REVIEW" => Unmoved(QualificationState(rulings))

\* A bracket seeded by rank, none being laid out by hand, is fair (seedBracket):
\* every qualified team is in it once; byes are for the best seeds and no tie is
\* between two; the best two meet in the final; and a first-round tie of two teams
\* of one group cannot be undone by exchanging its lower team with another tie's.
SeedsApart ==
  LET n == Len(qualified)
      size == Len(bracket)
      Seed(i) == IF bracket[i] = Null THEN 0
                 ELSE CHOOSE s \in 1..n : qualified[s].team = bracket[i]
      slots == [i \in 1..size |-> Seed(i)]
      Position(s) == CHOOSE i \in 1..size : slots[i] = s
      seeded == settings.seeding \in {"CROSS_GROUP", "RANKED"} /\ Layouts = {}
  IN Alone /\ bracket # <<>> /\ seeded =>
       /\ \A s \in 1..n : Cardinality({i \in 1..size : slots[i] = s}) = 1
       /\ \A p \in 1..size \div 2 :
            slots[2 * p] = 0 => slots[2 * p - 1] \in 1..size - n
       /\ size > 2 => (Position(1) <= size \div 2) # (Position(2) <= size \div 2)
       /\ settings.seeding = "CROSS_GROUP" =>
            \A p, other \in 1..size \div 2 :
              SameGroup(slots, qualified, p) /\ other # p /\ slots[2 * other] # 0 =>
                LET after == SwapLower(slots, p, other)
                IN SameGroup(after, qualified, p) \/ SameGroup(after, qualified, other)

Over == \A i \in DOMAIN match : match[i].status # "SCHEDULED"

\* A league ends once everything is played (afterLeagueResult): nothing is left to
\* play in the review, the knockout or a completed tournament; and when nothing is
\* left, whatever the last results raced with, a league with a knockout is no
\* longer in progress.
LeagueEnds ==
  /\ status \in {"QUALIFICATION_REVIEW", "KNOCKOUT_IN_PROGRESS", "COMPLETED"} => Over
  /\ Alone /\ status = "LEAGUE_IN_PROGRESS" /\ Over => settings.format = "LEAGUE"

\* What is stored is this outcome.
Stored(out) ==
  LET through == {qualified[i].team : i \in DOMAIN qualified}
  IN /\ status = "QUALIFICATION_REVIEW" =>
          /\ qualified = out.qualifiers
          /\ bracket # <<>> => out.ties = {}
          /\ out.ties = {} /\ settings.seeding # "MANUAL" => bracket # <<>>
          /\ confirmed => bracket # <<>>
     /\ status = "KNOCKOUT_IN_PROGRESS" => confirmed
     /\ bracket # <<>> => ToSet(bracket) \ {Null} = through
     /\ IF status = "COMPLETED" THEN out.ties = {} /\ placements = TopThree(out)
        ELSE status # "CANCELLED" => placements = <<>>
     /\ status = "LEAGUE_IN_PROGRESS" /\ Over => out.ties # {}

\* What is stored is what the results say (runQualification, completeLeagueOnly):
\* in review, who qualified, and a bracket of exactly them, proposed as soon as
\* no tie is open; in the knockout, the confirmed bracket of who qualified; of a
\* league without knockout, the first three of the table, while it is decided: a
\* league played to its end stays in progress only for a tie.
OutcomeCurrent == Alone => Stored(Outcome(rulings))

\* A tournament that was cancelled stays cancelled, whatever results are still on
\* their way (setStatus, afterLeagueResult).
CancelIsFinal == [][status = "CANCELLED" => status' = "CANCELLED"]_vars

==============================================================================
