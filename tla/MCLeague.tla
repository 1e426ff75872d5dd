------------------------------ MODULE MCLeague ------------------------------
(***************************************************************************)
(* Small leagues for TournamentLeague.  A behaviour is one of two: a       *)
(* league drawn and played in the order of its fixtures, by one request at *)
(* a time ("ranking"), or a smaller one with results corrected, teams      *)
(* withdrawn, brackets laid out by hand and requests that overlap          *)
(* ("disturbed").                                                          *)
(***************************************************************************)
EXTENDS TournamentLeague, TLC

CONSTANTS s1, s2

VARIABLE area

\* Two groups of three by hand; the winners go through, and the better second.
Threes ==
  [format |-> "LEAGUE_KNOCKOUT", club |-> <<1, 2, Null, 2, 1, 1>>, groupCount |-> 2,
   groupDraw |-> "MANUAL", groups |-> <<<<1, 2, 3>>, <<4, 5, 6>>>>, pots |-> <<>>,
   shuffles |-> {}, separate |-> FALSE, double |-> FALSE,
   points |-> [win |-> 3, draw |-> 1, loss |-> 0],
   tiebreakers |-> <<"H2H_POINTS", "H2H_GOAL_DIFF", "GOAL_DIFF", "FAIR_PLAY", "LOTS">>,
   qualifyPerGroup |-> 1, bestOfRest |-> 1, seeding |-> "CROSS_GROUP"]

\* The same: two of each group.
Four == [Threes EXCEPT !.bestOfRest = 0, !.qualifyPerGroup = 2,
                       !.tiebreakers = <<"GOAL_DIFF", "LOTS", "GOALS_FOR">>]

\* One group of four.
Single == [Threes EXCEPT !.club = <<1, 2, 3, 4>>, !.groupCount = 1,
             !.groups = <<<<1, 2, 3, 4>>>>, !.qualifyPerGroup = 2, !.bestOfRest = 0,
             !.tiebreakers = <<"H2H_POINTS", "GOAL_DIFF", "GOALS_FOR", "LOTS">>]

\* Three groups of two: the winners and the best second; or, by rank, everybody,
\* with byes for two.
Twos == [Threes EXCEPT !.groupCount = 3, !.groups = <<<<1, 2>>, <<3, 4>>, <<5, 6>>>>]
Six == [Twos EXCEPT !.bestOfRest = 3, !.seeding = "RANKED",
                    !.tiebreakers = <<"GOALS_FOR", "H2H_POINTS", "GOAL_DIFF">>]

\* Larger leagues, drawn but not played: seven teams of two clubs of three in two
\* or three groups; six from pots of two and one; one group of five.
Seven == [Threes EXCEPT !.club = <<1, 2, 1, 2, Null, 1, 2>>, !.groupDraw = "RANDOM",
            !.shuffles = {<<1, 2, 3, 4, 5, 6, 7>>, <<7, 5, 4, 2, 1, 6, 3>>},
            !.separate = TRUE, !.double = TRUE]
InThree == [Seven EXCEPT !.groupCount = 3]
FromPots == [Threes EXCEPT !.groupDraw = "SEEDED", !.double = TRUE,
               !.pots = <<<<1, 2>>, <<3, 4>>, <<5>>, <<6>>>>]
OneOfFive == [Single EXCEPT !.club = <<1, 2, 3, 4, 5>>, !.groups = <<<<1, 2, 3, 4, 5>>>>,
                !.double = TRUE]

Leagues == {Threes, Four, Single, Twos, Six, Seven, InThree, FromPots, OneOfFive}

\* Played with withdrawals, changes and cancelling: a league of one group of three,
\* with and without a knockout, and one of two groups of two without.
Trio == [Single EXCEPT !.club = <<1, 2, 3>>, !.groups = <<<<1, 2, 3>>>>,
                       !.tiebreakers = <<"GOAL_DIFF">>]
Duos == [Trio EXCEPT !.club = <<1, 2, 3, 4>>, !.groupCount = 2,
                     !.groups = <<<<1, 2>>, <<3, 4>>>>, !.qualifyPerGroup = 1,
                     !.bestOfRest = 1]
Disturbed == {Trio, [Trio EXCEPT !.format = "LEAGUE"], [Duos EXCEPT !.format = "LEAGUE"]}

\* Three seeds with the bye where the seeding has it, or not.
LaidOut == {<<1, 0, 2, 3>>, <<1, 3, 0, 2>>, <<1, 2>>}

\* A win by one, or a draw.
WinOrDraw ==
  {[homeGoals |-> 1, awayGoals |-> 0, homeCards |-> 0, awayCards |-> 0],
   [homeGoals |-> 0, awayGoals |-> 0, homeCards |-> 0, awayCards |-> 0]}

\* A win by one, a loss by two, a draw with a booking.
Result3 ==
  {[homeGoals |-> 1, awayGoals |-> 0, homeCards |-> 0, awayCards |-> 0],
   [homeGoals |-> 0, awayGoals |-> 2, homeCards |-> 0, awayCards |-> 0],
   [homeGoals |-> 1, awayGoals |-> 1, homeCards |-> 1, awayCards |-> 0]}

-----------------------------------------------------------------------------
Ranking == INSTANCE TournamentLeague WITH
  Settings <- Leagues, Scores <- Result3, InOrder <- TRUE,
  MaxEdits <- 0, MaxWithdrawals <- 0, Layouts <- {}, Seedings <- {}

TournamentInit ==
  \/ area = "ranking" /\ Ranking!Init
  \/ area = "disturbed" /\ Init

TournamentNext ==
  /\ UNCHANGED area
  /\ \/ area = "ranking" /\ Ranking!Next /\ Cardinality(Active') <= 1
     \/ area = "disturbed" /\ Next

AnySlot == Permutations(Slot)

TournamentSpec == TournamentInit /\ [][TournamentNext]_<<area, vars>>

-----------------------------------------------------------------------------
\* What is drawn is fair: groups, clubs and pots are spread (randomDraw,
\* seededDraw), and the fixtures of each group are a round robin
\* (generateFixtures); every document stays of its type after them.
DrawnFairly == TypeOK /\ DrawSpreads /\ FixturesComplete

\* What goes on to the knockout is decided by results (qualify) and seeded by
\* rank (seedBracket); SeedsApart is about brackets nobody lays out by hand.
QualifiersSeeded == QualifyDecided /\ (area = "ranking" => Ranking!SeedsApart)

=============================================================================
