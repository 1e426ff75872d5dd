--------------------------- MODULE EventFixtures ---------------------------
(***************************************************************************)
(* Fixtures, deals and standings of one event (events/events.fixtures.ts,  *)
(* a pure module).  Teams are given by name, in order; a fixture is who    *)
(* plays whom, its number being its place in the list.                     *)
(***************************************************************************)
EXTENDS Integers, Sequences, FiniteSets, FiniteSetsExt, SequencesExt

MinTeams == 2
MatchBufferMinutes == 10
MaxConsecutiveMatches == 2

\* Matches that fit, after the minutes held back.
MatchCountFor(eventDuration, matchDuration) ==
  IF eventDuration <= MatchBufferMinutes THEN 0
  ELSE (eventDuration - MatchBufferMinutes) \div matchDuration

-----------------------------------------------------------------------------
(* The round robin: one leg by the circle method, then the other way round.  *)

SlotCount(n) == IF n % 2 = 0 THEN n ELSE n + 1

\* Who sits in slot k (from 0) after the given number of rotations: all but the
\* first have moved on.
InSlot(k, round, n) ==
  IF k = 0 THEN 0 ELSE ((k - 1 - round) % (SlotCount(n) - 1)) + 1

RoundPairs(round, n) ==
  [k \in 1..SlotCount(n) \div 2 |->
     <<InSlot(k - 1, round, n), InSlot(SlotCount(n) - k, round, n)>>]

\* An odd number of teams meets a phantom, whose matches are left out.
RoundRobinPairs(n) ==
  SelectSeq(FlattenSeq([r \in 1..SlotCount(n) - 1 |-> RoundPairs(r - 1, n)]),
            LAMBDA p : p[1] < n /\ p[2] < n)

\* What holds of a leg whatever the teams: it has a match, and each is between
\* two of them.
LegsWithinTeams ==
  \A n \in MinTeams..6 :
    RoundRobinPairs(n) \in Seq((0..n - 1) \X (0..n - 1)) \ {<<>>}

\* Each pair twice: the first team at home in leg one, the other in leg two.
GenerateFixtures(names) ==
  LET n == Len(names)
      leg == RoundRobinPairs(n)
  IN  [i \in 1..2 * Len(leg) |->
         LET p == leg[((i - 1) % Len(leg)) + 1]
             swap == i > Len(leg)
         IN  [a |-> names[(IF swap THEN p[2] ELSE p[1]) + 1],
              b |-> names[(IF swap THEN p[1] ELSE p[2]) + 1]]]

\* Repeated to fill the slot, and never shorter than one round robin.
GenerateFixturesFilling(names, minCount) ==
  LET base == GenerateFixtures(names)
  IN  [i \in 1..Max({Len(base), minCount}) |-> base[((i - 1) % Len(base)) + 1]]

-----------------------------------------------------------------------------
(* Dealing people out                                                        *)

\* How many of m people dealt in turn to n teams end in team i.
ShareOf(m, n, i) == Cardinality({k \in 0..m - 1 : k % n = i - 1})

\* dealIntoTeams after shuffled: everyone in a team, by shares; who is chance.
Deals(people, n) ==
  {d \in [people -> 1..n] :
     \A i \in 1..n : Cardinality({p \in people : d[p] = i}) = ShareOf(Cardinality(people), n, i)}

-----------------------------------------------------------------------------
(* Standings, folded over the matches that have a score                      *)

Unplayed == [scoreA |-> -1, scoreB |-> -1]
IsPlayed(m) == m.scoreA # -1 /\ m.scoreB # -1

ZeroRow == [played |-> 0, goalsFor |-> 0, goalsAgainst |-> 0, points |-> 0]

PointsFor(mine, theirs) == IF mine > theirs THEN 3 ELSE IF mine = theirs THEN 1 ELSE 0

Tally(row, mine, theirs) ==
  [played       |-> row.played + 1,
   goalsFor     |-> row.goalsFor + mine,
   goalsAgainst |-> row.goalsAgainst + theirs,
   points       |-> row.points + PointsFor(mine, theirs)]

\* A match counts for both of its teams, once.
AddMatchTo(table, m) ==
  IF IsPlayed(m)
  THEN [table EXCEPT ![m.a] = Tally(@, m.scoreA, m.scoreB),
                     ![m.b] = Tally(@, m.scoreB, m.scoreA)]
  ELSE table

GoalDifference(row) == row.goalsFor - row.goalsAgainst

TableOf(matches, teams) ==
  FoldLeft(AddMatchTo, [t \in teams |-> ZeroRow], matches)

\* Points, goal difference, goals, then the name (by its place in the alphabet).
Above(table, rank, s, t) ==
  LET key(x) == <<table[x].points, GoalDifference(table[x]), table[x].goalsFor, -rank[x]>>
  IN  \E k \in 1..4 : key(s)[k] > key(t)[k] /\ \A j \in 1..k - 1 : key(s)[j] = key(t)[j]

ComputeStandings(matches, teams, rank) ==
  LET table == TableOf(matches, teams)
  IN  SetToSortSeq(teams, LAMBDA s, t : Above(table, rank, s, t))

=============================================================================
