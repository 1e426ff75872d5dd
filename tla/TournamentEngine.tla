-------------------------- MODULE TournamentEngine --------------------------
(***************************************************************************)
(* The pure half of tournaments (tournaments/tournament-engine.ts): group  *)
(* draws, fixtures, standings and tiebreakers, qualification and seeding.  *)
(* TournamentLeague keeps the state.                                       *)
(*                                                                         *)
(* A result is a record of a match played; a tally what a team's results   *)
(* add up to; a block a set of teams nothing could separate.  The draw's   *)
(* shuffles leave a choice, so a draw is a set of possible outcomes.       *)
(***************************************************************************)
EXTENDS Integers, SequencesExt

Null == 0  \* no team

------------------------------------------------------------------------------
(* Small helpers *)

\* Splits teams as evenly as possible; earlier groups take the extras.
GroupSizes(teamCount, groupCount) ==
  [g \in 1..groupCount |->
     teamCount \div groupCount + (IF g <= teamCount % groupCount THEN 1 ELSE 0)]

NextPowerOfTwo(n) == Min({p \in {2^k : k \in 0..n} : p >= n})

\* The seed at each position of a bracket: 8 gives 1 8 4 5 2 7 3 6.
BracketOrder(size) ==
  LET order[n \in 1..size] ==
        IF n = 1 THEN <<1>>
        ELSE [i \in 1..n |-> IF i % 2 = 1 THEN order[n \div 2][(i + 1) \div 2]
                             ELSE n + 1 - order[n \div 2][i \div 2]]
  IN order[size]

------------------------------------------------------------------------------
(* Group draw *)

Clashes(group, team, club) ==
  IF club[team] = Null THEN 0
  ELSE Cardinality({i \in DOMAIN group : club[group[i]] = club[team]})

\* Those of S that are least by Key.
Least(S, Key(_)) == {x \in S : \A y \in S : Key(x) <= Key(y)}

\* The draws with one more team, placed in any of its best groups.
Place(draws, team, Best(_, _)) ==
  UNION {{[groups EXCEPT ![g] = Append(@, team)] : g \in Best(groups, team)} :
           groups \in draws}

Empty(groupCount) == [g \in 1..groupCount |-> <<>>]

\* Stable, by the number of teams a club has.
BusiestFirst(teams, club) ==
  LET size == [t \in ToSet(teams) |->
                 IF club[t] = Null THEN 0 ELSE Clashes(teams, t, club)]
  IN FlattenSeq([i \in 1..Len(teams) + 1 |->
       SelectSeq(teams, LAMBDA t : size[t] = Len(teams) + 1 - i)])

\* As evenly as possible.  With separate, teams of the busiest clubs are placed
\* first, each in the open group with the fewest club-mates and the most room.
\* What is shuffled before, the teams, is the order of the argument.
RandomDraw(teams, groupCount, separate, club) ==
  LET sizes == GroupSizes(Len(teams), groupCount)
      Best(groups, team) ==
        LET open == {g \in 1..groupCount : Len(groups[g]) < sizes[g]}
        IN IF ~separate THEN {Min(open)}
           ELSE Least(Least(open, LAMBDA g : Clashes(groups[g], team, club)),
                      LAMBDA g : Len(groups[g]) - sizes[g])
  IN FoldLeft(LAMBDA draws, team : Place(draws, team, Best), {Empty(groupCount)},
              IF separate THEN BusiestFirst(teams, club) ELSE teams)

\* Each pot is shuffled.  One team per pot for a group; among the groups without
\* one, those with the fewest club-mates when separate, and then the emptiest.
SeededDraw(pots, groupCount, separate, club) ==
  LET DrawPot(draws, pot) ==
        LET Best(groups, team) ==
              LET open == {g \in 1..groupCount : ToSet(groups[g]) \cap ToSet(pot) = {}}
              IN Least(IF separate
                       THEN Least(open, LAMBDA g : Clashes(groups[g], team, club))
                       ELSE open,
                       LAMBDA g : Len(groups[g]))
        IN UNION {FoldLeft(LAMBDA ds, team : Place(ds, team, Best), draws, order) :
                    order \in SetToSeqs(ToSet(pot))}
  IN FoldLeft(DrawPot, {Empty(groupCount)}, pots)

\* Every team exactly once, no other.
IsPartition(parts, teams) ==
  LET all == FlattenSeq(parts) IN Len(all) = Cardinality(teams) /\ ToSet(all) = teams

------------------------------------------------------------------------------
(* Fixtures *)

Fixture(day, home, away) == [matchday |-> day, home |-> home, away |-> away]

\* Mutant: nobody stays put.
SeatRotated(n, r, i) == (i + n - r) % n

\* Who is at position i in round r of the circle: team 0 stays, the rest rotate.
Seat(n, r, i) == IF i = 0 THEN 0 ELSE ((i - 1 + n - 1 - r) % (n - 1)) + 1

\* An odd group gets a phantom, whose opponent rests.  Home and away alternate.
SingleRobin(teams) ==
  LET n == Len(teams) + (Len(teams) % 2)
      Meeting(r, i) ==
        LET a == Seat(n, r, i)
            b == Seat(n, r, n - 1 - i)
            flip == (r + i) % 2 = 1
        IN IF Len(teams) \in {a, b} THEN <<>>
           ELSE IF flip THEN <<Fixture(r + 1, teams[b + 1], teams[a + 1])>>
           ELSE <<Fixture(r + 1, teams[a + 1], teams[b + 1])>>
  IN FlattenSeq([r \in 1..n - 1 |->
       FlattenSeq([i \in 1..n \div 2 |-> Meeting(r - 1, i - 1)])])

RoundRobin(teams, double) ==
  LET first == SingleRobin(teams)
      rounds == Len(teams) + (Len(teams) % 2) - 1
  IN IF ~double THEN first
     ELSE first \o [i \in DOMAIN first |->
            Fixture(first[i].matchday + rounds, first[i].away, first[i].home)]

Rests(f, previous) == {f.home, f.away} \cap {previous.home, previous.away} = {}

\* A match of the current matchday with neither team from the previous match,
\* else one of the next matchday, else the first.
NextMatch(played, remaining) ==
  LET day == remaining[1].matchday
      Found(d) == SelectInSeq(remaining, LAMBDA f :
        f.matchday = d /\ (played = <<>> \/ Rests(f, Last(played))))
  IN IF Found(day) > 0 THEN Found(day)
     ELSE IF Found(day + 1) > 0 THEN Found(day + 1) ELSE 1

OrderForRest(fixtures) ==
  LET days == {fixtures[i].matchday : i \in DOMAIN fixtures}
      byDay == FlattenSeq([d \in 1..Max(days \cup {0}) |->
                 SelectSeq(fixtures, LAMBDA f : f.matchday = d)])
      Play(state, i) ==
        LET next == NextMatch(state.played, state.remaining)
        IN [played |-> Append(state.played, state.remaining[next]),
            remaining |-> RemoveAt(state.remaining, next)]
  IN FoldLeftDomain(Play, [played |-> <<>>, remaining |-> byDay], byDay).played

------------------------------------------------------------------------------
(* Standings *)

\* A row of the table, and what one side of a result adds to it.
NoGames == [points |-> 0, goalDiff |-> 0, goalsFor |-> 0, fairPlay |-> 0]

Line(scored, conceded, cards, points) ==
  [points |-> IF scored > conceded THEN points.win
              ELSE IF scored = conceded THEN points.draw ELSE points.loss,
   goalDiff |-> scored - conceded, goalsFor |-> scored, fairPlay |-> cards]

LineOf(t, r, points) ==
  IF r.home = t THEN Line(r.homeGoals, r.awayGoals, r.homeCards, points)
  ELSE Line(r.awayGoals, r.homeGoals, r.awayCards, points)

Plus(row, line) == [column \in DOMAIN row |-> row[column] + line[column]]

Tally(t, results, points) ==
  FoldSet(LAMBDA r, row : Plus(row, LineOf(t, r, points)), NoGames,
          {r \in results : t \in {r.home, r.away}})

\* Where teams are ranked: their tallies, the results between them, the order of
\* the tiebreakers, the organizer's rulings, and whether they share a group.
Context(row, results, rules, rulings, headToHead) ==
  [row |-> row, results |-> results, points |-> rules.points,
   tiebreakers |-> rules.tiebreakers, rulings |-> rulings, headToHead |-> headToHead]

\* An organizer's ruling for all of these teams, the oldest: 0 if none.
Ruling(S, rulings) == SelectInSeq(rulings, LAMBDA order : S \subseteq ToSet(order))

LotsOrder(S, rulings) ==
  LET order == SelectSeq(rulings[Ruling(S, rulings)], LAMBDA t : t \in S)
  IN [i \in DOMAIN order |-> {order[i]}]

\* The column a criterion compares.
Column ==
  [H2H_POINTS |-> "points", H2H_GOAL_DIFF |-> "goalDiff", GOAL_DIFF |-> "goalDiff",
   GOALS_FOR |-> "goalsFor", FAIR_PLAY |-> "fairPlay"]

HeadToHead == {"H2H_POINTS", "H2H_GOAL_DIFF"}

Between(S, results) == {r \in results : {r.home, r.away} \subseteq S}

\* What a criterion makes of each team, higher being better; head-to-head by the
\* results between them alone.  Card points count against a team.
CriterionValues(c, S, ctx) ==
  [t \in S |-> (IF c = "FAIR_PLAY" THEN -1 ELSE 1) *
     (IF c \in HeadToHead THEN Tally(t, Between(S, ctx.results), ctx.points)
      ELSE ctx.row[t])[Column[c]]]

Separates(c, S, ctx) ==
  IF c = "LOTS" THEN Ruling(S, ctx.rulings) # 0
  ELSE /\ c \in HeadToHead => ctx.headToHead
       /\ Cardinality(Range(CriterionValues(c, S, ctx))) > 1

\* The teams of equal value, best first.
Buckets(S, value) ==
  LET values == {value[t] : t \in S}
      Nth(i) == CHOOSE v \in values : Cardinality({w \in values : w > v}) = i - 1
  IN [i \in 1..Cardinality(values) |-> {t \in S : value[t] = Nth(i)}]

\* Mutant: fewer is better, whatever the criterion counts.
SplitByLowest(c, S, ctx) ==
  CASE c # 0 /\ ctx.tiebreakers[c] # "LOTS" ->
         Reverse(Buckets(S, CriterionValues(ctx.tiebreakers[c], S, ctx)))
    [] OTHER -> <<S>>

\* Best first, by the criterion at c, by the ruling for them, or not at all.
SplitBy(c, S, ctx) ==
  CASE c # 0 /\ ctx.tiebreakers[c] # "LOTS" ->
         Buckets(S, CriterionValues(ctx.tiebreakers[c], S, ctx))
    [] Ruling(S, ctx.rulings) # 0 -> LotsOrder(S, ctx.rulings)
    [] OTHER -> <<S>>

FirstCriterion(from, S, ctx) ==
  SelectInSubSeq(ctx.tiebreakers, from, Len(ctx.tiebreakers),
                 LAMBDA c : Separates(c, S, ctx))

\* Blocks of the teams level on points, best first.  Those a criterion leaves
\* level start over from the first one among themselves.  A ruling settles a tie
\* even with LOTS removed from the list.
BreakTie(S, ctx) ==
  LET break[T \in SUBSET S] ==
        LET Further(parts) ==
              IF Len(parts) = 1 THEN parts
              ELSE FlattenSeq([i \in DOMAIN parts |-> break[parts[i]]])
        IN Further(SplitBy(FirstCriterion(1, T, ctx), T, ctx))
  IN break[S]

RankBlocks(S, ctx) ==
  LET buckets == Buckets(S, [t \in S |-> ctx.row[t].points])
  IN FlattenSeq([i \in DOMAIN buckets |-> BreakTie(buckets[i], ctx)])

GroupContext(S, results, rules, rulings) ==
  Context([t \in S |-> Tally(t, results, rules.points)], results, rules, rulings, TRUE)

\* Of one group.
ComputeStandings(S, results, rules, rulings) ==
  RankBlocks(S, GroupContext(S, results, rules, rulings))

\* Teams inside an unbroken tie stay in the order given.
FinishBlocks(blocks, order) ==
  FlattenSeq([i \in DOMAIN blocks |-> SelectSeq(order, LAMBDA t : t \in blocks[i])])

Ties(blocks) == {block \in ToSet(blocks) : Cardinality(block) > 1}

\* Ranks teams of different groups.  Their results against the bottom teams of
\* bigger groups are dropped, so that all are compared over as many games; next
\* to a group without teams the last one only.
RankAcrossGroups(S, groups, rules, rulings) ==
  LET minSize == Min({Len(groups[g].ranked) : g \in DOMAIN groups})
      Compared(t) ==
        LET group == CHOOSE g \in Range(groups) : t \in ToSet(g.ranked)
            others == RemoveFirst(group.ranked, t)
            from == IF minSize = 0 THEN Max({1, Len(others)}) ELSE minSize
            drop == ToSet(SubSeq(others, from, Len(others)))
        IN Tally(t, {r \in group.results : {r.home, r.away} \cap drop = {}}, rules.points)
  IN RankBlocks(S, Context([t \in S |-> Compared(t)], {}, rules, rulings, FALSE))

------------------------------------------------------------------------------
(* Qualification *)

\* A team going through: its group and the tier of its position there.
Entry(groups, g, k) == [team |-> groups[g].ranked[k], group |-> g, tier |-> k]

\* The entries in the order of the blocks; level ones by group, then as given.
ByGroupOrder(entries, blocks, groups) ==
  FlattenSeq([i \in DOMAIN blocks |->
    FlattenSeq([g \in DOMAIN groups |->
      SelectSeq(entries, LAMBDA e : e.team \in blocks[i] /\ e.group = g)])])

\* Mutant: a tie counts only if its last team is inside the limit.
GroupTiesInside(groups, limit) ==
  UNION {{tie \in groups[g].ties :
            LET at == {i \in DOMAIN groups[g].ranked : groups[g].ranked[i] \in tie}
            IN Cardinality(at) > 1 /\ Max(at) <= limit} : g \in DOMAIN groups}

\* Ties at a position up to the limit, withdrawn teams aside.
GroupTies(groups, limit) ==
  UNION {{tie \in groups[g].ties :
            LET at == {i \in DOMAIN groups[g].ranked : groups[g].ranked[i] \in tie}
            IN Cardinality(at) > 1 /\ Min(at) <= limit} : g \in DOMAIN groups}

\* The k-th of each group that has one.
Placed(groups, k) ==
  FlattenSeq([g \in DOMAIN groups |->
    IF Len(groups[g].ranked) >= k THEN <<Entry(groups, g, k)>> ELSE <<>>])

Across(entries, groups, rules, rulings) ==
  RankAcrossGroups({entries[i].team : i \in DOMAIN entries}, groups, rules, rulings)

\* By rank; those of one table are ranked already.
Ordered(entries, groups, rules, rulings) ==
  IF Len(groups) = 1 \/ entries = <<>> THEN entries
  ELSE ByGroupOrder(entries, Across(entries, groups, rules, rulings), groups)

\* The block of the best of rest that some but not all of get a place: none or one.
CutBlocks(blocks, best) ==
  LET Before(i) == Cardinality(UNION {blocks[j] : j \in 1..i - 1})
  IN {blocks[i] : i \in {j \in DOMAIN blocks : Before(j) < best /\ Before(j + 1) > best}}

RestTies(groups, q, best, rules, rulings) ==
  IF best = 0 \/ Placed(groups, q + 1) = <<>> THEN {}
  ELSE CutBlocks(Across(Placed(groups, q + 1), groups, rules, rulings), best)

\* Tier by tier, the k-th of each group; the best of rest come from the next tier.
Through(groups, q, best, rules, rulings) ==
  FlattenSeq([k \in 1..(IF best = 0 THEN q ELSE q + 1) |->
    LET tier == Placed(groups, k)
    IN SubSeq(Ordered(tier, groups, rules, rulings), 1,
              IF k <= q THEN Len(tier) ELSE Min({best, Len(tier)}))])

\* Who goes through, in seed order, and the ties the organizer has to resolve
\* first: those that decide a position up to the cut, or the best of the rest.
Qualify(groups, q, best, seeding, rules, rulings) ==
  [qualifiers |->
     IF seeding = "RANKED"
     THEN Ordered(Through(groups, q, best, rules, rulings), groups, rules, rulings)
     ELSE Through(groups, q, best, rules, rulings),
   ties |->
     GroupTies(groups, IF best > 0 THEN q + 1 ELSE q)
       \cup RestTies(groups, q, best, rules, rulings)]

------------------------------------------------------------------------------
(* Bracket *)

\* A bracket gives the number of the seed at each position, 0 for a bye.
SameGroup(slots, seeds, p) ==
  LET upper == slots[2 * p - 1]
      lower == slots[2 * p]
  IN upper # 0 /\ lower # 0 /\ seeds[upper].group # Null
       /\ seeds[upper].group = seeds[lower].group

SwapLower(slots, p, other) ==
  [slots EXCEPT ![2 * p] = slots[2 * other], ![2 * other] = slots[2 * p]]

\* A pair from one group swaps its lower team with another pair's, of the same
\* tier first and the nearest pair first, if neither then clashes.
Separate(slots, seeds, p) ==
  LET tier(i) == seeds[slots[2 * i]].tier
      After(i) == SwapLower(slots, p, i)
      other == {i \in 1..Len(slots) \div 2 : i # p /\ slots[2 * i] # 0
                  /\ ~SameGroup(After(i), seeds, p) /\ ~SameGroup(After(i), seeds, i)}
      Distance(i) == IF i < p THEN 2 * (p - i) ELSE 2 * (i - p) + 1
      sameTier == {i \in other : tier(i) = tier(p)}
      nearest == Least(IF sameTier # {} THEN sameTier ELSE other, Distance)
  IN IF ~SameGroup(slots, seeds, p) \/ other = {} THEN slots
     ELSE SwapLower(slots, p, Min(nearest))

\* Seed 1 plays the last seed, 2 the second last; missing seeds are byes.
SeedBracket(seeds, avoidSameGroup) ==
  LET size == Max({2, NextPowerOfTwo(Len(seeds))})
      order == BracketOrder(size)
      slots == [i \in 1..size |-> IF order[i] <= Len(seeds) THEN order[i] ELSE 0]
      Pair(s, p) == Separate(s, seeds, p)
  IN IF avoidSameGroup
     THEN FoldLeft(Pair, slots, [p \in 1..size \div 2 |-> p])
     ELSE slots

\* A bracket laid out by hand: every seed once, and no match of two byes.
ValidBracketOrder(slots, seeds) ==
  /\ Len(slots) = Max({2, NextPowerOfTwo(Len(seeds))})
  /\ IsPartition(<<SelectSeq(slots, LAMBDA s : s # 0)>>, DOMAIN seeds)
  /\ \A p \in 1..Len(slots) \div 2 : slots[2 * p - 1] # 0 \/ slots[2 * p] # 0

------------------------------------------------------------------------------
(* Settings *)

\* Whether a league's settings can work for so many teams.
ValidSettings(s, teamCount) ==
  LET smallest == Min(Range(GroupSizes(teamCount, s.groupCount)))
  IN /\ s.groupCount * 2 <= teamCount
     /\ s.format = "LEAGUE_KNOCKOUT" =>
          /\ s.bestOfRest <= IF s.groupCount = 1 THEN 0 ELSE s.groupCount
          /\ s.groupCount * s.qualifyPerGroup + s.bestOfRest >= 2
          /\ s.qualifyPerGroup + (IF s.bestOfRest > 0 THEN 1 ELSE 0) <= smallest

\* The number of matches promised to the organizer.
LeaguePreview(s, teamCount) ==
  LET sizes == GroupSizes(teamCount, s.groupCount)
      Pairs(g) == (sizes[g] * (sizes[g] - 1)) \div 2
  IN MapThenSumSet(Pairs, DOMAIN sizes) * (IF s.double THEN 2 ELSE 1)

==============================================================================
