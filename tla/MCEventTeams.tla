---------------------------- MODULE MCEventTeams ----------------------------
(***************************************************************************)
(* Small events for EventTeams: up to two players and two guests, three    *)
(* colours, a pair of names of the organizer's own.                        *)
(***************************************************************************)
EXTENDS EventTeams, TLC

CONSTANTS p1, p2, g1, g2, red, blue, green, lions

Colours == <<red, blue, green>>
OwnNames == {<<lions, red>>}
Agreed == <<blue, red>>

Anyone == Permutations(Player)

\* What the proofs take from the round robin and from the colours, by computing it.
ASSUME Computed == LegsWithinTeams /\ ColoursSuffice

-----------------------------------------------------------------------------
(* The pure functions of EventFixtures against what they are for, over     *)
(* bounded inputs                                                          *)

Plays(m, t) == t \in {m.a, m.b}

\* Everybody meets everybody at home and away, all of them once before anybody
\* twice; and with three teams or more nobody plays three matches in a row,
\* across the seams between the repetitions, too ("no team plays more than this
\* many matches back to back", events.fixtures.ts:57).
ASSUME FixturesFair ==
  \A n \in MinTeams..7 :
    LET names == [i \in 1..n |-> i]
        all == GenerateFixtures(names)
        filled == GenerateFixturesFilling(names, 3 * Len(all) - 1)
        half == Len(all) \div 2
    IN  /\ Len(all) = n * (n - 1)
        /\ {<<all[i].a, all[i].b>> : i \in DOMAIN all} = {q \in (1..n) \X (1..n) : q[1] # q[2]}
        /\ Cardinality({{all[i].a, all[i].b} : i \in 1..half}) = half
        /\ n > 2 => \A i \in 1..Len(filled) - MaxConsecutiveMatches, t \in 1..n :
                      \E j \in i..i + MaxConsecutiveMatches : ~Plays(filled[j], t)

\* The table is what the played matches say, counted match by match, and whoever
\* has more points, then the better difference, then more goals, stands above.
Sides == {[a |-> q[1], b |-> q[2]] : q \in {<<1, 2>>, <<2, 3>>, <<3, 1>>}}
Scores == {Unplayed} \cup {[scoreA |-> m, scoreB |-> n] : m, n \in 0..2}
Results == {[a |-> q.a, b |-> q.b, scoreA |-> r.scoreA, scoreB |-> r.scoreB] : q \in Sides, r \in Scores}

For(m, t) == IF m.a = t THEN m.scoreA ELSE m.scoreB
Against(m, t) == IF m.a = t THEN m.scoreB ELSE m.scoreA

ASSUME StandingsAgree ==
  \A m1, m2 \in Results :
    LET matches == <<m1, m2, [a |-> 1, b |-> 3, scoreA |-> 1, scoreB |-> 1]>>
        of(t) == {i \in DOMAIN matches : IsPlayed(matches[i]) /\ Plays(matches[i], t)}
        points(t) == 3 * Cardinality({i \in of(t) : For(matches[i], t) > Against(matches[i], t)})
                     + Cardinality({i \in of(t) : For(matches[i], t) = Against(matches[i], t)})
        goals(t) == FoldFunction(+, 0, [i \in of(t) |-> For(matches[i], t)])
        lost(t) == FoldFunction(+, 0, [i \in of(t) |-> Against(matches[i], t)])
        worth(t) == 10000 * points(t) + 100 * (goals(t) - lost(t)) + goals(t)
        order == ComputeStandings(matches, 1..3, [t \in 1..3 |-> t])
    IN  /\ \A t \in 1..3 : {i \in 1..3 : order[i] = t} # {}
        /\ \A i \in 1..2 : \/ worth(order[i]) > worth(order[i + 1])
                           \/ worth(order[i]) = worth(order[i + 1]) /\ order[i] < order[i + 1]

=============================================================================
