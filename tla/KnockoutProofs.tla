--------------------------- MODULE KnockoutProofs ---------------------------
(***************************************************************************)
(* Theorems about KnockoutBracket, for any number of teams up to four      *)
(* rounds, drawn in any order, with one leg or two and with or without a   *)
(* match for third, and for requests that come one after the other.        *)
(*                                                                         *)
(* A request is a list of steps still to take (Todo), and a result travels *)
(* through several of them: it is saved, the winner and the loser are      *)
(* placed, the matches they reach are looked at, and the end is looked     *)
(* for.  So the invariant (InStep) speaks of the bracket together with     *)
(* that list.  Rows: a row is what its leg is for.  Fed: nobody is in a    *)
(* match before the one that sends them there is decided.  GoodSteps: each *)
(* step on the list says what the bracket says by the time it is taken.    *)
(* Carried: a winner or loser is in the next match or on the list.         *)
(* SecondFirst: no second leg is decided without its first.  Covered: a    *)
(* tie that somebody who withdrew could play is about to be looked at.     *)
(* Ending: the tournament is over, or about to be found over, exactly when *)
(* its last matches are decided.  With an empty list these say what the    *)
(* runs check.                                                             *)
(*                                                                         *)
(* Two things are assumed (OneByOne).  Requests do not overlap: one that   *)
(* read a tie before another request moved it on has steps that say what   *)
(* the bracket said then.  And there are no byes where a first-round tie   *)
(* is the final, which the code never draws with one, or feeds the match   *)
(* for third: a bye has no loser to send there, and three teams with such  *)
(* a match are left waiting for it.                                        *)
(***************************************************************************)
EXTENDS KnockoutBracket, FiniteSetTheorems, TLAPS

\* One request at a time; and where the loser of a bye would be looked for, no byes.
OneByOne ==
  /\ IsFiniteSet(Slot)
  /\ \A st \in Setup :
       /\ st.requests <= 1
       /\ st.rounds = 1 \/ (st.rounds = 2 /\ st.third) => \A i \in DOMAIN st.slots : st.slots[i] # Null

-----------------------------------------------------------------------------
(* The bracket *)

Board == FirstLegs \cup SecondLegs \cup ThirdPlace
HomeAway == {"home", "away"}
Goals(m) == WinnerTo(m) \cup LoserTo(m)

\* The row that decides the tie of m.
Decider(m) == IF SecondLeg(m) \in Match THEN SecondLeg(m) ELSE FirstLeg(m)

\* x starts in the part of the bracket that leads to tie n of round r.
Seeded(x, r, n) == \E i \in DOMAIN setup.slots :
  setup.slots[i] = x /\ (n - 1) * 2 ^ r < i /\ i <= n * 2 ^ r

\* The tie whose winner, or for the third place whose loser, comes to a side of m.
SourceRound(m) == IF m[1] > Rounds THEN Rounds - 1 ELSE m[1] - 1
SourceSlot(m, side) == IF side = "home" THEN 2 * m[2] - 1 ELSE 2 * m[2]

\* What a row says is what its leg is for.
RowSound(m) ==
  /\ match[m].isBye <=> HasBye(TieOf(m))
  /\ match[m].isBye =>
       /\ match[m].status = "COMPLETED" /\ match[m].home # Null /\ match[m].away = Null
       /\ Seeded(match[m].home, 1, m[2])
  /\ m[1] = 1 /\ ~match[m].isBye => Null \notin TeamsOf(m)
  /\ match[m].winner # Null => match[m].winner \in TeamsOf(m)
  /\ match[m].status = "COMPLETED" /\ ~match[m].isBye => Null \notin TeamsOf(m)
  /\ FirstOfTwo(m) => match[m].winner = Null
  /\ ~FirstOfTwo(m) => (match[m].status = "COMPLETED" <=> match[m].winner # Null)
  /\ m[3] = 2 => /\ match[m].home = match[FirstLeg(m)].away
                 /\ match[m].away = match[FirstLeg(m)].home
  /\ m[3] = 1 /\ ~match[m].isBye => \A side \in HomeAway : match[m][side] # Null =>
       Seeded(match[m][side], SourceRound(m), SourceSlot(m, side))

Rows == match \in [Board -> MatchRow] /\ \A m \in Match : RowSound(m)

\* Nobody is in a match before the one that sends them there is decided.
Fed == \A m \in Match : \A g \in Goals(m) : match[g.on][g.side] # Null => Decided(Decider(m))

\* The bracket: every match but those of round one is fed by two ties, and every
\* tie's winner and a semi-final's loser have their own side to go to.
Shape ==
  /\ Rounds \in 1..4 /\ Final \in Match
  /\ \A m \in Match :
       /\ m = <<m[1], m[2], m[3]>> /\ m[1] \in 1..Rounds + 1 /\ m[2] \in Nat \ {0} /\ m[3] \in {1, 2}
       /\ FirstLeg(m) \in Match
       /\ m[3] = 2 => m[1] < Rounds /\ ~HasBye(TieOf(m))
  /\ \A m \in Match : \A g \in Goals(m) :
       /\ g = [on |-> g.on, side |-> g.side] /\ g.on \in Match /\ g.on[3] = 1 /\ g.side \in HomeAway
       /\ m[1] < g.on[1] /\ SourceRound(g.on) = m[1] /\ SourceSlot(g.on, g.side) = m[2]
  /\ \A m \in Match :
       /\ WinnerTo(m) = {} \/ \E g \in Goals(m) : WinnerTo(m) = {g}
       /\ LoserTo(m) = {} \/ \E g \in Goals(m) : LoserTo(m) = {g}
       /\ \A g \in WinnerTo(m) : g.on[1] = m[1] + 1 /\ m[1] < Rounds
       /\ \A g \in LoserTo(m) : g.on = ThirdMatch /\ m[1] = Rounds - 1
  /\ \A k \in Match : k[1] >= 2 => \A side \in HomeAway : \E m \in Match : m[3] = 1 /\
       \/ k[1] <= Rounds /\ WinnerTo(m) = {[on |-> FirstLeg(k), side |-> side]}
       \/ k = ThirdMatch /\ LoserTo(m) = {[on |-> ThirdMatch, side |-> side]}

-----------------------------------------------------------------------------
(* The request in flight *)

\* What the request in flight, if there is one, has to do.
Todo ==
  IF \A s \in Slot : request[s] = Idle THEN <<>>
  ELSE request[CHOOSE s \in Slot : request[s] # Idle].todo
Doing(T, step) == \E i \in DOMAIN T : T[i] = step

SaveStep ==
  [do : {"save"}, on : Nat \X Nat \X Nat, homeGoals : Nat, awayGoals : Nat, forfeit : {"home", "away", Null},
   winner : Team \cup {Null}, loser : Team \cup {Null}]
PlaceStep == [do : {"place"}, on : Nat \X Nat \X Nat, side : HomeAway, team : Team]
CheckStep == [do : {"check"}, on : Nat \X Nat \X Nat]
TeamStep == [do : {"withdraw", "pending"}, team : Team]
EndStep == [do : {"complete"}, with : SUBSET ((1..4) \X Team)]
AfterStep == [do : {"after"}]
AnyStep == SaveStep \cup PlaceStep \cup CheckStep \cup TeamStep \cup EndStep \cup AfterStep

Alone ==
  /\ request = [s \in Slot |-> request[s]]
  /\ \A s, t \in Slot : request[s] # Idle /\ request[t] # Idle => s = t
  /\ \A s \in Slot : request[s] # Idle =>
       /\ request[s] = [on |-> request[s].on, todo |-> request[s].todo]
       /\ request[s].todo \in Seq(AnyStep) /\ request[s].todo # <<>>

Place(g, x) == [do |-> "place", on |-> g.on, side |-> g.side, team |-> x]
Check(m) == [do |-> "check", on |-> m]

Stranding(k) == Ready(k) /\ TeamsOf(k) \cap withdrawn # {}
Open(k) == \A leg \in Match : TieOf(leg) = TieOf(k) => match[leg].status # "COMPLETED"

\* The first leg of k is played, or about to be looked at or saved.
FirstPlayed(T, k) ==
  \/ match[FirstLeg(k)].status = "COMPLETED"
  \/ \E i \in DOMAIN T : T[i].do \in {"check", "save"} /\ T[i].on = FirstLeg(k)

\* r is the result of match m that side, which has withdrawn, forfeits to one that has not.
LostBy(m, side, r) ==
  /\ r.homeGoals = HomeForfeit(side) /\ r.awayGoals = AwayForfeit(side) /\ r.forfeit = side
  /\ r.winner = match[m][Other(side)]
  /\ match[m][side] \in withdrawn /\ match[m][Other(side)] \notin withdrawn

\* Saving r changes nothing.
Repeats(r) ==
  /\ match[r.on].status = "COMPLETED"
  /\ match[r.on].homeGoals = r.homeGoals /\ match[r.on].awayGoals = r.awayGoals
  /\ match[r.on].forfeit = r.forfeit /\ match[r.on].winner = r.winner

\* A result to save is new, says what is there already, or is an organizer's correction.
GoodSave(T, r, i) ==
  /\ ~match[r.on].isBye /\ Null \notin TeamsOf(r.on)
  /\ FirstOfTwo(r.on) =>
       r.winner = Null /\ (Len(T) > i => T[i + 1].do = "save" /\ T[i + 1].on = SecondLeg(r.on))
  /\ ~FirstOfTwo(r.on) =>
       /\ \E side \in HomeAway : r.winner = match[r.on][side] /\ r.loser = match[r.on][Other(side)]
       /\ ~Decided(r.on) \/ Repeats(r) \/ (NextUnplayed(r.on) /\ Len(T) = 1)
  /\ r.on[3] = 2 =>
       \/ match[FirstLeg(r.on)].status = "COMPLETED"
       \/ i = 2 /\ T[1].on = FirstLeg(r.on)
       \/ FirstPlayed(T, r.on) /\ \E side \in HomeAway : LostBy(r.on, side, r)
  /\ i > 1 => i = 2 /\ T[1].do = "save" /\ FirstOfTwo(T[1].on) /\ r.on = SecondLeg(T[1].on)

\* A team to place has won, or lost, the match before, and disturbs no result.
GoodPlace(T, p, i) ==
  /\ \E m \in Match : Decided(m) /\
       \/ \E g \in WinnerTo(m) : p = Place(g, match[m].winner)
       \/ ~match[m].isBye /\ \E g \in LoserTo(m) : p = Place(g, LoserOf(m))
  /\ Open(p.on) \/ In(p.on, p.side, p.team)
  /\ i + 1 \in DOMAIN T /\ T[i + 1] = Check(p.on)
  /\ i > 1 => /\ p.on = ThirdMatch
              /\ \A j \in 1..i - 1 : T[j].do \in {"save", "place", "check"} => T[j].on[1] = Rounds

\* A second leg to look at is one of a team that has withdrawn from a full tie.
GoodCheck(T, c) ==
  c.on[3] = 2 =>
    /\ Null \notin TeamsOf(c.on) /\ FirstPlayed(T, c.on)
    /\ TeamsOf(c.on) \cap withdrawn # {} /\ \E side \in HomeAway : match[c.on][side] \notin withdrawn
    /\ \A j \in DOMAIN T : T[j].do = "place" /\ TieOf(T[j].on) = TieOf(c.on) =>
         In(T[j].on, T[j].side, T[j].team)

GoodPending(x) ==
  /\ x \in withdrawn
  /\ \A k \in Match : Stranding(k) =>
       x \in TeamsOf(k) /\ \E side \in HomeAway : match[k][side] \notin withdrawn

GoodStep(T, i) ==
  /\ T[i].do \in {"save", "place", "check"} => T[i].on \in Match
  /\ T[i].do = "save" => GoodSave(T, T[i], i)
  /\ T[i].do = "place" => GoodPlace(T, T[i], i)
  /\ T[i].do = "check" => GoodCheck(T, T[i])
  /\ T[i].do \in {"withdraw", "pending"} => Len(T) = 1
  /\ T[i].do = "pending" => GoodPending(T[i].team)
  /\ T[i].do = "complete" => i = 1 /\ AllDecided /\ T[i].with = Placing

GoodSteps(T) == \A i \in DOMAIN T : GoodStep(T, i)

-----------------------------------------------------------------------------
(* What is left to do, and what is done *)

\* Who has won is in the next match, or is about to be.
Carried(T) ==
  \A m \in Match : Decided(m) =>
    /\ \A g \in WinnerTo(m) : In(g.on, g.side, match[m].winner) \/ Doing(T, Place(g, match[m].winner))
    /\ \A g \in LoserTo(m) : ~match[m].isBye =>
         In(g.on, g.side, LoserOf(m)) \/ Doing(T, Place(g, LoserOf(m)))

\* A second leg given before the first is a walkover, and the first is next.
SecondFirst(T) ==
  \A k \in Match : k[3] = 2 /\ match[k].status = "COMPLETED" =>
    /\ FirstPlayed(T, k)
    /\ match[FirstLeg(k)].status # "COMPLETED" => \E side \in HomeAway : LostBy(k, side, match[k])

\* Step t looks at match k.
Covers(t, k) ==
  \/ t.do = "check" /\ t.on = k
  \/ t.do = "check" /\ t.on = FirstLeg(k) /\ match[t.on].status = "SCHEDULED"
  \/ t.do = "save" /\ t.on = k
  \/ t.do = "pending"
Covered(T) == \A k \in Match : Stranding(k) => \E i \in DOMAIN T : Covers(T[i], k)

Ending(T) ==
  /\ status = "COMPLETED" => AllDecided
  /\ status # "CANCELLED" /\ AllDecided =>
       \/ status = "COMPLETED" /\ placements = Placing
       \/ \E i \in DOMAIN T : T[i].do \in {"after", "complete"}

Others ==
  /\ setup \in Setup /\ withdrawn \subseteq Team
  /\ phase \in {"IN_PROGRESS", "COMPLETED"}
  /\ status \in {"KNOCKOUT_IN_PROGRESS", "COMPLETED", "CANCELLED"}
  /\ placements \subseteq (1..4) \X Team

\* With T left to do, all is well.
InStep(T) ==
  Rows /\ Fed /\ GoodSteps(T) /\ Carried(T) /\ SecondFirst(T) /\ Covered(T) /\ Ending(T)

KnockoutInv == Others /\ Alone /\ \E T : T = Todo /\ InStep(T)

-----------------------------------------------------------------------------
(* The shape of the bracket *)

LEMMA Powers ==
  /\ 2 ^ 0 = 1
  /\ \A k \in 1..4 : 2 ^ k = 2 * 2 ^ (k - 1)
  /\ \A k \in 0..4 : 2 ^ k \in 1..16
<1>1. 2 ^ 0 = 1 /\ 2 ^ 1 = 2 /\ 2 ^ 2 = 4 /\ 2 ^ 3 = 8 /\ 2 ^ 4 = 16 OBVIOUS
<1>2. \A k \in 1..4 : 2 ^ k = 2 * 2 ^ (k - 1)
  <2> TAKE k \in 1..4
  <2>1. k = 1 \/ k = 2 \/ k = 3 \/ k = 4 OBVIOUS
  <2>2. CASE k = 1
    <3>1. k - 1 = 0 BY <2>2
    <3>2. 2 = 2 * 1 OBVIOUS
    <3> QED BY <1>1, <2>2, <3>1, <3>2, Zenon
  <2>3. CASE k = 2
    <3>1. k - 1 = 1 BY <2>3
    <3>2. 4 = 2 * 2 OBVIOUS
    <3> QED BY <1>1, <2>3, <3>1, <3>2, Zenon
  <2>4. CASE k = 3
    <3>1. k - 1 = 2 BY <2>4
    <3>2. 8 = 2 * 4 OBVIOUS
    <3> QED BY <1>1, <2>4, <3>1, <3>2, Zenon
  <2>5. CASE k = 4
    <3>1. k - 1 = 3 BY <2>5
    <3>2. 16 = 2 * 8 OBVIOUS
    <3> QED BY <1>1, <2>5, <3>1, <3>2, Zenon
  <2> QED BY <2>1, <2>2, <2>3, <2>4, <2>5
<1>3. \A k \in 0..4 : 2 ^ k \in 1..16
  <2> TAKE k \in 0..4
  <2>1. k = 0 \/ k = 1 \/ k = 2 \/ k = 3 \/ k = 4 OBVIOUS
  <2>2. 1 \in 1..16 /\ 2 \in 1..16 /\ 4 \in 1..16 /\ 8 \in 1..16 /\ 16 \in 1..16 OBVIOUS
  <2> QED BY <1>1, <2>1, <2>2, Zenon
<1> QED BY <1>1, <1>2, <1>3

\* What a bracket to start is.
LEMMA SetupFacts ==
  ASSUME setup \in Setup
  PROVE  /\ Rounds \in 1..4 /\ Len(setup.slots) = 2 ^ Rounds
         /\ setup.slots \in Seq(Team \cup {Null}) /\ DOMAIN setup.slots = 1..Len(setup.slots)
         /\ setup.legs \in {1, 2} /\ setup.third \in BOOLEAN
         /\ \A i, j \in 1..Len(setup.slots) : (i # j /\ setup.slots[i] = setup.slots[j]) =>
              setup.slots[i] = Null /\ (i + 1) \div 2 # (j + 1) \div 2
BY KnockoutAssumption DEF Rounds

\* Rounds, and the size of the bracket, without powers.
LEMMA Sizes ==
  ASSUME setup \in Setup
  PROVE  /\ Len(setup.slots) \in 2..16
         /\ \A r \in 1..Rounds : 2 ^ (Rounds - r) \in 1..Len(setup.slots)
         /\ \A r \in 2..Rounds : 2 ^ (Rounds - (r - 1)) = 2 * 2 ^ (Rounds - r)
         /\ 2 ^ (Rounds - Rounds) = 1
         /\ Rounds >= 2 => 2 ^ (Rounds - (Rounds - 1)) = 2
         /\ 2 * 2 ^ (Rounds - 1) = Len(setup.slots)
<1> DEFINE P(k) == 2 ^ k
<1>0. \A k : P(k) = 2 ^ k OBVIOUS
<1>1. P(0) = 1 /\ (\A k \in 1..4 : P(k) = 2 * P(k - 1)) /\ \A k \in 0..4 : P(k) \in 1..16 BY Powers
<1>2. Rounds \in 1..4 /\ Len(setup.slots) = P(Rounds) BY SetupFacts
<1> HIDE DEF P
<1>3. P(1) = 2 /\ P(2) = 4 /\ P(3) = 8 /\ P(4) = 16
  <2>1. P(1) = 2 BY <1>1
  <2>2. P(2) = 4 BY <1>1, <2>1
  <2>3. P(3) = 8 BY <1>1, <2>2
  <2>4. P(4) = 16 BY <1>1, <2>3
  <2> QED BY <2>1, <2>2, <2>3, <2>4
<1>4. Len(setup.slots) \in 2..16 BY <1>2, <1>3
<1>5. \A r \in 1..Rounds : P(Rounds - r) \in 1..Len(setup.slots)
  <2> TAKE r \in 1..Rounds
  <2>1. Rounds - r \in 0..3 /\ Rounds - r < Rounds BY <1>2
  <2>2. PICK d : d = Rounds - r OBVIOUS
  <2>3. P(d) \in 1..P(Rounds) BY <1>1, <1>2, <1>3, <2>1, <2>2
  <2> QED BY <1>2, <2>2, <2>3
<1>6. \A r \in 2..Rounds : P(Rounds - (r - 1)) = 2 * P(Rounds - r)
  <2> TAKE r \in 2..Rounds
  <2>1. Rounds - (r - 1) \in 1..4 /\ Rounds - (r - 1) - 1 = Rounds - r BY <1>2
  <2> QED BY <1>1, <2>1
<1>7. Rounds - Rounds = 0 BY <1>2
<1>8. Rounds >= 2 => Rounds - (Rounds - 1) = 1 BY <1>2
<1>9. 2 * P(Rounds - 1) = Len(setup.slots) BY <1>1, <1>2
<1>10. P(Rounds - Rounds) = 1 /\ (Rounds >= 2 => P(Rounds - (Rounds - 1)) = 2) BY <1>1, <1>3, <1>7, <1>8
<1> QED BY <1>0, <1>4, <1>5, <1>6, <1>9, <1>10, Zenon

LEMMA TiesAre ==
  ASSUME NEW r, NEW n
  PROVE  <<r, n>> \in Ties <=>
           r \in 1..Rounds /\ n \in 1..Len(setup.slots) /\ n <= 2 ^ (Rounds - r)
BY DEF Ties

LEMMA BoardIs ==
  /\ \A m \in Board :
       \/ m[3] = 1 /\ m = FirstLeg(m) /\ TieOf(m) \in Ties
       \/ m[3] = 2 /\ m = SecondLeg(m) /\ TieOf(m) \in Ties /\ m[1] < Rounds /\ ~HasBye(TieOf(m))
       \/ m = ThirdMatch /\ setup.third /\ Rounds >= 2
  /\ \A t \in Ties : <<t[1], t[2], 1>> \in Board
  /\ setup.third /\ Rounds >= 2 => ThirdMatch \in Board
<1>1. \A m \in FirstLegs : m[3] = 1 /\ m = FirstLeg(m) /\ TieOf(m) \in Ties
  BY DEF FirstLegs, FirstLeg, TieOf, Ties
<1>2. \A m \in SecondLegs :
        m[3] = 2 /\ m = SecondLeg(m) /\ TieOf(m) \in Ties /\ m[1] < Rounds /\ ~HasBye(TieOf(m))
  <2> TAKE m \in SecondLegs
  <2>1. PICK t \in Ties : m = <<t[1], t[2], 2>> /\ t[1] < Rounds /\ ~HasBye(t)
    BY DEF SecondLegs
  <2>2. t = <<t[1], t[2]>> BY DEF Ties
  <2>3. TieOf(m) = t BY <2>1, <2>2 DEF TieOf
  <2> QED BY <2>1, <2>3 DEF SecondLeg
<1>3. \A m \in ThirdPlace : m = ThirdMatch /\ setup.third /\ Rounds >= 2 BY DEF ThirdPlace
<1> QED BY <1>1, <1>2, <1>3 DEF Board, FirstLegs, ThirdPlace

LEMMA ShapeHolds ==
  ASSUME setup \in Setup, Match = Board
  PROVE  Shape
<1> DEFINE S == Len(setup.slots)
<1> DEFINE W(r) == 2 ^ (Rounds - r)
<1>1. Rounds \in 1..4 /\ S \in 2..16 BY SetupFacts, Sizes
<1>2. /\ \A r \in 1..Rounds : W(r) \in 1..S
      /\ \A r \in 2..Rounds : W(r - 1) = 2 * W(r)
      /\ W(Rounds) = 1 /\ (Rounds >= 2 => W(Rounds - 1) = 2)
      /\ 2 * W(1) = S
  BY Sizes, Zenon
<1>3. \A r, n : <<r, n>> \in Ties <=> r \in 1..Rounds /\ n \in 1..S /\ n <= W(r)
  BY TiesAre
<1> HIDE DEF S, W
<1>4. WithThird <=> setup.third /\ Rounds >= 2
  <2>1. ThirdMatch[1] = Rounds + 1 /\ ThirdMatch[3] = 1 BY DEF ThirdMatch
  <2>2. TieOf(ThirdMatch) \notin Ties BY <1>1, <1>3, <2>1 DEF TieOf
  <2> QED BY BoardIs, <2>1, <2>2 DEF WithThird
<1>5. \A m \in Match :
        \/ /\ m = <<m[1], m[2], m[3]>> /\ m[3] \in {1, 2}
           /\ m[1] \in 1..Rounds /\ m[2] \in 1..S /\ m[2] <= W(m[1])
           /\ FirstLeg(m) \in Match
           /\ m[3] = 2 => m[1] < Rounds /\ ~HasBye(TieOf(m))
        \/ m = ThirdMatch /\ WithThird
  <2> TAKE m \in Match
  <2>1. CASE m[3] = 1 /\ m = FirstLeg(m) /\ TieOf(m) \in Ties
    BY <2>1, <1>3 DEF FirstLeg, TieOf
  <2>2. CASE m[3] = 2 /\ m = SecondLeg(m) /\ TieOf(m) \in Ties /\ m[1] < Rounds /\ ~HasBye(TieOf(m))
    <3>1. FirstLeg(m) \in Match
      <4>1. TieOf(m)[1] = m[1] /\ TieOf(m)[2] = m[2] BY DEF TieOf
      <4> QED BY BoardIs, <2>2, <4>1 DEF FirstLeg
    <3> QED BY <2>2, <3>1, <1>3 DEF SecondLeg, TieOf
  <2>3. CASE m = ThirdMatch /\ setup.third /\ Rounds >= 2 BY <2>3, <1>4
  <2> QED BY <2>1, <2>2, <2>3, BoardIs
<1>6. \A r \in 1..Rounds, n \in 1..S : n <= W(r) => <<r, n, 1>> \in Match
  <2> TAKE r \in 1..Rounds, n \in 1..S
  <2> HAVE n <= W(r)
  <2>1. <<r, n>> \in Ties BY <1>3
  <2> QED BY <2>1, BoardIs
<1>7. Final \in Match BY <1>1, <1>2, <1>6 DEF Final
<1>8. \A m \in Match :
        /\ m = <<m[1], m[2], m[3]>> /\ m[1] \in 1..Rounds + 1 /\ m[2] \in Nat \ {0} /\ m[3] \in {1, 2}
        /\ FirstLeg(m) \in Match
        /\ m[3] = 2 => m[1] < Rounds /\ ~HasBye(TieOf(m))
  <2> TAKE m \in Match
  <2>1. CASE m = ThirdMatch /\ WithThird
    <3>1. m = <<Rounds + 1, 1, 1>> /\ FirstLeg(m) = m BY <2>1 DEF ThirdMatch, FirstLeg
    <3> QED BY <3>1, <1>1
  <2> QED BY <2>1, <1>5, <1>1
<1>9. ASSUME NEW m \in Match, m[1] < Rounds
      PROVE  /\ m[1] \in 1..Rounds - 1 /\ m[2] \in 1..S /\ m[2] <= W(m[1])
             /\ (m[2] + 1) \div 2 \in 1..S /\ (m[2] + 1) \div 2 <= W(m[1] + 1)
  <2>1. ThirdMatch[1] = Rounds + 1 BY DEF ThirdMatch
  <2>2. m[1] \in 1..Rounds - 1 /\ m[2] \in 1..S /\ m[2] <= W(m[1]) BY <1>1, <1>5, <1>9, <2>1
  <2>3. W(m[1]) = 2 * W(m[1] + 1)
    <3>1. m[1] + 1 \in 2..Rounds /\ (m[1] + 1) - 1 = m[1] BY <2>2, <1>1
    <3> QED BY <3>1, <1>2
  <2>4. W(m[1] + 1) \in 1..S BY <1>1, <1>2, <2>2
  <2> QED BY <2>2, <2>3, <2>4, <1>1
<1>10. \A n \in Nat \ {0} :
         /\ SideFor(n) \in HomeAway
         /\ SideFor(n) = "home" => 2 * ((n + 1) \div 2) - 1 = n
         /\ SideFor(n) = "away" => 2 * ((n + 1) \div 2) = n
  BY DEF SideFor, HomeAway
<1>11. ASSUME NEW m \in Match, NEW g \in WinnerTo(m)
       PROVE  /\ m[1] < Rounds /\ WinnerTo(m) = {g}
              /\ g = [on |-> g.on, side |-> g.side] /\ g.on \in Match /\ g.on[3] = 1 /\ g.side \in HomeAway
              /\ g.on[1] = m[1] + 1 /\ SourceRound(g.on) = m[1] /\ SourceSlot(g.on, g.side) = m[2]
  <2>1. m[1] < Rounds /\ WinnerTo(m) = {[on |-> <<m[1] + 1, (m[2] + 1) \div 2, 1>>, side |-> SideFor(m[2])]}
    BY <1>11 DEF WinnerTo
  <2>2. g.on = <<m[1] + 1, (m[2] + 1) \div 2, 1>> /\ g.side = SideFor(m[2]) /\ WinnerTo(m) = {g}
        /\ g = [on |-> g.on, side |-> g.side]
    BY <2>1
  <2>3. g.on \in Match BY <1>1, <1>6, <1>9, <2>1, <2>2
  <2>4. m[2] \in Nat \ {0} BY <1>8
  <2>5. SourceSlot(g.on, g.side) = m[2]
    BY <1>10, <2>2, <2>4 DEF SourceSlot, HomeAway
  <2>6. SourceRound(g.on) = m[1] BY <1>1, <1>9, <2>1, <2>2 DEF SourceRound
  <2> QED BY <1>10, <2>1, <2>2, <2>3, <2>4, <2>5, <2>6
<1>12. ASSUME NEW m \in Match, NEW g \in LoserTo(m)
       PROVE  /\ m[1] = Rounds - 1 /\ LoserTo(m) = {g} /\ g.on = ThirdMatch
              /\ g = [on |-> g.on, side |-> g.side] /\ g.on \in Match /\ g.on[3] = 1 /\ g.side \in HomeAway
              /\ SourceRound(g.on) = m[1] /\ SourceSlot(g.on, g.side) = m[2] /\ g.on[1] = Rounds + 1
  <2>1. /\ m[1] = Rounds - 1 /\ WithThird
        /\ LoserTo(m) = {[on |-> ThirdMatch, side |-> SideFor(m[2])]}
    BY <1>12 DEF LoserTo
  <2>2. g.on = ThirdMatch /\ g.side = SideFor(m[2]) /\ LoserTo(m) = {g}
        /\ g = [on |-> g.on, side |-> g.side]
    BY <2>1
  <2>3. ThirdMatch = <<Rounds + 1, 1, 1>> BY DEF ThirdMatch
  <2>4. m[1] \in 1..Rounds - 1 /\ m[2] \in Nat \ {0} /\ m[2] <= 2
    <3>1. Rounds - 1 < Rounds BY <1>1
    <3>2. m[1] \in 1..Rounds - 1 /\ m[2] \in 1..S /\ m[2] <= W(m[1]) BY <1>9, <2>1, <3>1
    <3>3. W(m[1]) = 2 BY <1>1, <1>2, <2>1, <3>2
    <3> QED BY <1>1, <3>2, <3>3
  <2>5. m[2] = 1 \/ m[2] = 2 BY <2>4
  <2>6. SourceSlot(g.on, g.side) = m[2]
    BY <2>2, <2>3, <2>5 DEF SourceSlot, SideFor
  <2>7. SourceRound(g.on) = m[1] BY <1>1, <2>1, <2>2, <2>3 DEF SourceRound
  <2> QED BY <1>10, <2>1, <2>2, <2>3, <2>4, <2>6, <2>7 DEF WithThird
<1>13. \A k \in Match : k[1] >= 2 => \A side \in HomeAway : \E m \in Match : m[3] = 1 /\
         \/ k[1] <= Rounds /\ WinnerTo(m) = {[on |-> FirstLeg(k), side |-> side]}
         \/ k = ThirdMatch /\ LoserTo(m) = {[on |-> ThirdMatch, side |-> side]}
  <2> TAKE k \in Match
  <2> HAVE k[1] >= 2
  <2> TAKE side \in HomeAway
  <2>0. side = "home" \/ side = "away" BY DEF HomeAway
  <2>1. CASE k[1] <= Rounds
    <3> DEFINE n == IF side = "home" THEN 2 * k[2] - 1 ELSE 2 * k[2]
    <3>1. k[1] \in 2..Rounds /\ k[2] \in 1..S /\ k[2] <= W(k[1])
      <4>1. ThirdMatch[1] = Rounds + 1 BY DEF ThirdMatch
      <4> QED BY <1>1, <1>5, <2>1, <4>1
    <3>2. W(k[1] - 1) = 2 * W(k[1]) /\ k[1] - 1 \in 1..Rounds /\ W(k[1] - 1) \in 1..S
      <4>1. k[1] - 1 \in 1..Rounds BY <1>1, <3>1
      <4> QED BY <1>2, <3>1, <4>1
    <3>3. n \in 1..S /\ n <= W(k[1] - 1) /\ SideFor(n) = side /\ (n + 1) \div 2 = k[2]
      <4>0. W(k[1]) \in 1..S BY <1>1, <1>2, <3>1
      <4>1. n \in 1..W(k[1] - 1) BY <1>1, <3>1, <3>2, <4>0
      <4>2. CASE side = "home"
        <5>1. n = 2 * k[2] - 1 BY <4>2
        <5>2. n % 2 = 1 /\ (n + 1) \div 2 = k[2] BY <5>1, <3>1
        <5> QED BY <1>1, <3>2, <4>1, <4>2, <5>2 DEF SideFor
      <4>3. CASE side = "away"
        <5>1. n = 2 * k[2] BY <4>3
        <5>2. n % 2 = 0 /\ (n + 1) \div 2 = k[2] BY <5>1, <3>1
        <5> QED BY <1>1, <3>2, <4>1, <4>3, <5>2 DEF SideFor
      <4> QED BY <2>0, <4>2, <4>3
    <3>4. PICK m : m = <<k[1] - 1, n, 1>> OBVIOUS
    <3> HIDE DEF n
    <3>5. m \in Match BY <1>6, <3>2, <3>3, <3>4
    <3>6. m[1] < Rounds /\ m[1] + 1 = k[1] /\ (m[2] + 1) \div 2 = k[2] /\ SideFor(m[2]) = side /\ m[3] = 1
      BY <1>1, <3>1, <3>3, <3>4
    <3>7. WinnerTo(m) = {[on |-> FirstLeg(k), side |-> side]} BY <3>6 DEF WinnerTo, FirstLeg
    <3> QED BY <2>1, <3>5, <3>6, <3>7
  <2>2. CASE k = ThirdMatch /\ WithThird
    <3> DEFINE n == IF side = "home" THEN 1 ELSE 2
    <3>1. Rounds >= 2 BY <2>2, <1>4
    <3>2. W(Rounds - 1) = 2 /\ Rounds - 1 \in 1..Rounds BY <1>1, <1>2, <3>1
    <3>3. n \in 1..S /\ n <= 2 /\ SideFor(n) = side BY <1>1, <2>0 DEF SideFor
    <3>4. PICK m : m = <<Rounds - 1, n, 1>> OBVIOUS
    <3> HIDE DEF n
    <3>5. m \in Match BY <1>6, <3>2, <3>3, <3>4
    <3>6. m[1] = Rounds - 1 /\ SideFor(m[2]) = side /\ m[3] = 1 BY <3>3, <3>4
    <3>7. LoserTo(m) = {[on |-> ThirdMatch, side |-> side]} BY <2>2, <3>6 DEF LoserTo
    <3> QED BY <2>2, <3>5, <3>6, <3>7
  <2>3. k[1] <= Rounds \/ (k = ThirdMatch /\ WithThird)
    BY <1>1, <1>5
  <2> QED BY <2>1, <2>2, <2>3
<1>14. \A m \in Match : \A g \in Goals(m) :
         /\ g = [on |-> g.on, side |-> g.side] /\ g.on \in Match /\ g.on[3] = 1 /\ g.side \in HomeAway
         /\ m[1] < g.on[1] /\ SourceRound(g.on) = m[1] /\ SourceSlot(g.on, g.side) = m[2]
  <2> TAKE m \in Match
  <2> TAKE g \in Goals(m)
  <2>1. CASE g \in WinnerTo(m)
    <3>1. m[1] \in Int BY <1>1, <1>8
    <3> QED BY <1>11, <2>1, <3>1
  <2>2. CASE g \in LoserTo(m)
    <3>1. Rounds - 1 < Rounds + 1 BY <1>1
    <3> QED BY <1>12, <2>2, <3>1
  <2> QED BY <2>1, <2>2 DEF Goals
<1>15. \A m \in Match :
         /\ WinnerTo(m) = {} \/ \E g \in Goals(m) : WinnerTo(m) = {g}
         /\ LoserTo(m) = {} \/ \E g \in Goals(m) : LoserTo(m) = {g}
         /\ \A g \in WinnerTo(m) : g.on[1] = m[1] + 1 /\ m[1] < Rounds
         /\ \A g \in LoserTo(m) : g.on = ThirdMatch /\ m[1] = Rounds - 1
  BY <1>11, <1>12 DEF Goals
<1> QED BY <1>1, <1>7, <1>8, <1>13, <1>14, <1>15 DEF Shape

-----------------------------------------------------------------------------
(* Legs, goals and rows *)

LEMMA Legs ==
  ASSUME Shape, NEW m \in Match
  PROVE  /\ FirstLeg(m) \in Match /\ TieOf(FirstLeg(m)) = TieOf(m)
         /\ m[3] = 1 => m = FirstLeg(m)
         /\ m[3] = 2 => m = SecondLeg(m) /\ ~FirstOfTwo(m) /\ FirstOfTwo(FirstLeg(m)) /\ m # FirstLeg(m)
         /\ m[3] = 1 \/ m[3] = 2
         /\ FirstOfTwo(m) => /\ m = FirstLeg(m) /\ SecondLeg(m) \in Match /\ SecondLeg(m)[3] = 2
                             /\ FirstLeg(SecondLeg(m)) = m /\ ~FirstOfTwo(SecondLeg(m))
                             /\ SecondLeg(m) # m /\ TieOf(SecondLeg(m)) = TieOf(m)
<1>1. /\ m = <<m[1], m[2], m[3]>> /\ m[3] \in {1, 2} /\ FirstLeg(m) \in Match
      /\ m[3] = 2 => m[1] < Rounds /\ ~HasBye(TieOf(m))
  BY DEF Shape
<1>2. \A a, b, c : <<a, b, c>>[1] = a /\ <<a, b, c>>[2] = b /\ <<a, b, c>>[3] = c OBVIOUS
<1>3. TieOf(FirstLeg(m)) = TieOf(m) /\ SecondLeg(FirstLeg(m)) = SecondLeg(m) /\ FirstLeg(m)[3] = 1
      /\ SecondLeg(m)[3] = 2 /\ FirstLeg(SecondLeg(m)) = FirstLeg(m) /\ TieOf(SecondLeg(m)) = TieOf(m)
  BY <1>2 DEF TieOf, FirstLeg, SecondLeg
<1>4. m[3] = 1 => m = FirstLeg(m) BY <1>1 DEF FirstLeg
<1>5. m[3] = 2 => m = SecondLeg(m) BY <1>1 DEF SecondLeg
<1> QED BY <1>1, <1>3, <1>4, <1>5 DEF FirstOfTwo

LEMMA SameTie ==
  ASSUME Shape, NEW m \in Match, NEW k \in Match, TieOf(m) = TieOf(k)
  PROVE  /\ FirstLeg(m) = FirstLeg(k) /\ SecondLeg(m) = SecondLeg(k) /\ m[1] = k[1]
         /\ m = FirstLeg(k) \/ m = SecondLeg(k)
         /\ m[3] = k[3] => m = k
         /\ WinnerTo(m) = WinnerTo(k) /\ LoserTo(m) = LoserTo(k) /\ Goals(m) = Goals(k)
         /\ Decider(m) = Decider(k)
<1>1. m[1] = k[1] /\ m[2] = k[2] BY DEF TieOf
<1>2. FirstLeg(m) = FirstLeg(k) /\ SecondLeg(m) = SecondLeg(k) BY <1>1 DEF FirstLeg, SecondLeg
<1>3. WinnerTo(m) = WinnerTo(k) BY <1>1 DEF WinnerTo
<1>4. LoserTo(m) = LoserTo(k) BY <1>1 DEF LoserTo
<1>5. m = <<m[1], m[2], m[3]>> /\ k = <<k[1], k[2], k[3]>> BY DEF Shape
<1> QED BY <1>1, <1>2, <1>3, <1>4, <1>5, Legs DEF Goals, Decider

LEMMA TieDecider ==
  ASSUME Shape, NEW m \in Match
  PROVE  /\ Decider(m) \in Match /\ TieOf(Decider(m)) = TieOf(m) /\ ~FirstOfTwo(Decider(m))
         /\ ~FirstOfTwo(m) => Decider(m) = m
<1>1. \A a, b, c : <<a, b, c>>[1] = a /\ <<a, b, c>>[2] = b /\ <<a, b, c>>[3] = c OBVIOUS
<1>2. SecondLeg(m)[3] = 2 /\ TieOf(SecondLeg(m)) = TieOf(m) /\ FirstLeg(m)[3] = 1
      /\ TieOf(FirstLeg(m)) = TieOf(m) /\ SecondLeg(FirstLeg(m)) = SecondLeg(m)
  BY <1>1 DEF SecondLeg, FirstLeg, TieOf
<1>3. FirstLeg(m) \in Match BY Legs
<1> QED BY <1>2, <1>3, Legs DEF Decider, FirstOfTwo

LEMMA SameGoal ==
  ASSUME Shape, NEW m \in Match, NEW k \in Match, NEW g \in Goals(m), NEW h \in Goals(k),
         g.on = h.on, g.side = h.side
  PROVE  TieOf(m) = TieOf(k)
<1>1. SourceRound(g.on) = m[1] /\ SourceSlot(g.on, g.side) = m[2] BY DEF Shape
<1>2. SourceRound(h.on) = k[1] /\ SourceSlot(h.on, h.side) = k[2] BY DEF Shape
<1> QED BY <1>1, <1>2 DEF TieOf

LEMMA GoalKinds ==
  ASSUME Shape, NEW m \in Match, NEW k \in Match, NEW g \in WinnerTo(m), NEW h \in LoserTo(k)
  PROVE  g.on # h.on
<1>1. g.on[1] = m[1] + 1 /\ m[1] < Rounds /\ h.on = ThirdMatch /\ Rounds \in 1..4 /\ m[1] \in 1..Rounds + 1
  BY DEF Shape
<1>2. ThirdMatch[1] = Rounds + 1 BY DEF ThirdMatch
<1> QED BY <1>1, <1>2

LEMMA GoalOn ==
  ASSUME Shape, NEW m \in Match, NEW g \in Goals(m)
  PROVE  /\ g = [on |-> g.on, side |-> g.side] /\ g.on \in Match /\ g.on[3] = 1 /\ g.side \in HomeAway
         /\ TieOf(g.on) # TieOf(m) /\ g.on[1] >= 2 /\ g.on[1] # 1 /\ g.on = FirstLeg(g.on)
<1>1. /\ g = [on |-> g.on, side |-> g.side] /\ g.on \in Match /\ g.on[3] = 1 /\ g.side \in HomeAway
      /\ m[1] < g.on[1] /\ m[1] \in 1..Rounds + 1 /\ Rounds \in 1..4 /\ g.on[1] \in 1..Rounds + 1
  BY DEF Shape
<1>2. g.on[1] # m[1] /\ g.on[1] >= 2 /\ g.on[1] # 1 BY <1>1
<1>3. TieOf(g.on) # TieOf(m) BY <1>2 DEF TieOf
<1> QED BY <1>1, <1>2, <1>3, Legs

LEMMA RowTypes ==
  ASSUME Rows, NEW m \in Match
  PROVE  /\ match[m] \in MatchRow
         /\ match[m].home \in Team \cup {Null} /\ match[m].away \in Team \cup {Null}
         /\ match[m].winner \in Team \cup {Null} /\ match[m].isBye \in BOOLEAN
         /\ match[m].status \in {"SCHEDULED", "COMPLETED"}
         /\ match[m]["home"] = match[m].home /\ match[m]["away"] = match[m].away
         /\ TeamsOf(m) = {match[m].home, match[m].away}
         /\ Match = Board /\ match = [k \in Match |-> match[k]]
<1>1. match \in [Board -> MatchRow] BY DEF Rows
<1>2. Match = Board BY <1>1 DEF Match
<1>3. match[m] \in MatchRow BY <1>1, <1>2
<1> QED BY <1>1, <1>2, <1>3 DEF MatchRow, TeamsOf, Match

LEMMA Sides ==
  /\ \A side \in HomeAway : side = "home" \/ side = "away"
  /\ "home" \in HomeAway /\ "away" \in HomeAway
  /\ Other("home") = "away" /\ Other("away") = "home"
  /\ \A side \in HomeAway : Other(side) \in HomeAway /\ Other(side) # side /\ Other(Other(side)) = side
BY DEF HomeAway, Other

LEMMA RowFacts ==
  ASSUME Rows, Shape, NEW m \in Match
  PROVE  /\ m[1] # 1 \/ m[3] = 2 \/ FirstOfTwo(m) => ~match[m].isBye
         /\ match[m].isBye => /\ Decided(m) /\ match[m].winner = match[m].home /\ match[m].home \in Team
                              /\ match[m].status = "COMPLETED" /\ Seeded(match[m].home, 1, m[2])
                              /\ m[1] = 1 /\ m[3] = 1 /\ Null \in TeamsOf(m)
         /\ Decided(m) => ~FirstOfTwo(m) /\ Decider(m) = m /\ match[m].status = "COMPLETED"
         /\ ~FirstOfTwo(m) /\ match[m].status = "COMPLETED" => Decided(m)
         /\ Decided(m) /\ ~match[m].isBye => Null \notin TeamsOf(m)
         /\ Decided(m) => match[m].winner \in TeamsOf(m) /\ match[m].winner \in Team
         /\ match[m].status = "SCHEDULED" => match[m].winner = Null /\ ~match[m].isBye
         /\ match[m].status # "COMPLETED" <=> match[m].status = "SCHEDULED"
<1>1. RowSound(m) BY DEF Rows
<1>2. HasBye(TieOf(m)) => m[1] = 1 BY DEF HasBye, TieOf
<1>3. m[3] = 2 => ~HasBye(TieOf(m)) BY DEF Shape
<1>4. FirstOfTwo(m) => ~HasBye(TieOf(m))
  <2> HAVE FirstOfTwo(m)
  <2>1. SecondLeg(m) \in Match /\ SecondLeg(m)[3] = 2 /\ TieOf(SecondLeg(m)) = TieOf(m) BY Legs
  <2> QED BY <2>1 DEF Shape
<1>5. match[m].isBye <=> HasBye(TieOf(m)) BY <1>1 DEF RowSound
<1>6. m[1] # 1 \/ m[3] = 2 \/ FirstOfTwo(m) => ~match[m].isBye BY <1>2, <1>3, <1>4, <1>5
<1>7. m[3] = 1 \/ m[3] = 2 BY Legs
<1>8. match[m].isBye => /\ Decided(m) /\ match[m].winner = match[m].home /\ match[m].home \in Team
                        /\ match[m].status = "COMPLETED" /\ Seeded(match[m].home, 1, m[2])
                        /\ m[1] = 1 /\ m[3] = 1 /\ Null \in TeamsOf(m)
  <2> HAVE match[m].isBye
  <2>1. match[m].status = "COMPLETED" /\ match[m].home # Null /\ match[m].away = Null
        /\ Seeded(match[m].home, 1, m[2])
    BY <1>1 DEF RowSound
  <2>2. Decided(m) BY <1>1, <1>6, <2>1 DEF RowSound, Decided
  <2>3. match[m].winner \in TeamsOf(m) /\ match[m].winner # Null BY <1>1, <2>2 DEF RowSound, Decided
  <2> QED BY <1>6, <1>7, <2>1, <2>2, <2>3, RowTypes
<1>9. Decided(m) => ~FirstOfTwo(m) BY <1>1 DEF RowSound, Decided
<1>10. Decided(m) => match[m].status = "COMPLETED" BY <1>1, <1>9 DEF RowSound, Decided
<1>11. Decided(m) => match[m].winner \in TeamsOf(m) /\ match[m].winner \in Team
  BY <1>1, RowTypes DEF RowSound, Decided
<1>12. ~FirstOfTwo(m) /\ match[m].status = "COMPLETED" => Decided(m) BY <1>1 DEF RowSound, Decided
<1>13. Decided(m) /\ ~match[m].isBye => Null \notin TeamsOf(m) BY <1>1, <1>10 DEF RowSound
<1>14. match[m].status = "SCHEDULED" => match[m].winner = Null /\ ~match[m].isBye
  BY <1>8, <1>10 DEF Decided
<1>15. match[m].status # "COMPLETED" <=> match[m].status = "SCHEDULED" BY RowTypes
<1> QED BY <1>6, <1>8, <1>9, <1>10, <1>11, <1>12, <1>13, <1>14, <1>15, TieDecider

\* The two legs of a tie are between the same teams, the other way round.
LEMMA Mirror ==
  ASSUME Rows, Shape, NEW m \in Match, m[3] = 2
  PROVE  /\ TeamsOf(m) = TeamsOf(FirstLeg(m))
         /\ \A side \in HomeAway : match[m][side] = match[FirstLeg(m)][Other(side)]
<1>1. match[m].home = match[FirstLeg(m)].away /\ match[m].away = match[FirstLeg(m)].home
  BY DEF Rows, RowSound
<1>2. FirstLeg(m) \in Match BY Legs
<1>3. /\ match[m]["home"] = match[m].home /\ match[m]["away"] = match[m].away
      /\ TeamsOf(m) = {match[m].home, match[m].away}
  BY RowTypes
<1>4. PICK f : f = FirstLeg(m) OBVIOUS
<1>5. /\ match[f]["home"] = match[f].home /\ match[f]["away"] = match[f].away
      /\ TeamsOf(f) = {match[f].home, match[f].away}
  BY <1>2, <1>4, RowTypes
<1>6. TeamsOf(m) = TeamsOf(f) BY <1>1, <1>3, <1>4, <1>5
<1>7. \A side \in HomeAway : match[m][side] = match[f][Other(side)]
  <2> TAKE side \in HomeAway
  <2>1. CASE side = "home" BY <1>1, <1>3, <1>4, <1>5, <2>1, Sides
  <2>2. CASE side = "away" BY <1>1, <1>3, <1>4, <1>5, <2>2, Sides
  <2> QED BY <2>1, <2>2, Sides
<1> QED BY <1>4, <1>6, <1>7

-----------------------------------------------------------------------------
(* Where a team started says where it can be *)

\* A team is in one place of the bracket, so it leads to one tie of a round.
LEMMA SeededOnce ==
  ASSUME setup \in Setup, NEW x \in Team, NEW r \in 0..4, NEW n \in Nat \ {0}, NEW k \in Nat \ {0},
         Seeded(x, r, n), Seeded(x, r, k)
  PROVE  n = k
<1>1. PICK w : w = 2 ^ r OBVIOUS
<1>2. w \in 1..16 BY <1>1, Powers
<1>3. PICK i \in DOMAIN setup.slots : setup.slots[i] = x /\ (n - 1) * w < i /\ i <= n * w
  BY <1>1 DEF Seeded
<1>4. PICK j \in DOMAIN setup.slots : setup.slots[j] = x /\ (k - 1) * w < j /\ j <= k * w
  BY <1>1 DEF Seeded
<1>5. x # Null BY KnockoutAssumption
<1>6. i = j BY <1>3, <1>4, <1>5, SetupFacts
<1>7. i \in Int BY SetupFacts, Sizes
<1>8. ASSUME NEW a \in Nat \ {0}, NEW b \in Nat \ {0}, (a - 1) * w < i, i <= b * w PROVE a <= b
  <2> SUFFICES ASSUME a > b PROVE FALSE OBVIOUS
  <2>1. b <= a - 1 BY <1>8
  <2>2. b * w <= (a - 1) * w BY <2>1, <1>2, <1>8
  <2> QED BY <1>2, <1>7, <1>8, <2>2
<1> QED BY <1>3, <1>4, <1>6, <1>8

\* The two ties that lead to tie n of round r are 2n - 1 and 2n of the round before.
LEMMA SeededUp ==
  ASSUME setup \in Setup, NEW x, NEW r \in 1..4, NEW n \in Nat \ {0},
         Seeded(x, r - 1, 2 * n - 1) \/ Seeded(x, r - 1, 2 * n)
  PROVE  Seeded(x, r, n)
<1>1. PICK w : w = 2 ^ (r - 1) OBVIOUS
<1>2. 2 ^ r = 2 * w BY <1>1, Powers, Zenon
<1>3. w \in 1..16
  <2>1. r - 1 \in 0..4 OBVIOUS
  <2> QED BY <1>1, <2>1, Powers
<1>4. /\ (n - 1) * (2 * w) = (2 * n - 1 - 1) * w
      /\ (n - 1) * (2 * w) <= (2 * n - 1) * w
      /\ (2 * n - 1) * w <= n * (2 * w) /\ (2 * n) * w = n * (2 * w)
  BY <1>3
<1>5. \A i \in DOMAIN setup.slots : i \in Int BY SetupFacts, Sizes
<1>6. /\ (n - 1) * (2 * w) \in Int /\ (2 * n - 1 - 1) * w \in Int /\ (2 * n - 1) * w \in Int
      /\ n * (2 * w) \in Int /\ (2 * n) * w \in Int
  BY <1>3
<1>7. CASE Seeded(x, r - 1, 2 * n - 1)
  <2>1. PICK i \in DOMAIN setup.slots :
          setup.slots[i] = x /\ (2 * n - 1 - 1) * w < i /\ i <= (2 * n - 1) * w
    BY <1>1, <1>7 DEF Seeded
  <2>2. (n - 1) * (2 * w) < i /\ i <= n * (2 * w) BY <2>1, <1>4, <1>5, <1>6
  <2> QED BY <1>2, <2>1, <2>2 DEF Seeded
<1>8. CASE Seeded(x, r - 1, 2 * n)
  <2>1. PICK i \in DOMAIN setup.slots :
          setup.slots[i] = x /\ (2 * n - 1) * w < i /\ i <= (2 * n) * w
    BY <1>1, <1>8 DEF Seeded
  <2>2. (n - 1) * (2 * w) < i /\ i <= n * (2 * w) BY <2>1, <1>4, <1>5, <1>6
  <2> QED BY <1>2, <2>1, <2>2 DEF Seeded
<1> QED BY <1>7, <1>8

\* Nobody plays themselves.
LEMMA NobodyAlone ==
  ASSUME setup \in Setup, Rows, Shape, NEW m \in Match, Null \notin TeamsOf(m)
  PROVE  match[m].home # match[m].away
<1>1. PICK f \in Match : f = FirstLeg(m) BY Legs
<1>2. f[3] = 1 /\ TeamsOf(f) = TeamsOf(m) /\ (match[f].home # match[f].away => match[m].home # match[m].away)
  <2>1. CASE m[3] = 1 BY <1>1, <2>1, Legs
  <2>2. CASE m[3] = 2
    <3>1. TeamsOf(f) = TeamsOf(m) BY <1>1, <2>2, Mirror
    <3>2. match[m].home = match[f].away /\ match[m].away = match[f].home
      BY <1>1, <2>2 DEF Rows, RowSound
    <3>3. f[3] = 1 BY <1>1 DEF FirstLeg
    <3> QED BY <3>1, <3>2, <3>3
  <2> QED BY <2>1, <2>2, Legs
<1>3. ~match[f].isBye /\ Null \notin TeamsOf(f) BY <1>2, RowFacts
<1>4. /\ match[f].home \in Team /\ match[f].away \in Team
      /\ match[f]["home"] = match[f].home /\ match[f]["away"] = match[f].away
  BY <1>3, RowTypes
<1>5. Seeded(match[f].home, SourceRound(f), SourceSlot(f, "home"))
      /\ Seeded(match[f].away, SourceRound(f), SourceSlot(f, "away"))
  <2>1. \A side \in HomeAway : match[f][side] # Null => Seeded(match[f][side], SourceRound(f), SourceSlot(f, side))
    BY <1>2, <1>3 DEF Rows, RowSound
  <2>2. match[f].home # Null /\ match[f].away # Null BY <1>4, KnockoutAssumption
  <2> QED BY <1>4, <2>1, <2>2, Sides
<1>6. SourceRound(f) \in 0..4
  <2>1. f[1] \in 1..Rounds + 1 /\ Rounds \in 1..4 BY DEF Shape
  <2> QED BY <2>1 DEF SourceRound
<1>7. SourceSlot(f, "home") = 2 * f[2] - 1 /\ SourceSlot(f, "away") = 2 * f[2] /\ f[2] \in Nat \ {0}
  BY DEF SourceSlot, Shape
<1>8. SourceSlot(f, "home") \in Nat \ {0} /\ SourceSlot(f, "away") \in Nat \ {0}
      /\ SourceSlot(f, "home") # SourceSlot(f, "away")
  BY <1>7
<1> QED BY <1>2, <1>4, <1>5, <1>6, <1>8, SeededOnce

\* The winner and the loser of a match may go where the match leads.
LEMMA SeededOn ==
  ASSUME setup \in Setup, Rows, Shape, NEW m \in Match, NEW g \in Goals(m), NEW x \in Team,
         x \in TeamsOf(m)
  PROVE  Seeded(x, SourceRound(g.on), SourceSlot(g.on, g.side))
<1>1. SourceRound(g.on) = m[1] /\ SourceSlot(g.on, g.side) = m[2] /\ m[2] \in Nat \ {0} BY DEF Shape
<1>2. m[1] \in 1..4
  <2>1. m[1] \in 1..Rounds + 1 /\ Rounds \in 1..4 /\ m[1] < g.on[1] /\ g.on[1] \in 1..Rounds + 1
    BY DEF Shape
  <2> QED BY <2>1
<1>3. CASE match[m].isBye
  <2>1. Seeded(match[m].home, 1, m[2]) /\ m[1] = 1 BY <1>3, RowFacts
  <2>2. match[m].away = Null BY <1>3 DEF Rows, RowSound
  <2>3. x = match[m].home BY <2>2, RowTypes, KnockoutAssumption
  <2> QED BY <1>1, <2>1, <2>3
<1>4. CASE ~match[m].isBye
  <2>1. PICK f \in Match : f = FirstLeg(m) BY Legs
  <2>2. f[3] = 1 /\ f[1] = m[1] /\ f[2] = m[2] BY <2>1 DEF FirstLeg
  <2>3. x \in TeamsOf(f) /\ ~match[f].isBye
    <3>1. CASE m[3] = 1 BY <1>4, <2>1, <3>1, Legs
    <3>2. CASE m[3] = 2
      <4>1. TeamsOf(f) = TeamsOf(m) /\ FirstOfTwo(f) BY <2>1, <3>2, Mirror, Legs
      <4> QED BY <4>1, RowFacts
    <3> QED BY <3>1, <3>2, Legs
  <2>4. PICK side \in HomeAway : x = match[f][side]
    <3>1. x = match[f].home \/ x = match[f].away BY <2>3, RowTypes
    <3> QED BY <3>1, RowTypes, Sides
  <2>5. x # Null BY KnockoutAssumption
  <2>6. Seeded(x, SourceRound(f), SourceSlot(f, side)) BY <2>2, <2>3, <2>4, <2>5 DEF Rows, RowSound
  <2>7. SourceRound(f) = f[1] - 1
    <3>1. f[1] \in 1..Rounds
      <4>1. m[1] < g.on[1] /\ g.on[1] \in 1..Rounds + 1 /\ m[1] \in 1..Rounds + 1 /\ Rounds \in 1..4 BY DEF Shape
      <4> QED BY <2>2, <4>1
    <3>2. Rounds \in 1..4 BY DEF Shape
    <3> QED BY <3>1, <3>2 DEF SourceRound
  <2>8. SourceSlot(f, side) = 2 * m[2] - 1 \/ SourceSlot(f, side) = 2 * m[2]
    BY <2>2 DEF SourceSlot
  <2>9. Seeded(x, m[1] - 1, 2 * m[2] - 1) \/ Seeded(x, m[1] - 1, 2 * m[2])
    BY <2>2, <2>6, <2>7, <2>8
  <2> QED BY <1>1, <1>2, <2>9, SeededUp
<1> QED BY <1>3, <1>4, RowTypes

-----------------------------------------------------------------------------
(* The request in flight *)

LEMMA TodoOf ==
  ASSUME Alone, NEW s \in Slot, request[s].todo # <<>>
  PROVE  /\ request[s] # Idle /\ Todo = request[s].todo /\ Todo \in Seq(AnyStep) /\ Todo # <<>>
         /\ \A t \in Slot : t # s => request[t] = Idle
         /\ Todo[1] = Next1(s) /\ Todo[1] \in AnyStep /\ Len(Todo) \in Nat \ {0}
<1>1. request[s] # Idle BY DEF Idle
<1>2. \A t \in Slot : request[t] # Idle => t = s BY <1>1 DEF Alone
<1>3. (CHOOSE t \in Slot : request[t] # Idle) = s BY <1>1, <1>2
<1>4. Todo = request[s].todo BY <1>1, <1>3 DEF Todo
<1>5. Todo \in Seq(AnyStep) /\ Todo # <<>> BY <1>1, <1>4 DEF Alone
<1>6. Todo[1] \in AnyStep /\ Len(Todo) \in Nat \ {0} BY <1>5
<1> QED BY <1>1, <1>2, <1>4, <1>5, <1>6 DEF Next1

LEMMA ThenTodo ==
  ASSUME Alone, NEW s \in Slot, request[s].todo # <<>>, NEW steps \in Seq(AnyStep), Then(s, steps)
  PROVE  Alone' /\ Todo' = steps \o Tail(Todo)
<1>1. Todo = request[s].todo /\ Todo \in Seq(AnyStep) /\ Todo # <<>>
      /\ (\A t \in Slot : t # s => request[t] = Idle) /\ request[s] # Idle
  BY TodoOf
<1>2. PICK todo : todo = steps \o Tail(request[s].todo) OBVIOUS
<1>3. todo \in Seq(AnyStep) /\ todo = steps \o Tail(Todo) BY <1>1, <1>2
<1>4. PICK r : r = request[s] OBVIOUS
<1>5. r = [on |-> r.on, todo |-> r.todo] BY <1>1, <1>4 DEF Alone
<1>6. PICK q : q = IF todo = <<>> THEN Idle ELSE [r EXCEPT !.todo = todo] OBVIOUS
<1>7. request = [t \in Slot |-> request[t]] BY DEF Alone
<1>8. request' = [t \in Slot |-> IF t = s THEN q ELSE request[t]]
  BY <1>2, <1>4, <1>6, <1>7 DEF Then
<1>9. todo # <<>> => q = [on |-> r.on, todo |-> todo] BY <1>5, <1>6
<1>10. q # Idle <=> todo # <<>> BY <1>6, <1>9 DEF Idle
<1>11. request'[s] = q /\ \A t \in Slot : t # s => request'[t] = Idle BY <1>1, <1>8
<1>12. Alone'
  <2>1. request' = [t \in Slot |-> request'[t]] BY <1>8
  <2>2. \A t, u \in Slot : request'[t] # Idle /\ request'[u] # Idle => t = u BY <1>11
  <2>3. ASSUME NEW t \in Slot, request'[t] # Idle
        PROVE  /\ request'[t] = [on |-> request'[t].on, todo |-> request'[t].todo]
               /\ request'[t].todo \in Seq(AnyStep) /\ request'[t].todo # <<>>
    <3>1. t = s /\ request'[t] = q BY <1>11, <2>3
    <3>2. q = [on |-> r.on, todo |-> todo] /\ todo # <<>> BY <1>9, <1>10, <2>3, <3>1
    <3> QED BY <1>3, <3>1, <3>2
  <2> QED BY <2>1, <2>2, <2>3 DEF Alone
<1>13. Todo' = todo
  <2>1. CASE todo = <<>>
    <3>1. \A t \in Slot : request'[t] = Idle BY <1>10, <1>11, <2>1
    <3> QED BY <2>1, <3>1 DEF Todo, Idle
  <2>2. CASE todo # <<>>
    <3>1. request'[s] # Idle BY <1>10, <1>11, <2>2
    <3>2. (CHOOSE t \in Slot : request'[t] # Idle) = s BY <1>11, <3>1
    <3>3. request'[s].todo = todo BY <1>9, <1>11, <2>2
    <3> QED BY <3>1, <3>2, <3>3 DEF Todo, Idle
  <2> QED BY <2>1, <2>2
<1> QED BY <1>3, <1>12, <1>13

LEMMA BeginTodo ==
  ASSUME OneByOne, setup \in Setup, Alone, NEW s \in Slot, NEW who, NEW steps \in Seq(AnyStep),
         steps # <<>>, Begin(s, who, steps)
  PROVE  /\ Todo = <<>> /\ Alone' /\ Todo' = steps
         /\ UNCHANGED <<setup, match, withdrawn, phase, status, placements>>
<1>1. PICK busy : busy = {t \in Slot : request[t] # Idle} OBVIOUS
<1>2. IsFiniteSet(busy) BY <1>1, FS_Subset DEF OneByOne
<1>3. Cardinality(busy) < setup.requests BY <1>1 DEF Begin
<1>4. setup.requests \in Nat /\ setup.requests <= 1 BY KnockoutAssumption DEF OneByOne
<1>5. Cardinality(busy) \in Nat BY <1>2, FS_CardinalityType
<1>6. busy = {} BY <1>2, <1>3, <1>4, <1>5, FS_EmptySet
<1>7. \A t \in Slot : request[t] = Idle BY <1>1, <1>6
<1>8. Todo = <<>> BY <1>7 DEF Todo
<1>9. request = [t \in Slot |-> request[t]] BY DEF Alone
<1>10. PICK q : q = [on |-> who, todo |-> steps] OBVIOUS
<1>11. request' = [t \in Slot |-> IF t = s THEN q ELSE Idle] BY <1>7, <1>9, <1>10 DEF Begin
<1>12. q # Idle BY <1>10 DEF Idle
<1>13. request'[s] = q /\ \A t \in Slot : t # s => request'[t] = Idle BY <1>11
<1>14. Todo' = steps
  <2>1. (CHOOSE t \in Slot : request'[t] # Idle) = s BY <1>12, <1>13
  <2> QED BY <1>10, <1>12, <1>13, <2>1 DEF Todo, Idle
<1>15. request' = [t \in Slot |-> request'[t]] BY <1>11
<1>16. \A t, u \in Slot : request'[t] # Idle /\ request'[u] # Idle => t = u BY <1>13
<1>17. ASSUME NEW t \in Slot, request'[t] # Idle
       PROVE  /\ request'[t] = [on |-> request'[t].on, todo |-> request'[t].todo]
              /\ request'[t].todo \in Seq(AnyStep) /\ request'[t].todo # <<>>
  <2>1. request'[t] = q BY <1>13, <1>17
  <2> QED BY <1>10, <2>1
<1>18. Alone' BY <1>15, <1>16, <1>17 DEF Alone
<1> QED BY <1>8, <1>14, <1>18 DEF Begin

-----------------------------------------------------------------------------
(* Steps still to do: the head gives way to others *)

LEMMA StepKinds ==
  ASSUME NEW t \in AnyStep
  PROVE  /\ t.do \in {"save", "place", "check", "withdraw", "pending", "complete", "after"}
         /\ t.do = "save" => t \in SaveStep
         /\ t.do = "place" => t \in PlaceStep /\ t = [do |-> "place", on |-> t.on, side |-> t.side, team |-> t.team]
         /\ t.do = "check" => t = Check(t.on)
         /\ t.do = "pending" => t.team \in Team
         /\ t.do = "withdraw" => t.team \in Team
         /\ t.do = "complete" => t.with \subseteq (1..4) \X Team
<1>1. CASE t \in SaveStep BY <1>1 DEF SaveStep
<1>2. CASE t \in PlaceStep BY <1>2 DEF PlaceStep
<1>3. CASE t \in CheckStep BY <1>3 DEF CheckStep, Check
<1>4. CASE t \in TeamStep BY <1>4 DEF TeamStep
<1>5. CASE t \in EndStep BY <1>5 DEF EndStep
<1>6. CASE t \in AfterStep BY <1>6 DEF AfterStep
<1> QED BY <1>1, <1>2, <1>3, <1>4, <1>5, <1>6 DEF AnyStep

\* V is T with its head replaced by u.
Spliced(u, T, V) ==
  /\ V \in Seq(AnyStep) /\ Len(V) = Len(u) + Len(T) - 1
  /\ Len(u) \in Nat /\ Len(T) \in Nat \ {0} /\ Len(V) \in Nat
  /\ DOMAIN u = 1..Len(u) /\ DOMAIN T = 1..Len(T) /\ DOMAIN V = 1..Len(V)
  /\ \A i \in DOMAIN u : i \in DOMAIN V /\ V[i] = u[i]
  /\ \A j \in DOMAIN T : j >= 2 => j + Len(u) - 1 \in DOMAIN V /\ V[j + Len(u) - 1] = T[j]
  /\ \A i \in DOMAIN V : i \in DOMAIN u \/ \E j \in DOMAIN T : j >= 2 /\ i = j + Len(u) - 1
  /\ \A j \in DOMAIN T : j \in Nat \ {0} /\ (j = 1 \/ j >= 2) /\ T[j] \in AnyStep

LEMMA Splice ==
  ASSUME NEW u \in Seq(AnyStep), NEW T \in Seq(AnyStep), T # <<>>, NEW V, V = u \o Tail(T)
  PROVE  Spliced(u, T, V)
<1>1. V \in Seq(AnyStep) /\ Len(V) = Len(u) + Len(T) - 1 OBVIOUS
<1>2. Len(u) \in Nat /\ Len(T) \in Nat \ {0} /\ Len(V) \in Nat
      /\ DOMAIN u = 1..Len(u) /\ DOMAIN T = 1..Len(T) /\ DOMAIN V = 1..Len(V)
  BY <1>1
<1>3. \A i \in DOMAIN u : i \in DOMAIN V /\ V[i] = u[i] BY <1>1, <1>2
<1>4. \A j \in DOMAIN T : j >= 2 => j + Len(u) - 1 \in DOMAIN V /\ V[j + Len(u) - 1] = T[j]
  <2> TAKE j \in DOMAIN T
  <2> HAVE j >= 2
  <2>1. j \in Int /\ j >= 2 /\ j <= Len(T) BY <1>2
  <2>2. PICK X : X = Tail(T) OBVIOUS
  <2>3. X \in Seq(AnyStep) /\ Len(X) = Len(T) - 1 /\ \A k \in 1..Len(X) : X[k] = T[k + 1]
    BY <2>2
  <2>4. PICK k \in 1..Len(X) : k = j - 1 BY ONLY <1>2, <2>1, <2>3
  <2>5. k + 1 = j /\ j + Len(u) - 1 = Len(u) + k /\ Len(u) + k \in 1..Len(V)
    <3> DEFINE a == Len(u)
               b == Len(T)
               c == Len(V)
    <3>1. a \in Nat /\ b \in Nat /\ c \in Nat /\ c = a + b - 1 BY <1>1, <1>2
    <3>2. k = j - 1 BY <2>4
    <3> HIDE DEF a, b, c
    <3>3. j \in Int /\ j >= 2 /\ j <= b BY <2>1 DEF b
    <3>4. k + 1 = j /\ j + a - 1 = a + k /\ a + k \in 1..c BY ONLY <3>1, <3>2, <3>3
    <3> QED BY <3>4 DEF a, c
  <2>6. V[Len(u) + k] = X[k] BY <2>2, <2>3, <2>4
  <2>7. X[k] = T[j] BY <2>3, <2>4, <2>5
  <2> QED BY <1>2, <2>5, <2>6, <2>7
<1>5. \A i \in DOMAIN V : i \in DOMAIN u \/ \E j \in DOMAIN T : j >= 2 /\ i = j + Len(u) - 1
  <2> TAKE i \in DOMAIN V
  <2>1. CASE i > Len(u)
    <3>1. i \in Int /\ i <= Len(V) BY <1>2
    <3>2. PICK j \in 1..Len(T) : j = i - Len(u) + 1 BY ONLY <1>1, <1>2, <2>1, <3>1
    <3>3. j >= 2 /\ i = j + Len(u) - 1 BY ONLY <1>2, <2>1, <3>1, <3>2
    <3> QED BY <1>2, <3>2, <3>3
  <2>2. CASE i <= Len(u) BY <1>2, <2>2
  <2> QED BY <1>2, <2>1, <2>2
<1>6. \A j \in DOMAIN T : j \in Nat \ {0} /\ (j = 1 \/ j >= 2) /\ T[j] \in AnyStep BY <1>2
<1> QED BY <1>1, <1>2, <1>3, <1>4, <1>5, <1>6 DEF Spliced

\* What is still to do afterwards was no save, unless a tie's first leg was being saved.
LEMMA RestKinds ==
  ASSUME NEW T \in Seq(AnyStep), GoodSteps(T), NEW j \in DOMAIN T, j >= 2
  PROVE  /\ T[j].do \in {"save", "place", "check", "after"} /\ T[j] \in AnyStep
         /\ T[j].do = "save" => /\ j = 2 /\ T[1].do = "save" /\ FirstOfTwo(T[1].on)
                                /\ T[2].on = SecondLeg(T[1].on)
         /\ T[j].do = "place" => /\ T[j].on = ThirdMatch
                                 /\ T[1].do \in {"save", "place", "check"} => T[1].on[1] = Rounds
<1>1. T[j] \in AnyStep /\ Len(T) \in Nat /\ j \in 1..Len(T) OBVIOUS
<1>2. GoodStep(T, j) BY DEF GoodSteps
<1>3. Len(T) # 1 /\ j # 1 /\ j > 1 BY <1>1
<1>4. 1 \in 1..j - 1 BY <1>1
<1>5. T[j].do \notin {"withdraw", "pending", "complete"} BY <1>2, <1>3 DEF GoodStep
<1>6. T[j].do \in {"save", "place", "check", "after"} BY <1>1, <1>5, StepKinds
<1>7. T[j].do = "save" => /\ j = 2 /\ T[1].do = "save" /\ FirstOfTwo(T[1].on)
                          /\ T[2].on = SecondLeg(T[1].on)
  <2> HAVE T[j].do = "save"
  <2>1. GoodSave(T, T[j], j) BY <1>2 DEF GoodStep
  <2> QED BY <2>1, <1>3 DEF GoodSave
<1>8. T[j].do = "place" => /\ T[j].on = ThirdMatch
                           /\ T[1].do \in {"save", "place", "check"} => T[1].on[1] = Rounds
  <2> HAVE T[j].do = "place"
  <2>1. GoodPlace(T, T[j], j) BY <1>2 DEF GoodStep
  <2> QED BY <2>1, <1>3, <1>4 DEF GoodPlace
<1> QED BY <1>1, <1>6, <1>7, <1>8

\* The steps after the head stay good behind what replaces it.
LEMMA RestGood ==
  ASSUME NEW u \in Seq(AnyStep), NEW T \in Seq(AnyStep), T # <<>>, NEW V, V = u \o Tail(T),
         GoodSteps(T), NEW j \in DOMAIN T, j >= 2, T[j].do # "save",
         T[j].do = "place" =>
           \A i \in DOMAIN u : u[i].do \in {"save", "place", "check"} => u[i].on[1] = Rounds,
         T[j].do = "check" => GoodCheck(V, T[j])
  PROVE  GoodStep(V, j + Len(u) - 1)
<1>s. Spliced(u, T, V) BY Splice
<1>0. PICK n : n = j + Len(u) - 1 OBVIOUS
<1>1. /\ V \in Seq(AnyStep) /\ Len(V) = Len(u) + Len(T) - 1
      /\ Len(u) \in Nat /\ Len(T) \in Nat \ {0} /\ Len(V) \in Nat
      /\ DOMAIN u = 1..Len(u) /\ DOMAIN T = 1..Len(T) /\ DOMAIN V = 1..Len(V)
      /\ \A i \in DOMAIN u : i \in DOMAIN V /\ V[i] = u[i]
      /\ \A i \in DOMAIN T : i >= 2 => i + Len(u) - 1 \in DOMAIN V /\ V[i + Len(u) - 1] = T[i]
      /\ \A i \in DOMAIN V : i \in DOMAIN u \/ \E k \in DOMAIN T : k >= 2 /\ i = k + Len(u) - 1
  BY <1>s DEF Spliced
<1>a. n \in DOMAIN V /\ V[n] = T[j] BY <1>0, <1>1
<1>2. T[j].do \in {"place", "check", "after"} BY RestKinds
<1>3. GoodStep(T, j) BY DEF GoodSteps
<1>4. CASE T[j].do = "place"
  <2>1. GoodPlace(T, T[j], j) /\ T[j].on \in Match BY <1>3, <1>4 DEF GoodStep
  <2>2. j > 1 /\ j \in Nat BY <1>1
  <2>3. n + 1 \in DOMAIN V /\ V[n + 1] = Check(T[j].on)
    <3>1. j + 1 \in DOMAIN T /\ T[j + 1] = Check(T[j].on) BY <2>1 DEF GoodPlace
    <3>2. j + 1 >= 2 /\ (j + 1) + Len(u) - 1 = n + 1 BY ONLY <1>0, <1>1, <2>2, SMTT(30)
    <3> QED BY <1>1, <3>1, <3>2
  <2>4. ASSUME NEW i \in 1..n - 1, V[i].do \in {"save", "place", "check"} PROVE V[i].on[1] = Rounds
    <3>1. i \in DOMAIN V BY <1>a, <1>1
    <3>2. CASE i \in DOMAIN u BY <1>1, <1>4, <2>4, <3>2
    <3>3. CASE \E k \in DOMAIN T : k >= 2 /\ i = k + Len(u) - 1
      <4>1. PICK k \in DOMAIN T : k >= 2 /\ i = k + Len(u) - 1 BY <3>3
      <4>2. V[i] = T[k] BY <1>1, <4>1
      <4>3. k \in Nat /\ Len(u) \in Nat /\ i <= n - 1 /\ i \in Int BY <1>1
      <4>4. k \in 1..j - 1 BY <1>0, <2>2, <4>1, <4>3, SMTT(30)
      <4> QED BY <2>1, <2>2, <2>4, <4>2, <4>4 DEF GoodPlace
    <3> QED BY <1>1, <3>1, <3>2, <3>3
  <2>5. GoodPlace(V, V[n], n) BY <1>a, <1>1, <2>1, <2>2, <2>3, <2>4 DEF GoodPlace
  <2> QED BY <1>a, <1>0, <1>1, <1>4, <2>1, <2>5 DEF GoodStep
<1>5. CASE T[j].do = "check"
  <2>1. T[j].on \in Match BY <1>3, <1>5 DEF GoodStep
  <2> QED BY <1>a, <1>0, <1>1, <1>5, <2>1 DEF GoodStep
<1>6. CASE T[j].do = "after" BY <1>a, <1>0, <1>1, <1>6 DEF GoodStep
<1> QED BY <1>2, <1>4, <1>5, <1>6

-----------------------------------------------------------------------------
(* What a step leaves alone *)

LEMMA SameBoard ==
  ASSUME UNCHANGED <<setup, match>>, Shape
  PROVE  /\ Match' = Match /\ Rounds' = Rounds /\ Final' = Final /\ ThirdMatch' = ThirdMatch
         /\ WithThird' = WithThird
         /\ \A m : /\ FirstOfTwo(m)' = FirstOfTwo(m) /\ WinnerTo(m)' = WinnerTo(m) /\ LoserTo(m)' = LoserTo(m)
                   /\ TeamsOf(m)' = TeamsOf(m) /\ Decided(m)' = Decided(m) /\ Ready(m)' = Ready(m)
                   /\ LoserOf(m)' = LoserOf(m) /\ NextUnplayed(m)' = NextUnplayed(m)
                   /\ Open(m)' = Open(m) /\ Decider(m)' = Decider(m)
         /\ Placing' = Placing /\ AllDecided' = AllDecided
BY DEF Match, Rounds, Final, ThirdMatch, WithThird, FirstOfTwo, WinnerTo, LoserTo, TeamsOf, Decided,
   Ready, LoserOf, NextUnplayed, Open, Decider, Placing, AllDecided, Semis

LEMMA SameRows ==
  ASSUME UNCHANGED <<setup, match>>, Rows, Fed
  PROVE  Rows' /\ Fed'
<1>0. Board' = Board /\ Match' = Match
  BY DEF Board, FirstLegs, SecondLegs, ThirdPlace, Ties, Rounds, ThirdMatch, HasBye, Pair, Match
<1>1. Rows'
  <2>1. match' \in [Board' -> MatchRow] BY <1>0 DEF Rows
  <2>2. ASSUME NEW m \in Match' PROVE RowSound(m)'
    <3>1. RowSound(m) BY <1>0 DEF Rows
    <3>2. /\ HasBye(TieOf(m))' = HasBye(TieOf(m)) /\ TeamsOf(m)' = TeamsOf(m)
          /\ FirstOfTwo(m)' = FirstOfTwo(m) /\ SourceRound(m)' = SourceRound(m)
          /\ \A x, r, n : Seeded(x, r, n)' = Seeded(x, r, n)
      BY DEF HasBye, Pair, TeamsOf, FirstOfTwo, Match, SourceRound, Rounds, Seeded, TieOf
    <3> QED BY <3>1, <3>2 DEF RowSound
  <2>3. MatchRow' = MatchRow BY DEF MatchRow
  <2> QED BY <2>1, <2>2, <2>3 DEF Rows
<1>2. Fed'
  BY DEF Fed, Goals, WinnerTo, LoserTo, Decided, Decider, Match, Rounds, ThirdMatch, WithThird
<1> QED BY <1>1, <1>2

LEMMA SameCarried ==
  ASSUME UNCHANGED <<setup, match>>, NEW T, Carried(T)
  PROVE  Carried(T)'
BY DEF Carried, Doing, In, FirstOfTwo, WinnerTo, LoserTo, Decided, LoserOf, Match, Rounds, ThirdMatch, WithThird

LEMMA SameSteps ==
  ASSUME UNCHANGED <<setup, match, withdrawn>>, NEW T, GoodSteps(T), SecondFirst(T), Covered(T)
  PROVE  GoodSteps(T)' /\ SecondFirst(T)' /\ Covered(T)'
<1>1. SecondFirst(T)'
  BY DEF SecondFirst, FirstPlayed, LostBy, Match
<1>2. Covered(T)'
  BY DEF Covered, Covers, Stranding, Ready, TeamsOf, Match
<1>3. \A i \in DOMAIN T : GoodStep(T, i)'
  <2> TAKE i \in DOMAIN T
  <2>1. GoodStep(T, i) BY DEF GoodSteps
  <2>2. Placing' = Placing /\ AllDecided' = AllDecided
    BY DEF Placing, AllDecided, WithThird, Final, ThirdMatch, Rounds, Match, Semis, Decided, LoserOf
  <2>3. GoodSave(T, T[i], i) => GoodSave(T, T[i], i)'
    BY DEF GoodSave, TeamsOf, FirstOfTwo, Decided, Repeats, NextUnplayed, WinnerTo, LoserTo, Match, Rounds, WithThird,
           ThirdMatch, FirstPlayed, LostBy
  <2>4. GoodPlace(T, T[i], i) => GoodPlace(T, T[i], i)'
    BY DEF GoodPlace, Decided, WinnerTo, LoserTo, LoserOf, Match, Rounds, WithThird, ThirdMatch, Open, In, FirstOfTwo
  <2>5. GoodCheck(T, T[i]) => GoodCheck(T, T[i])'
    BY DEF GoodCheck, TeamsOf, FirstPlayed, In, FirstOfTwo, Match
  <2>6. GoodPending(T[i].team) => GoodPending(T[i].team)'
    BY DEF GoodPending, Stranding, Ready, TeamsOf, Match
  <2>7. Match' = Match BY DEF Match
  <2> QED BY <2>1, <2>2, <2>3, <2>4, <2>5, <2>6, <2>7 DEF GoodStep
<1> QED BY <1>1, <1>2, <1>3 DEF GoodSteps

LEMMA SameEnding ==
  ASSUME UNCHANGED <<setup, match, status, placements>>, NEW T, Ending(T)
  PROVE  Ending(T)'
<1>1. Placing' = Placing /\ AllDecided' = AllDecided
  BY DEF Placing, AllDecided, WithThird, Final, ThirdMatch, Rounds, Match, Semis, Decided, LoserOf
<1> QED BY <1>1 DEF Ending

LEMMA SameState ==
  ASSUME UNCHANGED <<setup, match, withdrawn, status, placements>>, NEW T, InStep(T)
  PROVE  InStep(T)'
<1>1. Rows /\ Fed /\ GoodSteps(T) /\ Carried(T) /\ SecondFirst(T) /\ Covered(T) /\ Ending(T) BY DEF InStep
<1>2. Rows' /\ Fed' BY <1>1, SameRows
<1>3. Carried(T)' BY <1>1, SameCarried
<1>4. GoodSteps(T)' /\ SecondFirst(T)' /\ Covered(T)' BY <1>1, SameSteps
<1>5. Ending(T)' BY <1>1, SameEnding
<1> QED BY <1>2, <1>3, <1>4, <1>5 DEF InStep

-----------------------------------------------------------------------------
(* Steps that change no match *)

LEMMA Known ==
  ASSUME KnockoutInv
  PROVE  /\ Others /\ Alone /\ Shape /\ setup \in Setup /\ Todo \in Seq(AnyStep)
         /\ InStep(Todo) /\ Rows /\ Fed /\ GoodSteps(Todo) /\ Carried(Todo) /\ SecondFirst(Todo)
         /\ Covered(Todo) /\ Ending(Todo)
<1>1. Others /\ Alone /\ InStep(Todo) BY DEF KnockoutInv
<1>2. Rows /\ Fed /\ GoodSteps(Todo) /\ Carried(Todo) /\ SecondFirst(Todo) /\ Covered(Todo) /\ Ending(Todo)
  BY <1>1 DEF InStep
<1>3. setup \in Setup BY <1>1 DEF Others
<1>4. Match = Board BY <1>2 DEF Rows, Match
<1>5. Shape BY <1>3, <1>4, ShapeHolds
<1>6. Todo \in Seq(AnyStep)
  <2>1. CASE \A s \in Slot : request[s] = Idle BY <2>1 DEF Todo
  <2>2. CASE \E s \in Slot : request[s] # Idle
    <3>1. PICK s \in Slot : request[s] # Idle BY <2>2
    <3>2. request[s].todo # <<>> BY <1>1, <3>1 DEF Alone
    <3> QED BY <1>1, <3>2, TodoOf
  <2> QED BY <2>1, <2>2
<1> QED BY <1>1, <1>2, <1>3, <1>5, <1>6

LEMMA Landing ==
  ASSUME Others', Alone', NEW V, Todo' = V, InStep(V)'
  PROVE  KnockoutInv'
BY DEF KnockoutInv

\* The step in hand, and what it gives way to.
LEMMA InHand ==
  ASSUME KnockoutInv, NEW s \in Slot, NEW do, AtStep(s, do)
  PROVE  /\ request[s].todo # <<>> /\ Todo # <<>> /\ Todo[1] = Next1(s) /\ Todo[1].do = do
         /\ Todo[1] \in AnyStep /\ Len(Todo) \in Nat \ {0} /\ 1 \in DOMAIN Todo /\ GoodStep(Todo, 1)
         /\ DOMAIN Todo = 1..Len(Todo)
<1>1. Alone /\ Todo \in Seq(AnyStep) /\ GoodSteps(Todo) BY Known
<1>2. request[s].todo # <<>> /\ Next1(s).do = do BY DEF AtStep
<1>3. Todo[1] = Next1(s) /\ Todo[1] \in AnyStep /\ Len(Todo) \in Nat \ {0} /\ Todo # <<>> BY <1>1, <1>2, TodoOf
<1>4. 1 \in DOMAIN Todo /\ DOMAIN Todo = 1..Len(Todo) BY <1>1, <1>3
<1> QED BY <1>1, <1>2, <1>3, <1>4 DEF GoodSteps

\* The places of a tournament that is over are those of its teams.
LEMMA PlacingTyped ==
  ASSUME OneByOne, setup \in Setup, Shape, Rows, AllDecided
  PROVE  Placing \subseteq (1..4) \X Team
<1>1. Decided(Final) /\ (WithThird => Decided(ThirdMatch)) /\ Final \in Match BY DEF AllDecided, Shape
<1>2. ~match[Final].isBye
  <2> SUFFICES ASSUME match[Final].isBye PROVE FALSE OBVIOUS
  <2>1. Final[1] = 1 /\ HasBye(TieOf(Final)) BY <1>1, RowFacts DEF Rows, RowSound
  <2>2. Rounds = 1 /\ TieOf(Final) = <<1, 1>> BY <2>1 DEF Final, TieOf
  <2>3. Null = setup.slots[1] \/ Null = setup.slots[2]
    <3>1. Null \in Range(Pair(1)) BY <2>1, <2>2 DEF HasBye
    <3>2. Pair(1) = <<setup.slots[1], setup.slots[2]>> BY DEF Pair
    <3> QED BY <3>1, <3>2 DEF Range
  <2>4. 1 \in DOMAIN setup.slots /\ 2 \in DOMAIN setup.slots
    <3>1. Len(setup.slots) \in 2..16 /\ DOMAIN setup.slots = 1..Len(setup.slots) BY SetupFacts, Sizes
    <3>2. PICK l : l = Len(setup.slots) OBVIOUS
    <3>3. l \in 2..16 /\ DOMAIN setup.slots = 1..l BY <3>1, <3>2, Zenon
    <3>4. 1 \in 1..l /\ 2 \in 1..l BY ONLY <3>3
    <3> QED BY <3>3, <3>4, Zenon
  <2> QED BY <2>2, <2>3, <2>4 DEF OneByOne, Rounds
<1>3. ASSUME NEW m \in Match, Decided(m), ~match[m].isBye
      PROVE  match[m].winner \in Team /\ LoserOf(m) \in Team
  <2>1. match[m].winner \in Team /\ Null \notin TeamsOf(m) BY <1>3, RowFacts
  <2> QED BY <2>1, RowTypes DEF LoserOf
<1>4. WithThird => ThirdMatch \in Match /\ ~match[ThirdMatch].isBye
  <2> HAVE WithThird
  <2>1. ThirdMatch \in Match BY DEF WithThird
  <2>2. ThirdMatch[1] # 1
    <3>1. ThirdMatch[1] = Rounds + 1 BY DEF ThirdMatch
    <3> QED BY <3>1 DEF Shape
  <2> QED BY <2>1, <2>2, RowFacts
<1>5. \A m \in Semis : LoserOf(m) \in Team BY <1>3 DEF Semis
<1>6. match[Final].winner \in Team /\ LoserOf(Final) \in Team BY <1>1, <1>2, <1>3
<1>7. WithThird => match[ThirdMatch].winner \in Team /\ LoserOf(ThirdMatch) \in Team BY <1>1, <1>3, <1>4
<1> QED BY <1>5, <1>6, <1>7 DEF Placing

LEMMA LookForEndKeeps ==
  ASSUME OneByOne, KnockoutInv, NEW s \in Slot, LookForEnd(s)
  PROVE  KnockoutInv'
<1>1. PICK T : T = Todo OBVIOUS
<1>2. PICK u : u = IF AllDecided THEN <<[do |-> "complete", with |-> Placing]>> ELSE <<>> OBVIOUS
<1>3. AtStep(s, "after") /\ Then(s, u) /\ UNCHANGED <<setup, match, withdrawn, phase, status, placements>>
  BY <1>2 DEF LookForEnd
<1>4. /\ Alone /\ Others /\ Shape /\ setup \in Setup /\ T \in Seq(AnyStep) /\ T # <<>> /\ T[1].do = "after"
      /\ request[s].todo # <<>>
      /\ Rows /\ Fed /\ GoodSteps(T) /\ Carried(T) /\ SecondFirst(T) /\ Covered(T) /\ Ending(T)
  BY <1>1, <1>3, Known, InHand
<1>5. u \in Seq(AnyStep) /\ (Len(u) = 0 \/ (Len(u) = 1 /\ u[1].do = "complete"))
      /\ \A i \in DOMAIN u : i = 1 /\ u[i] = [do |-> "complete", with |-> Placing] /\ AllDecided
  <2>1. CASE AllDecided
    <3>1. PICK t : t = [do |-> "complete", with |-> Placing] OBVIOUS
    <3>2. t \in AnyStep /\ t.do = "complete" BY <1>4, <2>1, <3>1, PlacingTyped DEF AnyStep, EndStep
    <3>3. u = <<t>> BY <1>2, <2>1, <3>1
    <3> QED BY <2>1, <3>1, <3>2, <3>3
  <2>2. CASE ~AllDecided BY <1>2, <2>2
  <2> QED BY <2>1, <2>2
<1>6. PICK V : V = u \o Tail(T) OBVIOUS
<1>7. Alone' /\ Todo' = V BY <1>1, <1>3, <1>4, <1>5, <1>6, ThenTodo
<1>8. Spliced(u, T, V) BY <1>4, <1>5, <1>6, Splice
<1>9. \A j \in DOMAIN T : j >= 2 => \E i \in DOMAIN V : V[i] = T[j] BY <1>8 DEF Spliced
<1>10. \A j \in DOMAIN T : T[j].do # "after" => \E i \in DOMAIN V : V[i] = T[j]
  BY <1>4, <1>8, <1>9 DEF Spliced
<1>11. \A k : FirstPlayed(T, k) => FirstPlayed(V, k)
  <2> TAKE k
  <2> HAVE FirstPlayed(T, k)
  <2> QED BY <1>10 DEF FirstPlayed
<1>12. GoodSteps(V)
  <2>1. ASSUME NEW i \in DOMAIN V PROVE GoodStep(V, i)
    <3>1. CASE i \in DOMAIN u
      <4>1. i = 1 /\ V[i] = [do |-> "complete", with |-> Placing] /\ AllDecided BY <1>5, <1>8, <3>1 DEF Spliced
      <4> QED BY <4>1 DEF GoodStep
    <3>2. ASSUME NEW j \in DOMAIN T, j >= 2, i = j + Len(u) - 1 PROVE GoodStep(V, i)
      <4>1. T[j].do # "save" BY <1>4, <3>2, RestKinds
      <4>2. \A k \in DOMAIN u : u[k].do \notin {"save", "place", "check"} BY <1>5
      <4>3. T[j].do = "check" => GoodCheck(V, T[j])
        <5> HAVE T[j].do = "check"
        <5>1. GoodCheck(T, T[j]) BY <1>4 DEF GoodSteps, GoodStep
        <5>2. \A k \in DOMAIN V : V[k].do = "place" => \E l \in DOMAIN T : V[k] = T[l]
          <6> TAKE k \in DOMAIN V
          <6> HAVE V[k].do = "place"
          <6>1. CASE k \in DOMAIN u BY <1>8, <4>2, <6>1 DEF Spliced
          <6>2. CASE \E l \in DOMAIN T : l >= 2 /\ k = l + Len(u) - 1 BY <1>8, <6>2 DEF Spliced
          <6> QED BY <1>8, <6>1, <6>2 DEF Spliced
        <5> QED BY <1>11, <5>1, <5>2 DEF GoodCheck
      <4>4. GoodStep(V, j + Len(u) - 1) BY <1>4, <1>5, <1>6, <3>2, <4>1, <4>2, <4>3, RestGood
      <4> QED BY <3>2, <4>4
    <3> QED BY <1>8, <3>1, <3>2 DEF Spliced
  <2> QED BY <2>1 DEF GoodSteps
<1>13. Carried(V)
  <2>1. \A m, g, x : Doing(T, Place(g, x)) => Doing(V, Place(g, x)) BY <1>10 DEF Doing, Place
  <2> QED BY <1>4, <2>1 DEF Carried
<1>14. SecondFirst(V) BY <1>4, <1>11 DEF SecondFirst
<1>15. Covered(V)
  <2> SUFFICES ASSUME NEW k \in Match, Stranding(k) PROVE \E i \in DOMAIN V : Covers(V[i], k) BY DEF Covered
  <2>2. PICK i \in DOMAIN T : Covers(T[i], k) BY <1>4 DEF Covered
  <2>3. T[i].do # "after" BY <2>2 DEF Covers
  <2>4. PICK n \in DOMAIN V : V[n] = T[i] BY <1>10, <2>3
  <2> QED BY <2>2, <2>4
<1>16. Ending(V)
  <2>1. AllDecided => 1 \in DOMAIN V /\ V[1].do = "complete" BY <1>2, <1>5, <1>8 DEF Spliced
  <2> QED BY <1>4, <2>1 DEF Ending
<1>17. InStep(V)' BY <1>3, <1>4, <1>12, <1>13, <1>14, <1>15, <1>16, SameState DEF InStep
<1>18. Others' BY <1>3, <1>4 DEF Others
<1> QED BY <1>7, <1>17, <1>18, Landing

\* A tournament is completed with the places its matches give.
LEMMA CompleteKeeps ==
  ASSUME OneByOne, KnockoutInv, NEW s \in Slot, Complete(s)
  PROVE  KnockoutInv'
<1>1. PICK T : T = Todo OBVIOUS
<1>2. PICK u : u = <<>> OBVIOUS
<1>3. AtStep(s, "complete") /\ Then(s, u) /\ UNCHANGED <<setup, match, withdrawn>> /\ phase' = "COMPLETED"
      /\ IF status \in {"KNOCKOUT_IN_PROGRESS", "COMPLETED"}
         THEN status' = "COMPLETED" /\ placements' = Next1(s).with
         ELSE UNCHANGED <<status, placements>>
  BY <1>2 DEF Complete
<1>4. /\ Alone /\ Others /\ Shape /\ setup \in Setup /\ T \in Seq(AnyStep) /\ T # <<>> /\ T[1].do = "complete"
      /\ request[s].todo # <<>> /\ T[1] = Next1(s) /\ T[1] \in AnyStep /\ GoodStep(T, 1)
      /\ Rows /\ Fed /\ GoodSteps(T) /\ Carried(T) /\ SecondFirst(T) /\ Covered(T) /\ Ending(T)
  BY <1>1, <1>3, Known, InHand
<1>5. u \in Seq(AnyStep) /\ DOMAIN u = {} BY <1>2
<1>6. PICK V : V = u \o Tail(T) OBVIOUS
<1>7. Alone' /\ Todo' = V BY <1>1, <1>3, <1>4, <1>5, <1>6, ThenTodo
<1>8. Spliced(u, T, V) BY <1>4, <1>5, <1>6, Splice
<1>9. \A j \in DOMAIN T : T[j].do # "complete" => \E i \in DOMAIN V : V[i] = T[j]
  BY <1>4, <1>8 DEF Spliced
<1>10. \A k \in DOMAIN V : \E j \in DOMAIN T : V[k] = T[j]
  BY <1>5, <1>8 DEF Spliced
<1>11. \A k : FirstPlayed(T, k) => FirstPlayed(V, k)
  <2> TAKE k
  <2> HAVE FirstPlayed(T, k)
  <2> QED BY <1>9 DEF FirstPlayed
<1>12. GoodSteps(V)
  <2>1. ASSUME NEW i \in DOMAIN V PROVE GoodStep(V, i)
    <3>1. PICK j \in DOMAIN T : j >= 2 /\ i = j + Len(u) - 1 BY <1>5, <1>8 DEF Spliced
    <3>2. T[j].do # "save" BY <1>4, <3>1, RestKinds
    <3>3. T[j].do = "check" => GoodCheck(V, T[j])
      <4> HAVE T[j].do = "check"
      <4>1. GoodCheck(T, T[j]) BY <1>4 DEF GoodSteps, GoodStep
      <4> QED BY <1>10, <1>11, <4>1 DEF GoodCheck
    <3> QED BY <1>4, <1>5, <1>6, <3>1, <3>2, <3>3, RestGood
  <2> QED BY <2>1 DEF GoodSteps
<1>13. Carried(V)
  <2>1. \A m, g, x : Doing(T, Place(g, x)) => Doing(V, Place(g, x)) BY <1>9 DEF Doing, Place
  <2> QED BY <1>4, <2>1 DEF Carried
<1>14. SecondFirst(V) BY <1>4, <1>11 DEF SecondFirst
<1>15. Covered(V)
  <2> SUFFICES ASSUME NEW k \in Match, Stranding(k) PROVE \E i \in DOMAIN V : Covers(V[i], k) BY DEF Covered
  <2>2. PICK i \in DOMAIN T : Covers(T[i], k) BY <1>4 DEF Covered
  <2>3. T[i].do # "complete" BY <2>2 DEF Covers
  <2>4. PICK n \in DOMAIN V : V[n] = T[i] BY <1>9, <2>3
  <2> QED BY <2>2, <2>4
<1>16. AllDecided /\ T[1].with = Placing BY <1>4 DEF GoodStep
<1>17. Ending(V)'
  <2>1. Placing' = Placing /\ AllDecided' = AllDecided BY <1>3, <1>4, SameBoard
  <2>2. status' = "COMPLETED" => placements' = Placing /\ AllDecided
    <3>1. status \notin {"KNOCKOUT_IN_PROGRESS", "COMPLETED"} => status' # "COMPLETED" BY <1>3
    <3> QED BY <1>3, <1>4, <1>16, <3>1
  <2>3. status' # "CANCELLED" => status' = "COMPLETED" BY <1>3, <1>4 DEF Others
  <2> QED BY <2>1, <2>2, <2>3 DEF Ending
<1>18. InStep(V)'
  <2>1. Rows' /\ Fed' BY <1>3, <1>4, SameRows
  <2>2. Carried(V)' BY <1>3, <1>13, SameCarried
  <2>3. GoodSteps(V)' /\ SecondFirst(V)' /\ Covered(V)' BY <1>3, <1>12, <1>14, <1>15, SameSteps
  <2> QED BY <1>17, <2>1, <2>2, <2>3 DEF InStep
<1>19. Others'
  <2>1. T[1].with \subseteq (1..4) \X Team BY <1>4, StepKinds
  <2> QED BY <1>3, <1>4, <2>1 DEF Others
<1> QED BY <1>7, <1>18, <1>19, Landing

LEMMA CancelKeeps ==
  ASSUME KnockoutInv, Cancel
  PROVE  KnockoutInv'
<1>1. PICK T : T = Todo OBVIOUS
<1>2. /\ Alone /\ Others /\ Shape
      /\ Rows /\ Fed /\ GoodSteps(T) /\ Carried(T) /\ SecondFirst(T) /\ Covered(T) /\ Ending(T)
  BY <1>1, Known
<1>3. status' = "CANCELLED" /\ UNCHANGED <<setup, match, withdrawn, phase, placements, request>> BY DEF Cancel
<1>4. Alone' BY <1>2, <1>3 DEF Alone
<1>5. Todo' = T BY <1>1, <1>3 DEF Todo
<1>6. Rows' /\ Fed' BY <1>2, <1>3, SameRows
<1>7. Carried(T)' BY <1>2, <1>3, SameCarried
<1>8. GoodSteps(T)' /\ SecondFirst(T)' /\ Covered(T)' BY <1>2, <1>3, SameSteps
<1>9. Ending(T)' BY <1>3 DEF Ending
<1>10. InStep(T)' BY <1>6, <1>7, <1>8, <1>9 DEF InStep
<1>11. Others' BY <1>2, <1>3 DEF Others
<1> QED BY <1>4, <1>5, <1>10, <1>11, Landing

LEMMA StutterKeeps ==
  ASSUME KnockoutInv, UNCHANGED vars
  PROVE  KnockoutInv'
<1>1. PICK T : T = Todo OBVIOUS
<1>2. Alone /\ Others /\ InStep(T) BY <1>1, Known
<1>3. UNCHANGED <<setup, match, withdrawn, phase, status, placements, request>> BY DEF vars
<1>4. Alone' BY <1>2, <1>3 DEF Alone
<1>5. Todo' = T BY <1>1, <1>3 DEF Todo
<1>6. InStep(T)' BY <1>2, <1>3, SameState
<1>7. Others' BY <1>2, <1>3 DEF Others
<1> QED BY <1>4, <1>5, <1>6, <1>7, Landing

\* Before a team withdraws nobody waits for a walkover: each that does now waits for this one's.
LEMMA WithdrawTeamKeeps ==
  ASSUME OneByOne, KnockoutInv, NEW s \in Slot, WithdrawTeam(s)
  PROVE  KnockoutInv'
<1>1. PICK T : T = Todo OBVIOUS
<1>2. PICK x : x = Next1(s).team OBVIOUS
<1>2a. PICK u : u = <<[do |-> "pending", team |-> x]>> OBVIOUS
<1>3. AtStep(s, "withdraw") /\ Then(s, u) /\ UNCHANGED <<setup, match, phase, status, placements>>
      /\ withdrawn' = withdrawn \cup {x}
  BY <1>2, <1>2a DEF WithdrawTeam
<1>4. /\ Alone /\ Others /\ Shape /\ setup \in Setup /\ T \in Seq(AnyStep) /\ T # <<>> /\ T[1].do = "withdraw"
      /\ request[s].todo # <<>> /\ T[1] = Next1(s) /\ T[1] \in AnyStep /\ GoodStep(T, 1)
      /\ Rows /\ Fed /\ GoodSteps(T) /\ Carried(T) /\ SecondFirst(T) /\ Covered(T) /\ Ending(T)
  BY <1>1, <1>3, Known, InHand
<1>5. x \in Team /\ T = <<T[1]>> /\ Len(T) = 1 /\ DOMAIN T = {1}
  <2>1. x \in Team BY <1>2, <1>4, StepKinds
  <2>2. Len(T) = 1 BY <1>4 DEF GoodStep
  <2> QED BY <1>4, <2>1, <2>2
<1>6. u \in Seq(AnyStep)
  <2>1. [do |-> "pending", team |-> x] \in AnyStep BY <1>5 DEF AnyStep, TeamStep
  <2> QED BY <1>2a, <2>1
<1>7. PICK V : V = u OBVIOUS
<1>8. Alone' /\ Todo' = V
  <2>1. u \o Tail(T) = u
    <3>1. PICK h : h = T[1] OBVIOUS
    <3>2. T = <<h>> BY <1>5, <3>1
    <3>3. Tail(T) = <<>> BY <3>2
    <3>4. \A r : <<r>> \o <<>> = <<r>> OBVIOUS
    <3> QED BY <1>2a, <3>3, <3>4
  <2> QED BY <1>1, <1>3, <1>4, <1>6, <1>7, <2>1, ThenTodo
<1>9. DOMAIN V = {1} /\ Len(V) = 1 /\ V[1].do = "pending" /\ V[1].team = x BY <1>2a, <1>7
<1>10. \A k \in Match : ~Stranding(k)
  <2> SUFFICES ASSUME NEW k \in Match, Stranding(k) PROVE FALSE OBVIOUS
  <2>1. PICK i \in DOMAIN T : Covers(T[i], k) BY <1>4 DEF Covered
  <2> QED BY <1>4, <1>5, <2>1 DEF Covers
<1>11. GoodPending(x)'
  <2>1. x \in withdrawn' BY <1>3
  <2>2. ASSUME NEW k \in Match', Stranding(k)'
        PROVE  x \in TeamsOf(k)' /\ \E side \in HomeAway : match'[k][side] \notin withdrawn'
    <3>1. k \in Match /\ Ready(k) /\ TeamsOf(k)' = TeamsOf(k) /\ TeamsOf(k) \cap withdrawn' # {}
      BY <1>3, <2>2 DEF Match, Stranding, Ready, TeamsOf
    <3>2. TeamsOf(k) \cap withdrawn = {} BY <1>10, <3>1 DEF Stranding
    <3>3. x \in TeamsOf(k) BY <1>3, <3>1, <3>2
    <3>4. match[k].home # match[k].away BY <1>4, <3>1, NobodyAlone DEF Ready
    <3>5. PICK side \in HomeAway : match[k][side] # x /\ match[k][side] \in TeamsOf(k)
      BY <1>4, <3>1, <3>3, <3>4, RowTypes, Sides
    <3>6. match'[k][side] \notin withdrawn' BY <1>3, <3>2, <3>5
    <3> QED BY <3>1, <3>3, <3>6
  <2> QED BY <2>1, <2>2 DEF GoodPending
<1>12. GoodSteps(V)' BY <1>9, <1>11 DEF GoodSteps, GoodStep
<1>13. Carried(V)'
  <2>1. Carried(V)
    <3>1. \A m, g, y : ~Doing(T, Place(g, y)) BY <1>4, <1>5 DEF Doing, Place
    <3> QED BY <1>4, <3>1 DEF Carried
  <2> QED BY <1>3, <2>1, SameCarried
<1>14. SecondFirst(V)'
  <2>1. \A k \in Match : k[3] = 2 /\ match[k].status = "COMPLETED" => match[FirstLeg(k)].status = "COMPLETED"
    BY <1>4, <1>5 DEF SecondFirst, FirstPlayed
  <2> QED BY <1>3, <2>1 DEF SecondFirst, FirstPlayed, Match
<1>15. Covered(V)' BY <1>9 DEF Covered, Covers
<1>16. Ending(V)'
  <2>1. Ending(V) BY <1>4, <1>5 DEF Ending
  <2> QED BY <1>3, <2>1, SameEnding
<1>17. Rows' /\ Fed' BY <1>3, <1>4, SameRows
<1>18. InStep(V)' BY <1>12, <1>13, <1>14, <1>15, <1>16, <1>17 DEF InStep
<1>19. Others' BY <1>3, <1>4, <1>5 DEF Others
<1> QED BY <1>8, <1>18, <1>19, Landing

LEMMA FiniteBracket ==
  ASSUME setup \in Setup, Shape, Match = Board
  PROVE  IsFiniteSet(Match)
<1> DEFINE S == (1..5) \X (1..16)
<1> DEFINE C == S \X (1..2)
<1>0. 1 \in Int /\ 2 \in Int /\ 5 \in Int /\ 16 \in Int OBVIOUS
<1>1. IsFiniteSet(S)
  <2>1. IsFiniteSet(1..5) /\ IsFiniteSet(1..16) BY <1>0, FS_Interval, Zenon
  <2> QED BY <2>1, FS_Product
<1>2. IsFiniteSet(C)
  <2>1. IsFiniteSet(1..2) BY <1>0, FS_Interval, Zenon
  <2> QED BY <1>1, <2>1, FS_Product
<1>3. \A m \in Match : m = <<m[1], m[2], m[3]>> /\ m[1] \in 1..5 /\ m[2] \in 1..16 /\ m[3] \in 1..2
  <2> TAKE m \in Match
  <2>1. m = <<m[1], m[2], m[3]>> /\ m[1] \in 1..Rounds + 1 /\ m[3] \in {1, 2} /\ Rounds \in 1..4 BY DEF Shape
  <2>2. TieOf(m) \in Ties \/ m = ThirdMatch BY BoardIs
  <2>3. Len(setup.slots) \in 2..16 BY Sizes
  <2>4. TieOf(m) \in Ties => m[2] \in 1..Len(setup.slots) BY DEF Ties, TieOf
  <2>5. m = ThirdMatch => m[2] = 1 BY DEF ThirdMatch
  <2>6. PICK l : l = Len(setup.slots) OBVIOUS
  <2>7. m[2] \in 1..16
    <3>1. l \in 2..16 /\ (m[2] \in 1..l \/ m[2] = 1) BY <2>2, <2>3, <2>4, <2>5, <2>6
    <3> QED BY ONLY <3>1
  <2> QED BY <2>1, <2>7
<1>4. PICK f : f = [m \in Match |-> <<<<m[1], m[2]>>, m[3]>>] OBVIOUS
<1>5. f \in [Match -> C] BY <1>3, <1>4
<1>6. \A a, b \in DOMAIN f : f[a] = f[b] => a = b BY <1>3, <1>4
<1>7. f \in Injection(Match, C) BY <1>5, <1>6 DEF Injection, IsInjective
<1> HIDE DEF C
<1> QED BY <1>2, <1>7, FS_Injection

LEMMA EverythingInOrder ==
  ASSUME NEW S, IsFiniteSet(S), NEW ms \in SetToSeqs(S)
  PROVE  /\ ms \in Seq(S) /\ DOMAIN ms = 1..Len(ms) /\ Len(ms) \in Nat
         /\ \A x \in S : \E i \in DOMAIN ms : ms[i] = x
<1>1. PICK n : n = Cardinality(S) OBVIOUS
<1>2. n \in Nat BY <1>1, FS_CardinalityType
<1>3. ms \in [1..n -> S] /\ \A i, j \in 1..n : i # j => ms[i] # ms[j] BY <1>1 DEF SetToSeqs
<1>4. ms \in Injection(1..n, S) BY <1>3 DEF Injection, IsInjective
<1>5. Cardinality(1..n) = n
  <2>1. 1 \in Int /\ n \in Int BY <1>2
  <2>2. Cardinality(1..n) = IF 1 > n THEN 0 ELSE n - 1 + 1 BY <2>1, FS_Interval
  <2> QED BY <1>2, <2>2
<1>6. ms \in Surjection(1..n, S) BY <1>1, <1>4, <1>5, FS_Injection
<1>7. \A x \in S : \E i \in 1..n : ms[i] = x BY <1>6 DEF Surjection
<1>8. ms \in Seq(S) /\ Len(ms) = n BY <1>2, <1>3
<1> QED BY <1>2, <1>3, <1>7, <1>8

\* Every match that waits for this team's walkover is looked at.
LEMMA FindPendingKeeps ==
  ASSUME OneByOne, KnockoutInv, NEW s \in Slot, FindPending(s)
  PROVE  KnockoutInv'
<1>1. PICK T : T = Todo OBVIOUS
<1>2. PICK x : x = Next1(s).team OBVIOUS
<1>3. PICK S : S = {m \in Match : Ready(m) /\ x \in TeamsOf(m)} OBVIOUS
<1>4. PICK ms \in SetToSeqs(S) : Then(s, [i \in DOMAIN ms |-> [do |-> "check", on |-> ms[i]]])
  BY <1>2, <1>3 DEF FindPending
<1>5. PICK V : V = [i \in DOMAIN ms |-> [do |-> "check", on |-> ms[i]]] OBVIOUS
<1>6. AtStep(s, "pending") /\ Then(s, V) /\ UNCHANGED <<setup, match, withdrawn, phase, status, placements>>
  BY <1>4, <1>5 DEF FindPending
<1>7. /\ Alone /\ Others /\ Shape /\ setup \in Setup /\ T \in Seq(AnyStep) /\ T # <<>> /\ T[1].do = "pending"
      /\ request[s].todo # <<>> /\ T[1] = Next1(s) /\ T[1] \in AnyStep /\ GoodStep(T, 1)
      /\ Rows /\ Fed /\ GoodSteps(T) /\ Carried(T) /\ SecondFirst(T) /\ Covered(T) /\ Ending(T)
  BY <1>1, <1>6, Known, InHand
<1>8. Len(T) = 1 /\ DOMAIN T = {1} /\ GoodPending(x)
  <2>1. Len(T) = 1 /\ GoodPending(x) BY <1>2, <1>7 DEF GoodStep
  <2> QED BY <1>7, <2>1
<1>9. /\ ms \in Seq(S) /\ DOMAIN ms = 1..Len(ms) /\ Len(ms) \in Nat
      /\ \A m \in S : \E i \in DOMAIN ms : ms[i] = m
  <2>1. Match = Board BY <1>7 DEF Rows, Match
  <2>2. IsFiniteSet(Match) BY <1>7, <2>1, FiniteBracket
  <2>3. IsFiniteSet(S) BY <1>3, <2>2, FS_Subset
  <2> QED BY <2>3, EverythingInOrder
<1>10. \A m \in S : m \in Nat \X Nat \X Nat
  <2> TAKE m \in S
  <2>1. m = <<m[1], m[2], m[3]>> /\ m[1] \in 1..Rounds + 1 /\ m[2] \in Nat /\ m[3] \in {1, 2} /\ Rounds \in 1..4
    BY <1>3, <1>7 DEF Shape
  <2> QED BY <2>1
<1>11. /\ V \in Seq(AnyStep) /\ DOMAIN V = DOMAIN ms
       /\ \A i \in DOMAIN V : V[i] = Check(ms[i]) /\ V[i].do = "check" /\ V[i].on = ms[i] /\ ms[i] \in S
  <2>1. \A i \in DOMAIN ms : ms[i] \in S BY <1>9
  <2>2. \A m \in S : [do |-> "check", on |-> m] \in AnyStep BY <1>10 DEF AnyStep, CheckStep
  <2> QED BY <1>5, <1>9, <2>1, <2>2 DEF Check
<1>12. Alone' /\ Todo' = V
  <2>1. V \o Tail(T) = V
    <3>1. PICK h : h = T[1] OBVIOUS
    <3>2. T = <<h>> BY <1>7, <1>8, <3>1
    <3>3. Tail(T) = <<>> BY <3>2
    <3>4. V \o <<>> = V BY <1>11
    <3> QED BY <3>3, <3>4
  <2> QED BY <1>1, <1>6, <1>7, <1>11, <2>1, ThenTodo
<1>13. ASSUME NEW k \in Match, Ready(k), x \in TeamsOf(k)
       PROVE  \E i \in DOMAIN V : V[i] = Check(k)
  <2>1. k \in S BY <1>3, <1>13
  <2> QED BY <1>9, <1>11, <2>1
<1>14. \A k \in Match : k[3] = 2 /\ match[k].status = "COMPLETED" => match[FirstLeg(k)].status = "COMPLETED"
  BY <1>7, <1>8 DEF SecondFirst, FirstPlayed
<1>15. GoodSteps(V)
  <2> SUFFICES ASSUME NEW i \in DOMAIN V PROVE GoodStep(V, i) BY DEF GoodSteps
  <2>1. PICK c : c = ms[i] OBVIOUS
  <2>2. c \in Match /\ Ready(c) /\ x \in TeamsOf(c) /\ V[i].do = "check" /\ V[i].on = c BY <1>3, <1>11, <2>1
  <2>3. GoodCheck(V, V[i])
    <3> SUFFICES ASSUME c[3] = 2
                 PROVE  /\ Null \notin TeamsOf(c) /\ FirstPlayed(V, c)
                        /\ TeamsOf(c) \cap withdrawn # {} /\ \E side \in HomeAway : match[c][side] \notin withdrawn
      BY <1>11, <2>2 DEF GoodCheck
    <3>1. FirstPlayed(V, c)
      <4>1. PICK f \in Match : f = FirstLeg(c) BY <1>7, <2>2, Legs
      <4>2. TeamsOf(f) = TeamsOf(c) BY <1>7, <2>2, <4>1, Mirror
      <4>3. CASE match[f].status = "COMPLETED" BY <4>1, <4>3 DEF FirstPlayed
      <4>4. CASE match[f].status = "SCHEDULED"
        <5>1. Ready(f) /\ x \in TeamsOf(f) BY <2>2, <4>2, <4>4 DEF Ready
        <5>2. PICK j \in DOMAIN V : V[j] = Check(f) BY <1>13, <5>1
        <5> QED BY <4>1, <5>2 DEF FirstPlayed, Check
      <4> QED BY <1>7, <4>3, <4>4, RowTypes
    <3>2. Stranding(c) BY <1>8, <2>2 DEF Stranding, GoodPending
    <3> QED BY <1>8, <2>2, <3>1, <3>2 DEF GoodPending, Ready, Stranding
  <2> QED BY <2>2, <2>3 DEF GoodStep
<1>16. Carried(V)
  <2>1. \A g, y : ~Doing(T, Place(g, y)) BY <1>7, <1>8 DEF Doing, Place
  <2> QED BY <1>7, <2>1 DEF Carried
<1>17. SecondFirst(V) BY <1>14 DEF SecondFirst, FirstPlayed
<1>18. Covered(V)
  <2> SUFFICES ASSUME NEW k \in Match, Stranding(k) PROVE \E i \in DOMAIN V : Covers(V[i], k) BY DEF Covered
  <2>1. Ready(k) /\ x \in TeamsOf(k) BY <1>8 DEF GoodPending, Stranding
  <2> QED BY <1>13, <2>1 DEF Covers, Check
<1>19. Ending(V) BY <1>7, <1>8 DEF Ending
<1>20. InStep(V)' BY <1>6, <1>7, <1>15, <1>16, <1>17, <1>18, <1>19, SameState DEF InStep
<1>21. Others' BY <1>6, <1>7 DEF Others
<1> QED BY <1>12, <1>20, <1>21, Landing

-----------------------------------------------------------------------------
(* Requests *)

\* A request begins when none is in flight, so there is nothing it could disturb.
LEMMA BeginKeeps ==
  ASSUME OneByOne, KnockoutInv, NEW s \in Slot, NEW who, NEW t \in AnyStep, Begin(s, who, <<t>>),
         NEW V, V = <<t>>, GoodStep(V, 1)
  PROVE  KnockoutInv'
<1>1. PICK T : T = Todo OBVIOUS
<1>2. /\ Alone /\ Others /\ Shape /\ setup \in Setup
      /\ Rows /\ Fed /\ GoodSteps(T) /\ Carried(T) /\ SecondFirst(T) /\ Covered(T) /\ Ending(T)
  BY <1>1, Known
<1>3. V \in Seq(AnyStep) /\ V # <<>> /\ DOMAIN V = {1} OBVIOUS
<1>4. T = <<>> /\ Alone' /\ Todo' = V /\ UNCHANGED <<setup, match, withdrawn, phase, status, placements>>
  BY <1>1, <1>2, <1>3, BeginTodo
<1>5. DOMAIN T = {} BY <1>4
<1>6. GoodSteps(V) BY <1>3 DEF GoodSteps
<1>7. Carried(V) BY <1>2, <1>5 DEF Carried, Doing
<1>8. SecondFirst(V) BY <1>2, <1>5 DEF SecondFirst, FirstPlayed
<1>9. Covered(V) BY <1>2, <1>5 DEF Covered
<1>10. Ending(V) BY <1>2, <1>5 DEF Ending
<1>11. InStep(V)' BY <1>2, <1>4, <1>6, <1>7, <1>8, <1>9, <1>10, SameState DEF InStep
<1>12. Others' BY <1>2, <1>4 DEF Others
<1> QED BY <1>4, <1>11, <1>12, Landing

LEMMA MatchIds ==
  ASSUME Shape, NEW m \in Match
  PROVE  m \in Nat \X Nat \X Nat
<1>1. m = <<m[1], m[2], m[3]>> /\ m[1] \in 1..Rounds + 1 /\ m[2] \in Nat /\ m[3] \in {1, 2} /\ Rounds \in 1..4
  BY DEF Shape
<1> QED BY <1>1

\* A row to save, of a leg that decides nothing and of one that decides its tie.
LEMMA ResultIs ==
  ASSUME Shape, NEW m \in Match, NEW home \in Nat, NEW away \in Nat, NEW forfeit \in {"home", "away", Null}
  PROVE  /\ Result(m, home, away, forfeit) \in AnyStep
         /\ Result(m, home, away, forfeit) =
              [do |-> "save", on |-> m, homeGoals |-> home, awayGoals |-> away, forfeit |-> forfeit,
               winner |-> Null, loser |-> Null]
BY MatchIds DEF Result, AnyStep, SaveStep

LEMMA DecidingIs ==
  ASSUME Shape, Rows, NEW m \in Match, NEW home \in Nat, NEW away \in Nat, NEW forfeit \in {"home", "away", Null},
         NEW side \in HomeAway
  PROVE  /\ Deciding(m, home, away, forfeit, side) \in AnyStep
         /\ Deciding(m, home, away, forfeit, side) =
              [do |-> "save", on |-> m, homeGoals |-> home, awayGoals |-> away, forfeit |-> forfeit,
               winner |-> match[m][side], loser |-> match[m][Other(side)]]
<1>1. PICK w : w = match[m][side] OBVIOUS
<1>2. PICK l : l = match[m][Other(side)] OBVIOUS
<1>3. w \in Team \cup {Null} /\ l \in Team \cup {Null} BY <1>1, <1>2, RowTypes, Sides
<1>4. PICK r : r = Result(m, home, away, forfeit) OBVIOUS
<1>5. r = [do |-> "save", on |-> m, homeGoals |-> home, awayGoals |-> away, forfeit |-> forfeit,
           winner |-> Null, loser |-> Null] BY <1>4, ResultIs
<1>6. Deciding(m, home, away, forfeit, side) = [r EXCEPT !.winner = w, !.loser = l]
  BY <1>1, <1>2, <1>4 DEF Deciding
<1>7. Deciding(m, home, away, forfeit, side) =
         [do |-> "save", on |-> m, homeGoals |-> home, awayGoals |-> away, forfeit |-> forfeit,
          winner |-> w, loser |-> l]
  BY <1>5, <1>6
<1>8. m \in Nat \X Nat \X Nat BY MatchIds
<1> QED BY <1>1, <1>2, <1>3, <1>7, <1>8 DEF AnyStep, SaveStep

LEMMA ForfeitGoals ==
  \A side : HomeForfeit(side) \in Nat /\ AwayForfeit(side) \in Nat
BY DEF HomeForfeit, AwayForfeit, ForfeitScore

LEMMA RecordFirstLegKeeps ==
  ASSUME OneByOne, KnockoutInv, NEW s \in Slot, NEW m \in Match, RecordFirstLeg(s, m)
  PROVE  KnockoutInv'
<1>1. Shape /\ Rows BY Known
<1>2. PICK home \in Nat, away \in Nat, forfeit \in {"home", "away", Null} :
        Begin(s, Concerned(m), <<Result(m, home, away, forfeit)>>)
  <2>1. ASSUME NEW goals \in Score, Begin(s, Concerned(m), <<Result(m, goals[1], goals[2], Null)>>)
        PROVE  \E home \in Nat, away \in Nat, forfeit \in {"home", "away", Null} :
                 Begin(s, Concerned(m), <<Result(m, home, away, forfeit)>>)
    <3>1. goals[1] \in Nat /\ goals[2] \in Nat BY KnockoutAssumption
    <3> QED BY <2>1, <3>1
  <2>2. ASSUME NEW side \in Absent,
               Begin(s, Concerned(m), <<Result(m, HomeForfeit(side), AwayForfeit(side), side)>>)
        PROVE  \E home \in Nat, away \in Nat, forfeit \in {"home", "away", Null} :
                 Begin(s, Concerned(m), <<Result(m, home, away, forfeit)>>)
    <3>1. side \in {"home", "away", Null} BY KnockoutAssumption
    <3> QED BY <2>2, <3>1, ForfeitGoals
  <2> QED BY <2>1, <2>2 DEF RecordFirstLeg
<1>3. PICK t : t = Result(m, home, away, forfeit) OBVIOUS
<1>4. t \in AnyStep /\ t.do = "save" /\ t.on = m /\ t.winner = Null BY <1>1, <1>3, ResultIs
<1>5. PICK V : V = <<t>> OBVIOUS
<1>6. V[1] = t /\ Len(V) = 1 BY <1>5
<1>7. FirstOfTwo(m) /\ ~match[m].isBye /\ Null \notin TeamsOf(m) BY DEF RecordFirstLeg, Recordable
<1>8. m[3] = 1 BY <1>7 DEF FirstOfTwo
<1>9. GoodSave(V, t, 1) BY <1>4, <1>6, <1>7, <1>8 DEF GoodSave
<1>10. GoodStep(V, 1) BY <1>4, <1>6, <1>9 DEF GoodStep
<1> QED BY <1>2, <1>3, <1>4, <1>5, <1>10, BeginKeeps

\* A result that decides its tie, with nothing below it played.
LEMMA DecidingKeeps ==
  ASSUME OneByOne, KnockoutInv, NEW s \in Slot, NEW m \in Match, MayDecide(m),
         NEW home \in Nat, NEW away \in Nat, NEW forfeit \in {"home", "away", Null}, NEW side \in HomeAway,
         Begin(s, Concerned(m), <<Deciding(m, home, away, forfeit, side)>>)
  PROVE  KnockoutInv'
<1>1. Shape /\ Rows BY Known
<1>3. PICK t : t = Deciding(m, home, away, forfeit, side) OBVIOUS
<1>4. t \in AnyStep /\ t.do = "save" /\ t.on = m
      /\ t.winner = match[m][side] /\ t.loser = match[m][Other(side)]
  BY <1>1, <1>3, DecidingIs
<1>5. PICK V : V = <<t>> OBVIOUS
<1>6. V[1] = t /\ Len(V) = 1 BY <1>5
<1>7. ~FirstOfTwo(m) /\ ~match[m].isBye /\ Null \notin TeamsOf(m) /\ NextUnplayed(m)
      /\ (m[3] = 2 => match[FirstLeg(m)].status = "COMPLETED")
  BY DEF MayDecide, Recordable
<1>9. GoodSave(V, t, 1) BY <1>4, <1>6, <1>7 DEF GoodSave
<1>10. GoodStep(V, 1) BY <1>4, <1>6, <1>9 DEF GoodStep
<1> QED BY <1>3, <1>4, <1>5, <1>10, BeginKeeps

LEMMA RecordKeeps ==
  ASSUME OneByOne, KnockoutInv, NEW s \in Slot, NEW m \in Match, RecordScore(s, m) \/ RecordForfeit(s, m)
  PROVE  KnockoutInv'
<1>1. CASE RecordScore(s, m)
  <2>1. PICK goals \in Score, side \in {"home", "away"} :
          Begin(s, Concerned(m), <<Deciding(m, goals[1], goals[2], Null, side)>>)
    BY <1>1 DEF RecordScore
  <2>2. goals[1] \in Nat /\ goals[2] \in Nat BY KnockoutAssumption
  <2>3. MayDecide(m) BY <1>1 DEF RecordScore
  <2> QED BY <2>1, <2>2, <2>3, DecidingKeeps DEF HomeAway
<1>2. CASE RecordForfeit(s, m)
  <2>1. PICK side \in Absent :
          Begin(s, Concerned(m), <<Deciding(m, HomeForfeit(side), AwayForfeit(side), side, Other(side))>>)
    BY <1>2 DEF RecordForfeit
  <2>2. side \in {"home", "away", Null} /\ Other(side) \in HomeAway BY KnockoutAssumption DEF Other, HomeAway
  <2>3. MayDecide(m) BY <1>2 DEF RecordForfeit
  <2> QED BY <2>1, <2>2, <2>3, ForfeitGoals, DecidingKeeps
<1> QED BY <1>1, <1>2

LEMMA WithdrawReadKeeps ==
  ASSUME OneByOne, KnockoutInv, NEW s \in Slot, NEW x \in Team, WithdrawRead(s, x)
  PROVE  KnockoutInv'
<1>1. PICK t : t = [do |-> "withdraw", team |-> x] OBVIOUS
<1>2. t \in AnyStep /\ t.do = "withdraw" BY <1>1 DEF AnyStep, TeamStep
<1>3. PICK who : who = Opponents(x) \cup {x} OBVIOUS
<1>4. Begin(s, who, <<t>>) BY <1>1, <1>3 DEF WithdrawRead
<1>5. PICK V : V = <<t>> OBVIOUS
<1>6. V[1] = t /\ Len(V) = 1 BY <1>5
<1>7. GoodStep(V, 1) BY <1>2, <1>6 DEF GoodStep
<1> QED BY <1>2, <1>4, <1>5, <1>7, BeginKeeps

-----------------------------------------------------------------------------
(* Walkovers *)

\* Looking at a match, and having it saved when a team that withdrew would strand it,
\* leaves everything else to do in order.
LEMMA CheckRest ==
  ASSUME setup \in Setup, Shape, NEW T \in Seq(AnyStep), T # <<>>, InStep(T),
         NEW m \in Match, T[1] = Check(m),
         NEW u \in Seq(AnyStep), NEW V, V = u \o Tail(T),
         \A i \in DOMAIN u : u[i].do = "save" /\ u[i].on \in Match /\ u[i].on[1] = m[1] /\ GoodSave(V, u[i], i),
         Stranding(m) => \E i \in DOMAIN u : u[i].on = m,
         Stranding(m) /\ FirstOfTwo(m) => \E i \in DOMAIN u : u[i].on = SecondLeg(m)
  PROVE  InStep(V)
<1>1. /\ Rows /\ Fed /\ GoodSteps(T) /\ Carried(T) /\ SecondFirst(T) /\ Covered(T) /\ Ending(T)
      /\ T[1].do = "check" /\ T[1].on = m
  BY DEF InStep, Check
<1>2. Spliced(u, T, V) BY Splice
<1>3. \A i \in DOMAIN u : i \in DOMAIN V /\ V[i] = u[i] BY <1>2 DEF Spliced
<1>4. \A j \in DOMAIN T : j = 1 \/ \E i \in DOMAIN V : V[i] = T[j] BY <1>2 DEF Spliced
<1>5. \A i \in DOMAIN V : V[i].do # "save" => \E j \in DOMAIN T : V[i] = T[j]
  <2> TAKE i \in DOMAIN V
  <2> HAVE V[i].do # "save"
  <2>1. CASE i \in DOMAIN u BY <1>3, <2>1
  <2>2. CASE \E j \in DOMAIN T : j >= 2 /\ i = j + Len(u) - 1 BY <1>2, <2>2 DEF Spliced
  <2> QED BY <1>2, <2>1, <2>2 DEF Spliced
<1>6. ASSUME NEW k \in Match, k[3] = 2, Null \notin TeamsOf(k), TeamsOf(k) \cap withdrawn # {}, FirstPlayed(T, k)
      PROVE  FirstPlayed(V, k)
  <2>1. CASE match[FirstLeg(k)].status = "COMPLETED" BY <2>1 DEF FirstPlayed
  <2>2. CASE match[FirstLeg(k)].status # "COMPLETED"
    <3>1. PICK j \in DOMAIN T : T[j].do \in {"check", "save"} /\ T[j].on = FirstLeg(k)
      BY <1>6, <2>2 DEF FirstPlayed
    <3>2. CASE j # 1 BY <1>4, <3>1, <3>2 DEF FirstPlayed
    <3>3. CASE j = 1
      <4>1. m = FirstLeg(k) BY <1>1, <3>1, <3>3
      <4>2. TeamsOf(m) = TeamsOf(k) BY <1>1, <1>6, <4>1, Mirror
      <4>3. match[m].status = "SCHEDULED" BY <1>1, <2>2, <4>1, RowTypes
      <4>4. Stranding(m) BY <1>6, <4>2, <4>3 DEF Stranding, Ready
      <4>5. PICK i \in DOMAIN u : u[i].on = m BY <4>4
      <4> QED BY <1>3, <4>1, <4>5 DEF FirstPlayed
    <3> QED BY <3>2, <3>3
  <2> QED BY <2>1, <2>2
<1>7. GoodSteps(V)
  <2> SUFFICES ASSUME NEW i \in DOMAIN V PROVE GoodStep(V, i) BY DEF GoodSteps
  <2>1. CASE i \in DOMAIN u
    <3>1. V[i].do = "save" /\ V[i].on \in Match /\ GoodSave(V, V[i], i) BY <1>3, <2>1
    <3> QED BY <3>1 DEF GoodStep
  <2>2. ASSUME NEW j \in DOMAIN T, j >= 2, i = j + Len(u) - 1 PROVE GoodStep(V, i)
    <3>1. T[j].do # "save" BY <1>1, <2>2, RestKinds
    <3>2. T[j].do = "place" => \A n \in DOMAIN u : u[n].do \in {"save", "place", "check"} => u[n].on[1] = Rounds
      <4> HAVE T[j].do = "place"
      <4>1. m[1] = Rounds BY <1>1, <2>2, RestKinds
      <4> QED BY <4>1
    <3>3. T[j].do = "check" => GoodCheck(V, T[j])
      <4> HAVE T[j].do = "check"
      <4>1. GoodCheck(T, T[j]) /\ T[j].on \in Match BY <1>1 DEF GoodSteps, GoodStep
      <4>2. \A n \in DOMAIN V : V[n].do = "place" => \E l \in DOMAIN T : V[n] = T[l] BY <1>5
      <4> QED BY <1>6, <4>1, <4>2, SMTT(30) DEF GoodCheck
    <3> QED BY <1>1, <2>2, <3>1, <3>2, <3>3, RestGood
  <2> QED BY <1>2, <2>1, <2>2 DEF Spliced
<1>8. Carried(V)
  <2>1. \A g, x : Doing(T, Place(g, x)) => Doing(V, Place(g, x))
    <3> TAKE g, x
    <3> HAVE Doing(T, Place(g, x))
    <3>1. PICK j \in DOMAIN T : T[j] = Place(g, x) BY DEF Doing
    <3>2. T[j].do = "place" BY <3>1 DEF Place
    <3>3. j # 1 BY <1>1, <3>2
    <3> QED BY <1>4, <3>1, <3>3, ZenonT(30) DEF Doing
  <2> QED BY <1>1, <2>1 DEF Carried
<1>9. SecondFirst(V)
  <2> SUFFICES ASSUME NEW k \in Match, k[3] = 2, match[k].status = "COMPLETED"
               PROVE  /\ FirstPlayed(V, k)
                      /\ match[FirstLeg(k)].status # "COMPLETED" => \E side \in HomeAway : LostBy(k, side, match[k])
    BY DEF SecondFirst
  <2>1. FirstPlayed(T, k) /\
        (match[FirstLeg(k)].status # "COMPLETED" => \E side \in HomeAway : LostBy(k, side, match[k]))
    BY <1>1 DEF SecondFirst
  <2>2. CASE match[FirstLeg(k)].status = "COMPLETED" BY <2>1, <2>2 DEF FirstPlayed
  <2>3. CASE match[FirstLeg(k)].status # "COMPLETED"
    <3>1. PICK side \in HomeAway : LostBy(k, side, match[k]) BY <2>1, <2>3
    <3>2. TeamsOf(k) \cap withdrawn # {} BY <1>1, <3>1, RowTypes, Sides DEF LostBy
    <3>3. Null \notin TeamsOf(k) BY <1>1, RowFacts DEF Rows, RowSound
    <3> QED BY <1>6, <2>1, <3>2, <3>3
  <2> QED BY <2>2, <2>3
<1>10. Covered(V)
  <2> SUFFICES ASSUME NEW k \in Match, Stranding(k) PROVE \E i \in DOMAIN V : Covers(V[i], k) BY DEF Covered
  <2>1. PICK j \in DOMAIN T : Covers(T[j], k) BY <1>1 DEF Covered
  <2>2. CASE j # 1
    <3>1. PICK i \in DOMAIN V : V[i] = T[j] BY <1>4, <2>2
    <3> QED BY <2>1, <3>1
  <2>3. CASE j = 1
    <3>1. m = k \/ (m = FirstLeg(k) /\ match[m].status = "SCHEDULED") BY <1>1, <2>1, <2>3 DEF Covers
    <3>2. CASE m = k BY <1>3, <3>2 DEF Covers
    <3>3. CASE m # k
      <4>1. k[3] = 2 /\ m = FirstLeg(k) BY <3>1, <3>3, Legs
      <4>2. TeamsOf(m) = TeamsOf(k) BY <1>1, <4>1, Mirror
      <4>3. Stranding(m) BY <3>1, <3>3, <4>2 DEF Stranding, Ready
      <4>4. FirstOfTwo(m) /\ SecondLeg(m) = k
        <5>1. k = SecondLeg(k) /\ FirstOfTwo(m) BY <4>1, Legs
        <5>2. SecondLeg(m) = SecondLeg(k) BY <4>1 DEF FirstLeg, SecondLeg
        <5> QED BY <5>1, <5>2
      <4>5. PICK i \in DOMAIN u : u[i].on = k BY <4>3, <4>4
      <4> QED BY <1>3, <4>5 DEF Covers
    <3> QED BY <3>2, <3>3
  <2> QED BY <2>2, <2>3
<1>11. Ending(V)
  <2>1. (\E j \in DOMAIN T : T[j].do \in {"after", "complete"}) => \E i \in DOMAIN V : V[i].do \in {"after", "complete"}
    BY <1>1, <1>4
  <2> QED BY <1>1, <2>1 DEF Ending
<1> QED BY <1>1, <1>7, <1>8, <1>9, <1>10, <1>11 DEF InStep

LEMMA MaybeWalkoverKeeps ==
  ASSUME OneByOne, KnockoutInv, NEW s \in Slot, MaybeWalkover(s)
  PROVE  KnockoutInv'
<1>1. PICK T : T = Todo OBVIOUS
<1>2. PICK m : m = Next1(s).on OBVIOUS
<1>3. AtStep(s, "check") /\ UNCHANGED <<setup, match, withdrawn, phase, status, placements>>
  BY DEF MaybeWalkover
<1>4. /\ Alone /\ Others /\ Shape /\ setup \in Setup /\ T \in Seq(AnyStep) /\ T # <<>> /\ T[1].do = "check"
      /\ request[s].todo # <<>> /\ T[1] = Next1(s) /\ T[1] \in AnyStep /\ GoodStep(T, 1)
      /\ Rows /\ Fed /\ GoodSteps(T) /\ Carried(T) /\ SecondFirst(T) /\ Covered(T) /\ Ending(T) /\ InStep(T)
  BY <1>1, <1>3, Known, InHand
<1>5. T[1] = Check(m) /\ m \in Match /\ GoodCheck(T, T[1])
  BY <1>2, <1>4, StepKinds DEF GoodStep
<1>6. ASSUME NEW u \in Seq(AnyStep), Then(s, u), NEW V, V = u \o Tail(T), InStep(V) PROVE KnockoutInv'
  <2>1. Alone' /\ Todo' = V BY <1>1, <1>4, <1>6, ThenTodo
  <2>2. InStep(V)' BY <1>3, <1>6, SameState
  <2>3. Others' BY <1>3, <1>4 DEF Others
  <2> QED BY <2>1, <2>2, <2>3, Landing
<1>7. CASE ~Stranding(m)
  <2>1. PICK u : u = <<>> OBVIOUS
  <2>2. Then(s, u) BY <1>2, <1>7, <2>1 DEF MaybeWalkover, Stranding
  <2>3. PICK V : V = u \o Tail(T) OBVIOUS
  <2>4. u \in Seq(AnyStep) /\ DOMAIN u = {} BY <2>1
  <2>5. InStep(V) BY <1>4, <1>5, <1>7, <2>3, <2>4, CheckRest
  <2> QED BY <1>6, <2>2, <2>3, <2>4, <2>5
<1>8. CASE Stranding(m)
  <2>0. Ready(m) /\ TeamsOf(m) \cap withdrawn # {} BY <1>8 DEF Stranding
  <2>1. PICK side \in HomeAway : match[m][side] \in withdrawn /\ Then(s, Walkover(m, side))
    BY <1>2, <2>0 DEF MaybeWalkover, HomeAway
  <2>2. PICK o : o = Other(side) OBVIOUS
  <2>3. o \in HomeAway /\ o # side /\ Other(o) = side BY <2>2, Sides
  <2>4. side \in {"home", "away", Null} /\ o \in {"home", "away", Null} BY <2>3 DEF HomeAway
  <2>5. /\ HomeForfeit(side) \in Nat /\ AwayForfeit(side) \in Nat
        /\ HomeForfeit(o) \in Nat /\ AwayForfeit(o) \in Nat
    BY ForfeitGoals
  <2>6. match[m].status = "SCHEDULED" /\ Null \notin TeamsOf(m) BY <2>0 DEF Ready
  <2>7. match[m].winner = Null /\ ~match[m].isBye BY <1>4, <1>5, <2>6, RowFacts
  <2>8. CASE FirstOfTwo(m)
    <3>1. PICK k \in Match : k = SecondLeg(m) BY <2>8 DEF FirstOfTwo
    <3>2. k[3] = 2 /\ m[3] = 1 /\ FirstLeg(k) = m /\ ~FirstOfTwo(k) /\ TieOf(k) = TieOf(m) /\ k[1] = m[1]
      BY <1>4, <1>5, <2>8, <3>1, Legs DEF FirstOfTwo, TieOf
    <3>3. PICK r1 : r1 = Result(m, HomeForfeit(side), AwayForfeit(side), side) OBVIOUS
    <3>4. PICK r2 : r2 = Deciding(k, HomeForfeit(o), AwayForfeit(o), o, side) OBVIOUS
    <3>5. r1 \in AnyStep /\ r1.do = "save" /\ r1.on = m /\ r1.winner = Null
      BY <1>4, <1>5, <2>4, <2>5, <3>3, ResultIs
    <3>6. /\ r2 \in AnyStep
          /\ r2 = [do |-> "save", on |-> k, homeGoals |-> HomeForfeit(o), awayGoals |-> AwayForfeit(o), forfeit |-> o,
                   winner |-> match[k][side], loser |-> match[k][Other(side)]]
      BY <1>4, <2>4, <2>5, <3>4, DecidingIs, SMTT(30)
    <3>7. PICK u : u = <<r1, r2>> OBVIOUS
    <3>8. Walkover(m, side) = u BY <2>2, <2>3, <2>8, <3>1, <3>3, <3>4, <3>7 DEF Walkover
    <3>9. u \in Seq(AnyStep) /\ DOMAIN u = {1, 2} /\ u[1] = r1 /\ u[2] = r2 BY <3>5, <3>6, <3>7
    <3>10. PICK V : V = u \o Tail(T) OBVIOUS
    <3>11. Spliced(u, T, V) BY <1>4, <3>9, <3>10, Splice
    <3>12. V[1] = r1 /\ V[2] = r2 BY <3>9, <3>11 DEF Spliced
    <3>13. GoodSave(V, r1, 1) BY <2>6, <2>7, <2>8, <3>1, <3>2, <3>5, <3>6, <3>12 DEF GoodSave
    <3>14. TeamsOf(k) = TeamsOf(m) /\ ~match[k].isBye
           /\ \A sd \in HomeAway : match[k][sd] = match[m][Other(sd)]
      BY <1>4, <3>2, Mirror, RowFacts
    <3>15. ~Decided(k) \/ Repeats(r2)
      <4> SUFFICES ASSUME Decided(k) PROVE Repeats(r2) OBVIOUS
      <4>1. match[k].status = "COMPLETED" BY <1>4, RowFacts
      <4>2. PICK sd \in HomeAway : LostBy(k, sd, match[k])
        BY <1>4, <2>6, <3>2, <4>1 DEF SecondFirst
      <4>3. match[k][o] \in withdrawn BY <2>1, <2>3, <3>14
      <4>4. sd = o
        <5>1. Other(sd) # o BY <4>2, <4>3 DEF LostBy
        <5> QED BY <2>3, <5>1, Sides
      <4> QED BY <2>3, <3>6, <4>1, <4>2, <4>4 DEF LostBy, Repeats
    <3>16. GoodSave(V, r2, 2)
      BY <2>6, <2>8, <3>1, <3>2, <3>5, <3>6, <3>12, <3>14, <3>15 DEF GoodSave
    <3>17. \A i \in DOMAIN u : u[i].do = "save" /\ u[i].on \in Match /\ u[i].on[1] = m[1] /\ GoodSave(V, u[i], i)
      BY <1>5, <3>2, <3>5, <3>6, <3>9, <3>13, <3>16
    <3>18. 1 \in DOMAIN u /\ u[1].on = m /\ 2 \in DOMAIN u /\ u[2].on = SecondLeg(m)
      BY <3>1, <3>5, <3>6, <3>9
    <3>18a. (\E i \in DOMAIN u : u[i].on = m) /\ \E i \in DOMAIN u : u[i].on = SecondLeg(m) BY <3>18
    <3>18b. setup \in Setup /\ Shape /\ T \in Seq(AnyStep) /\ T # <<>> /\ InStep(T) /\ m \in Match /\ T[1] = Check(m)
           /\ u \in Seq(AnyStep)
      BY <1>4, <1>5, <3>9
    <3>19. InStep(V) BY ONLY <3>10, <3>17, <3>18a, <3>18b, CheckRest, ZenonT(30)
    <3> QED BY <1>6, <2>1, <3>8, <3>9, <3>10, <3>19
  <2>9. CASE ~FirstOfTwo(m)
    <3>1. PICK r : r = Deciding(m, HomeForfeit(side), AwayForfeit(side), side, o) OBVIOUS
    <3>2. /\ r \in AnyStep
          /\ r = [do |-> "save", on |-> m, homeGoals |-> HomeForfeit(side), awayGoals |-> AwayForfeit(side),
                  forfeit |-> side, winner |-> match[m][o], loser |-> match[m][Other(o)]]
      <4>1. Shape /\ Rows /\ m \in Match /\ o \in HomeAway /\ side \in {"home", "away", Null}
            /\ HomeForfeit(side) \in Nat /\ AwayForfeit(side) \in Nat
        BY <1>4, <1>5, <2>3, <2>4, <2>5
      <4> QED BY ONLY <3>1, <4>1, DecidingIs, ZenonT(30)
    <3>3. PICK u : u = <<r>> OBVIOUS
    <3>4. Walkover(m, side) = u BY <2>2, <2>9, <3>1, <3>3 DEF Walkover
    <3>5. u \in Seq(AnyStep) /\ DOMAIN u = {1} /\ u[1] = r BY <3>2, <3>3
    <3>6. PICK V : V = u \o Tail(T) OBVIOUS
    <3>7. Spliced(u, T, V) BY <1>4, <3>5, <3>6, Splice
    <3>8. ASSUME m[3] = 2 PROVE FirstPlayed(V, m) /\ LostBy(m, side, r)
      <4>1. FirstPlayed(T, m) /\ \E sd \in HomeAway : match[m][sd] \notin withdrawn
        BY <1>5, <3>8 DEF GoodCheck, Check
      <4>2. match[m][o] \notin withdrawn BY <2>1, <2>2, <4>1, Sides
      <4>3. LostBy(m, side, r) BY <2>1, <2>2, <3>2, <4>2 DEF LostBy
      <4>4. FirstPlayed(V, m)
        <5>1. \A j \in DOMAIN T : j = 1 \/ \E i \in DOMAIN V : V[i] = T[j] BY <3>7 DEF Spliced
        <5>2. T[1].on # FirstLeg(m) BY <1>4, <1>5, <3>8, Legs DEF Check
        <5> QED BY <4>1, <5>1, <5>2 DEF FirstPlayed
      <4> QED BY <4>3, <4>4
    <3>9. GoodSave(V, r, 1)
      BY <2>3, <2>6, <2>7, <2>9, <3>2, <3>8 DEF GoodSave, Decided
    <3>10. \A i \in DOMAIN u : u[i].do = "save" /\ u[i].on \in Match /\ u[i].on[1] = m[1] /\ GoodSave(V, u[i], i)
      BY <1>5, <3>2, <3>5, <3>9
    <3>11. 1 \in DOMAIN u /\ u[1].on = m BY <3>2, <3>5
    <3>12. InStep(V) BY <1>4, <1>5, <2>9, <3>5, <3>6, <3>10, <3>11, CheckRest, ZenonT(30)
    <3> QED BY <1>6, <2>1, <3>4, <3>5, <3>6, <3>12
  <2> QED BY <2>8, <2>9
<1> QED BY <1>7, <1>8

-----------------------------------------------------------------------------
(* Placing a team *)

LEMMA SameShape ==
  ASSUME setup' = setup, Match' = Match
  PROVE  /\ Board' = Board /\ Rounds' = Rounds /\ Final' = Final /\ ThirdMatch' = ThirdMatch
         /\ WithThird' = WithThird
         /\ \A m : /\ FirstOfTwo(m)' = FirstOfTwo(m) /\ WinnerTo(m)' = WinnerTo(m) /\ LoserTo(m)' = LoserTo(m)
                   /\ Goals(m)' = Goals(m) /\ Decider(m)' = Decider(m)
                   /\ HasBye(TieOf(m))' = HasBye(TieOf(m)) /\ SourceRound(m)' = SourceRound(m)
         /\ \A x, r, n : Seeded(x, r, n)' = Seeded(x, r, n)
<1>1. Board' = Board
  BY DEF Board, FirstLegs, SecondLegs, ThirdPlace, Ties, Rounds, ThirdMatch, HasBye, Pair
<1>2. Rounds' = Rounds /\ Final' = Final /\ ThirdMatch' = ThirdMatch /\ WithThird' = WithThird
  BY DEF Rounds, Final, ThirdMatch, WithThird
<1>3. \A m : /\ FirstOfTwo(m)' = FirstOfTwo(m) /\ WinnerTo(m)' = WinnerTo(m) /\ LoserTo(m)' = LoserTo(m)
             /\ Goals(m)' = Goals(m) /\ Decider(m)' = Decider(m)
  BY <1>2 DEF FirstOfTwo, WinnerTo, LoserTo, Goals, Decider
<1>4. \A m : HasBye(TieOf(m))' = HasBye(TieOf(m)) /\ SourceRound(m)' = SourceRound(m)
  BY <1>2 DEF HasBye, Pair, SourceRound, TieOf
<1>5. \A x, r, n : Seeded(x, r, n)' = Seeded(x, r, n) BY DEF Seeded
<1> QED BY <1>1, <1>2, <1>3, <1>4, <1>5

WithSide(row, side, x) == [row EXCEPT ![side] = x]

LEMMA SetSide ==
  ASSUME NEW r \in MatchRow, NEW side \in HomeAway, NEW x \in Team, NEW q, q = WithSide(r, side, x)
  PROVE  /\ q \in MatchRow /\ q[side] = x /\ q[Other(side)] = r[Other(side)]
         /\ q.status = r.status /\ q.isBye = r.isBye /\ q.winner = r.winner
         /\ q.homeGoals = r.homeGoals /\ q.awayGoals = r.awayGoals /\ q.forfeit = r.forfeit
         /\ side = "home" => q.home = x /\ q.away = r.away
         /\ side = "away" => q.away = x /\ q.home = r.home
<1>1. r = [home |-> r.home, away |-> r.away, status |-> r.status, isBye |-> r.isBye,
           homeGoals |-> r.homeGoals, awayGoals |-> r.awayGoals, forfeit |-> r.forfeit, winner |-> r.winner]
  BY DEF MatchRow
<1>2. CASE side = "home"
  <2>1. q = [r EXCEPT !.home = x] BY <1>2 DEF WithSide
  <2>2. q = [home |-> x, away |-> r.away, status |-> r.status, isBye |-> r.isBye,
             homeGoals |-> r.homeGoals, awayGoals |-> r.awayGoals, forfeit |-> r.forfeit, winner |-> r.winner]
    BY <1>1, <2>1
  <2>3. q \in MatchRow BY <2>2 DEF MatchRow
  <2>4. q["home"] = x /\ q["away"] = r["away"] BY <1>1, <2>2
  <2> QED BY <1>2, <2>2, <2>3, <2>4, Sides
<1>3. CASE side = "away"
  <2>1. q = [r EXCEPT !.away = x] BY <1>3 DEF WithSide
  <2>2. q = [home |-> r.home, away |-> x, status |-> r.status, isBye |-> r.isBye,
             homeGoals |-> r.homeGoals, awayGoals |-> r.awayGoals, forfeit |-> r.forfeit, winner |-> r.winner]
    BY <1>1, <2>1
  <2>3. q \in MatchRow BY <2>2 DEF MatchRow
  <2>4. q["away"] = x /\ q["home"] = r["home"] BY <1>1, <2>2
  <2> QED BY <1>3, <2>2, <2>3, <2>4, Sides
<1> QED BY <1>2, <1>3, Sides

\* What placing a team changes: its side of the first leg and the other side of the second.
Filled(p) ==
  /\ setup' = setup /\ Match' = Match /\ match' \in [Board -> MatchRow]
  /\ \A k \in Match :
       /\ TieOf(k) # TieOf(p.on) => match'[k] = match[k]
       /\ match'[k].status = match[k].status /\ match'[k].isBye = match[k].isBye
       /\ match'[k].winner = match[k].winner
  /\ match'[p.on][p.side] = p.team /\ match'[p.on][Other(p.side)] = match[p.on][Other(p.side)]
  /\ FirstOfTwo(p.on) => /\ match'[SecondLeg(p.on)][Other(p.side)] = p.team
                         /\ match'[SecondLeg(p.on)][p.side] = match[SecondLeg(p.on)][p.side]

LEMMA PlaceFills ==
  ASSUME Shape, Rows, NEW p, p.on \in Match, p.side \in HomeAway, p.team \in Team, p.on[3] = 1,
         setup' = setup,
         match' = [m \in Match |->
           IF m = p.on THEN WithSide(match[m], p.side, p.team)
           ELSE IF FirstOfTwo(p.on) /\ m = SecondLeg(p.on)
           THEN WithSide(match[m], Other(p.side), p.team)
           ELSE match[m]]
  PROVE  Filled(p)
<1>0. PICK f : f = p.on OBVIOUS
<1>1. PICK side : side = p.side OBVIOUS
<1>2. PICK x : x = p.team OBVIOUS
<1>3. PICK o : o = Other(side) OBVIOUS
<1>4. f \in Match /\ side \in HomeAway /\ o \in HomeAway /\ Other(o) = side /\ x \in Team
  BY <1>0, <1>1, <1>2, <1>3, Sides
<1>5. match' = [m \in Match |-> IF m = f THEN WithSide(match[m], side, x)
                                ELSE IF FirstOfTwo(f) /\ m = SecondLeg(f) THEN WithSide(match[m], o, x)
                                ELSE match[m]]
  BY <1>0, <1>1, <1>2, <1>3
<1>6. Match' = Match
  <2>1. DOMAIN match' = Match BY <1>5
  <2> QED BY <2>1 DEF Match
<1>7. match'[f] = WithSide(match[f], side, x) BY <1>4, <1>5
<1>8. FirstOfTwo(f) => SecondLeg(f) \in Match /\ SecondLeg(f) # f /\ match'[SecondLeg(f)] = WithSide(match[SecondLeg(f)], o, x)
  <2> HAVE FirstOfTwo(f)
  <2>1. SecondLeg(f) \in Match /\ SecondLeg(f) # f BY <1>4, Legs
  <2> QED BY <1>5, <2>1
<1>9. \A k \in Match : k = f \/ (FirstOfTwo(f) /\ k = SecondLeg(f)) \/ match'[k] = match[k] BY <1>5
<1>10. PICK q : q = match'[f] OBVIOUS
<1>11. /\ q \in MatchRow /\ q[side] = x /\ q[o] = match[f][o]
       /\ q.status = match[f].status /\ q.isBye = match[f].isBye /\ q.winner = match[f].winner
  <2>1. PICK r \in MatchRow : r = match[f] BY <1>4, RowTypes
  <2>2. q = WithSide(r, side, x) BY <1>7, <1>10, <2>1
  <2>3. q \in MatchRow /\ q[side] = x /\ q[Other(side)] = r[Other(side)]
        /\ q.status = r.status /\ q.isBye = r.isBye /\ q.winner = r.winner
    BY ONLY <1>4, <2>1, <2>2, SetSide
  <2> QED BY <1>3, <2>1, <2>3
<1>12. FirstOfTwo(f) => LET w == match'[SecondLeg(f)]  v == match[SecondLeg(f)] IN
         /\ w \in MatchRow /\ w[o] = x /\ w[side] = v[side]
         /\ w.status = v.status /\ w.isBye = v.isBye /\ w.winner = v.winner
  <2> HAVE FirstOfTwo(f)
  <2>1. PICK k \in Match : k = SecondLeg(f) BY <1>8
  <2>2. PICK r \in MatchRow : r = match[k] BY <2>1, RowTypes
  <2>3. PICK w : w = match'[k] OBVIOUS
  <2>4. w = WithSide(r, o, x) BY <1>8, <2>1, <2>2, <2>3
  <2>5. /\ w \in MatchRow /\ w[o] = x /\ w[Other(o)] = r[Other(o)]
        /\ w.status = r.status /\ w.isBye = r.isBye /\ w.winner = r.winner
    BY ONLY <1>4, <2>2, <2>4, SetSide
  <2> QED BY <1>4, <2>1, <2>2, <2>3, <2>5
<1>13. \A k \in Match : TieOf(k) # TieOf(f) => match'[k] = match[k]
  <2> TAKE k \in Match
  <2> HAVE TieOf(k) # TieOf(f)
  <2>1. FirstOfTwo(f) => TieOf(SecondLeg(f)) = TieOf(f) BY <1>4, Legs
  <2> QED BY <1>9, <2>1
<1>14. \A k \in Match : match'[k] \in MatchRow
  <2>1. \A k \in Match : match[k] \in MatchRow BY RowTypes
  <2> QED BY <1>9, <1>10, <1>11, <1>12, <2>1
<1>15. match' \in [Board -> MatchRow]
  <2>1. Match = Board BY <1>4, RowTypes
  <2>2. match' \in [Match -> MatchRow] BY <1>5, <1>14
  <2> QED BY <2>1, <2>2
<1>16. \A k \in Match : /\ match'[k].status = match[k].status /\ match'[k].isBye = match[k].isBye
                        /\ match'[k].winner = match[k].winner
  BY <1>9, <1>10, <1>11, <1>12
<1>17. /\ match'[f][side] = x /\ match'[f][o] = match[f][o]
       /\ FirstOfTwo(f) => /\ match'[SecondLeg(f)][o] = x
                           /\ match'[SecondLeg(f)][side] = match[SecondLeg(f)][side]
  BY <1>10, <1>11, <1>12
<1> QED BY <1>0, <1>1, <1>2, <1>3, <1>6, <1>13, <1>15, <1>16, <1>17 DEF Filled

\* Who is placed comes from the match before, and may stand on that side.
LEMMA PlacedFrom ==
  ASSUME setup \in Setup, Shape, Rows, NEW T, NEW p \in PlaceStep, NEW i, GoodPlace(T, p, i), p.on \in Match
  PROVE  /\ p.on[3] = 1 /\ p.on[1] # 1 /\ p.on = FirstLeg(p.on) /\ ~match[p.on].isBye
         /\ Seeded(p.team, SourceRound(p.on), SourceSlot(p.on, p.side))
         /\ \E m \in Match : Decided(m) /\ \E g \in Goals(m) : g.on = p.on /\ g.side = p.side
         /\ \A k \in Match : Decided(k) =>
              /\ \A g \in WinnerTo(k) : g.on = p.on /\ g.side = p.side => p = Place(g, match[k].winner)
              /\ \A g \in LoserTo(k) : g.on = p.on /\ g.side = p.side => p = Place(g, LoserOf(k))
<1>1. PICK m \in Match : Decided(m) /\
        \/ \E g \in WinnerTo(m) : p = Place(g, match[m].winner)
        \/ ~match[m].isBye /\ \E g \in LoserTo(m) : p = Place(g, LoserOf(m))
  BY DEF GoodPlace
<1>2. p.team \in Team BY DEF PlaceStep
<1>3. PICK g \in Goals(m) : /\ g.on = p.on /\ g.side = p.side /\ p = Place(g, p.team) /\ p.team \in TeamsOf(m)
                            /\ \/ g \in WinnerTo(m) /\ p.team = match[m].winner
                               \/ g \in LoserTo(m) /\ p.team = LoserOf(m)
  <2>1. ASSUME NEW g \in WinnerTo(m), p = Place(g, match[m].winner)
        PROVE  g \in Goals(m) /\ g.on = p.on /\ g.side = p.side /\ p.team = match[m].winner /\ p.team \in TeamsOf(m)
    <3>1. match[m].winner \in TeamsOf(m) BY <1>1, RowFacts
    <3> QED BY <2>1, <3>1 DEF Place, Goals
  <2>2. ASSUME NEW g \in LoserTo(m), p = Place(g, LoserOf(m))
        PROVE  g \in Goals(m) /\ g.on = p.on /\ g.side = p.side /\ p.team = LoserOf(m) /\ p.team \in TeamsOf(m)
    <3>1. LoserOf(m) \in TeamsOf(m) BY RowTypes DEF LoserOf
    <3> QED BY <2>2, <3>1 DEF Place, Goals
  <2> QED BY <1>1, <2>1, <2>2
<1>4. p.on[3] = 1 /\ p.on[1] # 1 /\ p.on = FirstLeg(p.on) BY <1>3, GoalOn
<1>5. ~match[p.on].isBye BY <1>4, RowFacts
<1>6. Seeded(p.team, SourceRound(p.on), SourceSlot(p.on, p.side)) BY <1>2, <1>3, SeededOn
<1>7. ASSUME NEW k \in Match, Decided(k), NEW h \in Goals(k), h.on = p.on, h.side = p.side
      PROVE  k = m /\ h = g
  <2>1. TieOf(k) = TieOf(m) BY <1>3, <1>7, SameGoal
  <2>2. Decider(k) = Decider(m) BY <2>1, SameTie
  <2>3. k = m BY <1>1, <1>7, <2>2, RowFacts
  <2>4. h = [on |-> h.on, side |-> h.side] /\ g = [on |-> g.on, side |-> g.side] BY <1>7, GoalOn
  <2> QED BY <1>3, <1>7, <2>3, <2>4
<1>8. ASSUME NEW k \in Match, Decided(k)
      PROVE  /\ \A h \in WinnerTo(k) : h.on = p.on /\ h.side = p.side => p = Place(h, match[k].winner)
             /\ \A h \in LoserTo(k) : h.on = p.on /\ h.side = p.side => p = Place(h, LoserOf(k))
  <2>1. ASSUME NEW h \in WinnerTo(k), h.on = p.on, h.side = p.side PROVE p = Place(h, match[k].winner)
    <3>1. k = m /\ h = g BY <1>7, <1>8, <2>1 DEF Goals
    <3>2. g \notin LoserTo(m) BY <2>1, <3>1, GoalKinds
    <3> QED BY <1>3, <3>1, <3>2
  <2>2. ASSUME NEW h \in LoserTo(k), h.on = p.on, h.side = p.side PROVE p = Place(h, LoserOf(k))
    <3>1. k = m /\ h = g BY <1>7, <1>8, <2>2 DEF Goals
    <3>2. g \notin WinnerTo(m) BY <2>2, <3>1, GoalKinds
    <3> QED BY <1>3, <3>1, <3>2
  <2> QED BY <2>1, <2>2
<1> QED BY <1>1, <1>3, <1>4, <1>5, <1>6, <1>8

\* The rows of a tie that nobody has played are open: what is placed there touches no result.
LEMMA OpenTie ==
  ASSUME Shape, Rows, NEW f \in Match, Open(f), NEW k \in Match, TieOf(k) = TieOf(f)
  PROVE  match[k].status = "SCHEDULED" /\ match[k].winner = Null /\ ~Decided(k) /\ ~match[k].isBye
<1>1. match[k].status # "COMPLETED" BY DEF Open
<1> QED BY <1>1, RowFacts DEF Decided

\* What stays as it was.
LEMMA FilledKeeps ==
  ASSUME Shape, Rows, NEW p, Filled(p), p.on \in Match, p.side \in HomeAway, p.on[3] = 1, Open(p.on)
  PROVE  /\ \A k \in Match : TieOf(k) # TieOf(p.on) =>
              /\ match'[k] = match[k] /\ match'[FirstLeg(k)] = match[FirstLeg(k)] /\ TeamsOf(k)' = TeamsOf(k)
         /\ \A k \in Match : k[3] = 1 => \A side \in HomeAway :
              (k = p.on /\ side = p.side) \/ match'[k][side] = match[k][side]
         /\ \A k \in Match : /\ Decided(k)' = Decided(k)
                             /\ Decided(k) => match'[k] = match[k] /\ LoserOf(k)' = LoserOf(k)
                             /\ Open(k)' = Open(k) /\ match'[k].status = match[k].status
         /\ \A k \in Match, side \in HomeAway : \A x :
              k[3] = 1 /\ In(k, side, x) => In(k, side, x)' \/ (k = p.on /\ side = p.side)
         /\ In(p.on, p.side, p.team)'
<1>1. Match' = Match /\ setup' = setup /\ \A m : FirstOfTwo(m)' = FirstOfTwo(m) BY SameShape DEF Filled
<1>2. \A k \in Match : TieOf(k) # TieOf(p.on) =>
        match'[k] = match[k] /\ match'[FirstLeg(k)] = match[FirstLeg(k)] /\ TeamsOf(k)' = TeamsOf(k)
  <2> TAKE k \in Match
  <2> HAVE TieOf(k) # TieOf(p.on)
  <2>1. FirstLeg(k) \in Match /\ TieOf(FirstLeg(k)) = TieOf(k) BY Legs
  <2>2. match'[k] = match[k] /\ match'[FirstLeg(k)] = match[FirstLeg(k)] BY <2>1 DEF Filled
  <2> QED BY <2>2 DEF TeamsOf
<1>3. \A k \in Match : k[3] = 1 => \A side \in HomeAway :
        (k = p.on /\ side = p.side) \/ match'[k][side] = match[k][side]
  <2> TAKE k \in Match
  <2> HAVE k[3] = 1
  <2> TAKE side \in HomeAway
  <2>1. CASE TieOf(k) # TieOf(p.on) BY <1>2, <2>1
  <2>2. CASE TieOf(k) = TieOf(p.on)
    <3>1. k = p.on BY <2>2, SameTie
    <3>2. side = p.side \/ side = Other(p.side) BY Sides
    <3> QED BY <3>1, <3>2 DEF Filled
  <2> QED BY <2>1, <2>2
<1>4. \A k \in Match : /\ Decided(k)' = Decided(k)
                       /\ Decided(k) => match'[k] = match[k] /\ LoserOf(k)' = LoserOf(k)
                       /\ Open(k)' = Open(k) /\ match'[k].status = match[k].status
  <2> TAKE k \in Match
  <2>1. match'[k].status = match[k].status /\ match'[k].winner = match[k].winner BY DEF Filled
  <2>2. Decided(k)' = Decided(k) BY <2>1 DEF Decided
  <2>3. Decided(k) => match'[k] = match[k] BY <1>2, OpenTie
  <2>4. Decided(k) => LoserOf(k)' = LoserOf(k) BY <2>3 DEF LoserOf
  <2>5. Open(k)' = Open(k)
    <3>1. \A leg \in Match : match'[leg].status = match[leg].status BY DEF Filled
    <3> QED BY <1>1, <3>1 DEF Open
  <2> QED BY <2>1, <2>2, <2>3, <2>4, <2>5
<1>5. \A k \in Match, side \in HomeAway : \A x :
        k[3] = 1 /\ In(k, side, x) => In(k, side, x)' \/ (k = p.on /\ side = p.side)
  <2> SUFFICES ASSUME NEW k \in Match, NEW side \in HomeAway, NEW x, k[3] = 1, In(k, side, x), ~(k = p.on /\ side = p.side)
               PROVE  In(k, side, x)'
    OBVIOUS
  <2>1. match'[k][side] = x BY <1>3 DEF In
  <2>2. FirstOfTwo(k) => match'[SecondLeg(k)][Other(side)] = x
    <3> HAVE FirstOfTwo(k)
    <3>1. SecondLeg(k) \in Match /\ TieOf(SecondLeg(k)) = TieOf(k) BY Legs
    <3>2. match[SecondLeg(k)][Other(side)] = x BY DEF In
    <3>3. CASE TieOf(k) # TieOf(p.on) BY <1>2, <3>1, <3>2, <3>3
    <3>4. CASE TieOf(k) = TieOf(p.on)
      <4>1. k = p.on BY <3>4, SameTie
      <4>2. Other(side) = p.side BY <4>1, Sides
      <4> QED BY <3>2, <4>1, <4>2 DEF Filled
    <3> QED BY <3>3, <3>4
  <2> QED BY <1>1, <2>1, <2>2 DEF In
<1>6. In(p.on, p.side, p.team)' BY <1>1 DEF In, Filled
<1> QED BY <1>2, <1>3, <1>4, <1>5, <1>6

\* Every row is still what its leg is for, and nobody is where nobody sent them.
LEMMA FilledRows ==
  ASSUME setup \in Setup, Shape, Rows, Fed, NEW T, NEW p \in PlaceStep, NEW i, GoodPlace(T, p, i),
         Filled(p), p.on \in Match, Open(p.on)
  PROVE  Rows' /\ Fed'
<1>1. /\ p.on[3] = 1 /\ p.on[1] # 1 /\ p.on = FirstLeg(p.on) /\ ~match[p.on].isBye
      /\ Seeded(p.team, SourceRound(p.on), SourceSlot(p.on, p.side))
      /\ p.side \in HomeAway /\ p.team \in Team
  BY PlacedFrom DEF PlaceStep
<1>1a. PICK m \in Match : Decided(m) /\ \E g \in Goals(m) : g.on = p.on /\ g.side = p.side
  BY PlacedFrom
<1>2. /\ setup' = setup /\ Match' = Match /\ match' \in [Board -> MatchRow] BY DEF Filled
<1>3. /\ Board' = Board
      /\ \A k : /\ FirstOfTwo(k)' = FirstOfTwo(k) /\ Goals(k)' = Goals(k) /\ Decider(k)' = Decider(k)
                /\ HasBye(TieOf(k))' = HasBye(TieOf(k)) /\ SourceRound(k)' = SourceRound(k)
      /\ \A x, r, n : Seeded(x, r, n)' = Seeded(x, r, n)
  BY <1>2, SameShape
<1>4. /\ \A k \in Match : TieOf(k) # TieOf(p.on) =>
           /\ match'[k] = match[k] /\ match'[FirstLeg(k)] = match[FirstLeg(k)] /\ TeamsOf(k)' = TeamsOf(k)
      /\ \A k \in Match : k[3] = 1 => \A side \in HomeAway :
           (k = p.on /\ side = p.side) \/ match'[k][side] = match[k][side]
      /\ \A k \in Match : Decided(k)' = Decided(k)
  BY <1>1, FilledKeeps
<1>5. ASSUME NEW k \in Match PROVE RowSound(k)'
  <2>0. RowSound(k) BY DEF Rows
  <2>1. CASE TieOf(k) # TieOf(p.on)
    <3>1. match'[k] = match[k] /\ match'[FirstLeg(k)] = match[FirstLeg(k)] /\ TeamsOf(k)' = TeamsOf(k) BY <1>4, <2>1
    <3> QED BY <1>3, <2>0, <3>1 DEF RowSound
  <2>2. CASE TieOf(k) = TieOf(p.on)
    <3>1. match[k].status = "SCHEDULED" /\ match[k].winner = Null /\ ~match[k].isBye BY <2>2, OpenTie
    <3>2. match'[k].status = "SCHEDULED" /\ match'[k].winner = Null /\ ~match'[k].isBye BY <3>1 DEF Filled
    <3>3. k[1] # 1 BY <1>1, <2>2, SameTie
    <3>4. k[3] = 2 => /\ match'[k].home = match'[FirstLeg(k)].away /\ match'[k].away = match'[FirstLeg(k)].home
      <4> HAVE k[3] = 2
      <4>1. k = SecondLeg(p.on) /\ FirstLeg(k) = p.on /\ FirstOfTwo(p.on)
        BY <1>1, <2>2, SameTie, Legs
      <4>2. match'[k][Other(p.side)] = p.team /\ match'[k][p.side] = match[k][p.side]
            /\ match'[p.on][p.side] = p.team /\ match'[p.on][Other(p.side)] = match[p.on][Other(p.side)]
        BY <4>1 DEF Filled
      <4>3. match[k][p.side] = match[p.on][Other(p.side)] BY <1>1, <4>1, Mirror
      <4>4. /\ match'[k]["home"] = match'[k].home /\ match'[k]["away"] = match'[k].away
            /\ match'[p.on]["home"] = match'[p.on].home /\ match'[p.on]["away"] = match'[p.on].away
        OBVIOUS
      <4>5. CASE p.side = "home" BY <4>1, <4>2, <4>3, <4>4, <4>5, Sides
      <4>6. CASE p.side = "away" BY <4>1, <4>2, <4>3, <4>4, <4>6, Sides
      <4> QED BY <1>1, <4>5, <4>6, Sides
    <3>5. k[3] = 1 => \A side \in HomeAway : match'[k][side] # Null =>
                        Seeded(match'[k][side], SourceRound(k), SourceSlot(k, side))
      <4> HAVE k[3] = 1
      <4> TAKE side \in HomeAway
      <4> HAVE match'[k][side] # Null
      <4>1. k = p.on BY <1>1, <2>2, SameTie
      <4>2. CASE side = p.side
        <5>1. match'[k][side] = p.team BY <4>1, <4>2 DEF Filled
        <5> QED BY <1>1, <4>1, <4>2, <5>1
      <4>3. CASE side # p.side
        <5>1. match'[k][side] = match[k][side] BY <1>4, <4>1, <4>3
        <5> QED BY <2>0, <3>1, <5>1 DEF RowSound
      <4> QED BY <4>2, <4>3
    <3>6. ~HasBye(TieOf(k)) BY <2>0, <3>1 DEF RowSound
    <3> QED BY <1>3, <3>2, <3>3, <3>4, <3>5, <3>6 DEF RowSound
  <2> QED BY <2>1, <2>2
<1>6. Rows' BY <1>2, <1>3, <1>5 DEF Rows
<1>7. Fed'
  <2> SUFFICES ASSUME NEW k \in Match, NEW g \in Goals(k), match'[g.on][g.side] # Null
               PROVE  Decided(Decider(k))'
    BY <1>2, <1>3 DEF Fed
  <2>0. Decider(k) \in Match BY TieDecider
  <2>1. CASE g.on = p.on /\ g.side = p.side
    <3>1. TieOf(k) = TieOf(m) BY <1>1a, <2>1, SameGoal
    <3>2. Decider(k) = Decider(m) /\ Decider(m) = m BY <1>1a, <3>1, SameTie, RowFacts
    <3>3. Decided(m)' BY <1>1a, <1>4
    <3>4. Decider(k)' = m BY <1>3, <3>2
    <3> QED BY <3>3, <3>4 DEF Decided
  <2>2. CASE ~(g.on = p.on /\ g.side = p.side)
    <3>1. match'[g.on][g.side] = match[g.on][g.side] BY <1>4, <2>2, GoalOn
    <3>2. Decided(Decider(k)) BY <3>1 DEF Fed
    <3>3. PICK d : d = Decider(k) OBVIOUS
    <3>4. Decided(d)' BY <1>4, <2>0, <3>2, <3>3
    <3>5. Decider(k)' = d BY <1>3, <3>3
    <3> QED BY <3>4, <3>5 DEF Decided
  <2> QED BY <2>1, <2>2
<1> QED BY <1>6, <1>7

LEMMA SameSide ==
  ASSUME NEW r \in MatchRow, NEW side \in HomeAway
  PROVE  WithSide(r, side, r[side]) = r
<1>1. r = [home |-> r.home, away |-> r.away, status |-> r.status, isBye |-> r.isBye,
           homeGoals |-> r.homeGoals, awayGoals |-> r.awayGoals, forfeit |-> r.forfeit, winner |-> r.winner]
  BY DEF MatchRow
<1>2. CASE side = "home" BY <1>1, <1>2 DEF WithSide
<1>3. CASE side = "away" BY <1>1, <1>3 DEF WithSide
<1> QED BY <1>2, <1>3, Sides

\* What is left, V, when the first of T is done.
Behind(T, V) ==
  /\ V \in Seq(AnyStep) /\ GoodSteps(V) /\ SecondFirst(V) /\ Covered(V) /\ Ending(V)
  /\ \A step : Doing(T, step) => step = T[1] \/ Doing(V, step)
  /\ \A i \in DOMAIN V : \E j \in DOMAIN T : j >= 2 /\ V[i] = T[j]
  /\ 2 \in DOMAIN T => 1 \in DOMAIN V /\ V[1] = T[2]

\* Behind a team to place, all is well but for that team.
LEMMA PlaceRest ==
  ASSUME setup \in Setup, Shape, NEW T \in Seq(AnyStep), T # <<>>, InStep(T), T[1].do = "place",
         NEW u, u = <<>>, NEW V, V = u \o Tail(T)
  PROVE  Behind(T, V)
<1>1. /\ GoodSteps(T) /\ SecondFirst(T) /\ Covered(T) /\ Ending(T) /\ u \in Seq(AnyStep)
  BY DEF InStep
<1>2. Spliced(u, T, V) BY <1>1, Splice
<1>3. DOMAIN u = {} /\ Len(u) = 0 OBVIOUS
<1>4. /\ V \in Seq(AnyStep)
      /\ \A j \in DOMAIN T : j >= 2 => j - 1 \in DOMAIN V /\ V[j - 1] = T[j]
      /\ \A i \in DOMAIN V : \E j \in DOMAIN T : j >= 2 /\ i = j - 1
      /\ \A j \in DOMAIN T : j \in Nat /\ (j = 1 \/ j >= 2) /\ T[j] \in AnyStep
  <2>1. \A j \in DOMAIN T : j \in Nat /\ j + Len(u) - 1 = j - 1 BY <1>2, <1>3 DEF Spliced
  <2> QED BY <1>2, <1>3, <2>1 DEF Spliced
<1>5. \A i \in DOMAIN V : \E j \in DOMAIN T : j >= 2 /\ V[i] = T[j] BY <1>4
<1>6. \A j \in DOMAIN T : T[j].do # "place" => \E i \in DOMAIN V : V[i] = T[j] BY <1>4
<1>7. \A k : FirstPlayed(T, k) => FirstPlayed(V, k)
  <2> TAKE k
  <2> HAVE FirstPlayed(T, k)
  <2>1. "check" # "place" /\ "save" # "place" OBVIOUS
  <2> QED BY <1>6, <2>1 DEF FirstPlayed
<1>8. GoodSteps(V)
  <2>1. ASSUME NEW i \in DOMAIN V PROVE GoodStep(V, i)
    <3>1. PICK j \in DOMAIN T : j >= 2 /\ i = j - 1 BY <1>4
    <3>2. T[j].do # "save"
      <4>1. T[j].do = "save" => T[1].do = "save" BY <1>1, <3>1, RestKinds
      <4> QED BY <4>1
    <3>3. T[j].do = "check" => GoodCheck(V, T[j])
      <4> HAVE T[j].do = "check"
      <4>1. GoodCheck(T, T[j]) BY <1>1 DEF GoodSteps, GoodStep
      <4> QED BY <1>5, <1>7, <4>1 DEF GoodCheck
    <3>4. GoodStep(V, j + Len(u) - 1) BY <1>1, <1>3, <3>1, <3>2, <3>3, RestGood
    <3>5. j + Len(u) - 1 = i BY <1>3, <1>4, <3>1
    <3> QED BY <3>4, <3>5
  <2> QED BY <2>1 DEF GoodSteps
<1>9. SecondFirst(V) BY <1>1, <1>7 DEF SecondFirst
<1>10. Covered(V)
  <2> SUFFICES ASSUME NEW k \in Match, Stranding(k) PROVE \E i \in DOMAIN V : Covers(V[i], k) BY DEF Covered
  <2>1. PICK j \in DOMAIN T : Covers(T[j], k) BY <1>1 DEF Covered
  <2>2. T[j].do # "place" BY <2>1 DEF Covers
  <2> QED BY <1>6, <2>1, <2>2
<1>11. Ending(V)
  <2>1. "after" # "place" /\ "complete" # "place" OBVIOUS
  <2> QED BY <1>1, <1>6, <2>1 DEF Ending
<1>12. \A step : Doing(T, step) => step = T[1] \/ Doing(V, step)
  <2> TAKE step
  <2> HAVE Doing(T, step)
  <2>1. PICK j \in DOMAIN T : T[j] = step BY DEF Doing
  <2>2. CASE j = 1 BY <2>1, <2>2
  <2>3. CASE j >= 2 BY <1>4, <2>1, <2>3 DEF Doing
  <2> QED BY <1>4, <2>2, <2>3
<1>13. 2 \in DOMAIN T => 1 \in DOMAIN V /\ V[1] = T[2]
  <2> HAVE 2 \in DOMAIN T
  <2>1. 2 - 1 \in DOMAIN V /\ V[2 - 1] = T[2] BY <1>4
  <2> QED BY <2>1
<1> QED BY <1>4, <1>5, <1>8, <1>9, <1>10, <1>11, <1>12, <1>13 DEF Behind

\* A tie that is still open is not among those that say who is placed.
LEMMA FilledPlacing ==
  ASSUME Shape, Rows, NEW p, Filled(p), p.on \in Match, p.side \in HomeAway, p.on[3] = 1, Open(p.on)
  PROVE  AllDecided' = AllDecided /\ (AllDecided => Placing' = Placing)
<1>1. Match' = Match /\ Rounds' = Rounds /\ Final' = Final /\ ThirdMatch' = ThirdMatch /\ WithThird' = WithThird
  BY SameShape DEF Filled
<1>2. \A k \in Match : /\ Decided(k)' = Decided(k) /\ match'[k].isBye = match[k].isBye
                       /\ Decided(k) => match'[k] = match[k] /\ LoserOf(k)' = LoserOf(k)
  BY FilledKeeps DEF Filled
<1>3. Final \in Match /\ (WithThird => ThirdMatch \in Match) BY DEF Shape, WithThird
<1>4. Decided(Final)' = Decided(Final) /\ (WithThird => Decided(ThirdMatch)' = Decided(ThirdMatch))
  <2>1. PICK f : f = Final OBVIOUS
  <2>2. PICK h : h = ThirdMatch OBVIOUS
  <2>3. Decided(f)' = Decided(f) /\ (WithThird => Decided(h)' = Decided(h)) BY <1>2, <1>3, <2>1, <2>2
  <2>4. Final' = f /\ ThirdMatch' = h BY <1>1, <2>1, <2>2
  <2> QED BY <2>1, <2>2, <2>3, <2>4 DEF Decided
<1>5. AllDecided' = AllDecided BY <1>1, <1>4 DEF AllDecided
<1>6. AllDecided => Placing' = Placing
  <2> HAVE AllDecided
  <2>1. PICK f \in Match : f = Final BY <1>3
  <2>2. PICK h : h = ThirdMatch OBVIOUS
  <2>3. Decided(f) /\ (WithThird => Decided(h) /\ h \in Match) BY <1>3, <2>1, <2>2 DEF AllDecided
  <2>4. match'[f] = match[f] /\ LoserOf(f)' = LoserOf(f) BY <1>2, <2>3
  <2>5. WithThird => match'[h] = match[h] /\ LoserOf(h)' = LoserOf(h) BY <1>2, <2>3
  <2>6. Semis' = Semis
    <3>1. \A m \in Match : (m[1] = Rounds - 1 /\ Decided(m) /\ ~match[m].isBye)' = (m[1] = Rounds - 1 /\ Decided(m) /\ ~match[m].isBye)
      BY <1>1, <1>2
    <3> QED BY <1>1, <3>1 DEF Semis
  <2>7. {<<3, LoserOf(m)>> : m \in Semis}' = {<<3, LoserOf(m)>> : m \in Semis}
    <3>1. \A m \in Semis : LoserOf(m)' = LoserOf(m) BY <1>2 DEF Semis
    <3> QED BY <2>6, <3>1
  <2>8. Final' = f /\ ThirdMatch' = h BY <1>1, <2>1, <2>2
  <2>9. LoserOf(Final)' = LoserOf(Final) BY <2>1, <2>4, <2>8 DEF LoserOf
  <2>10. WithThird => LoserOf(ThirdMatch)' = LoserOf(ThirdMatch) BY <2>2, <2>5, <2>8 DEF LoserOf
  <2>11. match'[Final'].winner = match[Final].winner BY <2>1, <2>4, <2>8
  <2>12. WithThird => match'[ThirdMatch'].winner = match[ThirdMatch].winner BY <2>2, <2>5, <2>8
  <2> QED BY <1>1, <2>7, <2>9, <2>10, <2>11, <2>12 DEF Placing
<1> QED BY <1>5, <1>6

\* What is left to do behind a team just placed is still good.
LEMMA FilledSteps ==
  ASSUME setup \in Setup, Shape, Rows, NEW T \in Seq(AnyStep), T # <<>>, InStep(T), NEW V, Behind(T, V),
         NEW p, p = T[1], p.do = "place", p \in PlaceStep, p.on \in Match, p.on[3] = 1,
         Filled(p), Open(p.on), ~In(p.on, p.side, p.team), withdrawn' = withdrawn
  PROVE  GoodSteps(V)'
<1>1. /\ setup' = setup /\ Match' = Match /\ Rounds' = Rounds /\ ThirdMatch' = ThirdMatch
      /\ \A m : /\ FirstOfTwo(m)' = FirstOfTwo(m) /\ WinnerTo(m)' = WinnerTo(m) /\ LoserTo(m)' = LoserTo(m)
  BY SameShape DEF Filled
<1>2. p.side \in HomeAway BY DEF PlaceStep
<1>3. /\ \A k \in Match : TieOf(k) # TieOf(p.on) =>
           /\ match'[k] = match[k] /\ match'[FirstLeg(k)] = match[FirstLeg(k)] /\ TeamsOf(k)' = TeamsOf(k)
      /\ \A k \in Match : /\ Decided(k)' = Decided(k)
                          /\ Decided(k) => match'[k] = match[k] /\ LoserOf(k)' = LoserOf(k)
                          /\ Open(k)' = Open(k)
      /\ \A k \in Match, side \in HomeAway : \A x :
           k[3] = 1 /\ In(k, side, x) => In(k, side, x)' \/ (k = p.on /\ side = p.side)
  BY <1>2, FilledKeeps
<1>4. \A k \in Match : match'[k].isBye = match[k].isBye BY DEF Filled
<1>5. GoodSteps(T) /\ 1 \in DOMAIN T BY DEF InStep
<1>a. /\ GoodSteps(V) /\ V \in Seq(AnyStep)
      /\ \A i \in DOMAIN V : \E j \in DOMAIN T : j >= 2 /\ V[i] = T[j]
  BY DEF Behind
<1>6. ASSUME NEW i \in DOMAIN V PROVE GoodStep(V, i)'
  <2>1. GoodStep(V, i) BY <1>a DEF GoodSteps
  <2>2. PICK j \in DOMAIN T : j >= 2 /\ V[i] = T[j] BY <1>a
  <2>3. PICK t : t = V[i] OBVIOUS
  <2>4. /\ t.do \in {"place", "check", "after"} /\ t \in AnyStep
        /\ t.do = "place" => t.on = ThirdMatch /\ p.on[1] = Rounds
    BY <1>5, <2>2, <2>3, RestKinds
  <2>5. t.do \in {"place", "check"} => t.on \in Match BY <2>1, <2>3 DEF GoodStep
  <2>6. CASE t.do = "place"
    <3>1. t \in PlaceStep /\ t.side \in HomeAway BY <2>4, <2>6, StepKinds DEF PlaceStep
    <3>2. t.on # p.on /\ t.on[3] = 1
      <4>1. ThirdMatch[1] = Rounds + 1 /\ ThirdMatch[3] = 1 BY DEF ThirdMatch
      <4>2. Rounds \in 1..4 BY DEF Shape
      <4> QED BY <2>4, <2>6, <4>1, <4>2
    <3>3. GoodPlace(V, t, i) BY <2>1, <2>3, <2>6 DEF GoodStep
    <3>4. PICK m \in Match : Decided(m) /\
             \/ \E g \in WinnerTo(m) : t = Place(g, match[m].winner)
             \/ ~match[m].isBye /\ \E g \in LoserTo(m) : t = Place(g, LoserOf(m))
      BY <3>3 DEF GoodPlace
    <3>5. (Decided(m) /\
             \/ \E g \in WinnerTo(m) : t = Place(g, match[m].winner)
             \/ ~match[m].isBye /\ \E g \in LoserTo(m) : t = Place(g, LoserOf(m)))'
      BY <1>1, <1>3, <1>4, <3>4
    <3>6. Open(t.on)' \/ In(t.on, t.side, t.team)'
      <4>1. CASE Open(t.on) BY <1>3, <2>5, <2>6, <4>1
      <4>2. CASE In(t.on, t.side, t.team) BY <1>3, <2>5, <2>6, <3>1, <3>2, <4>2
      <4> QED BY <3>3, <4>1, <4>2 DEF GoodPlace
    <3>7. GoodPlace(V, t, i)' BY <1>1, <3>3, <3>5, <3>6 DEF GoodPlace
    <3> QED BY <1>1, <2>3, <2>5, <2>6, <3>7 DEF GoodStep
  <2>7. CASE t.do = "check"
    <3>1. GoodCheck(V, t) BY <2>1, <2>3, <2>7 DEF GoodStep
    <3>2. GoodCheck(T, t) BY <1>5, <2>2, <2>3, <2>7 DEF GoodSteps, GoodStep
    <3>3. ASSUME t.on[3] = 2
          PROVE  /\ (Null \notin TeamsOf(t.on))' /\ FirstPlayed(V, t.on)'
                 /\ (TeamsOf(t.on) \cap withdrawn # {})'
                 /\ (\E side \in HomeAway : match[t.on][side] \notin withdrawn)'
                 /\ (\A l \in DOMAIN V : V[l].do = "place" /\ TieOf(V[l].on) = TieOf(t.on) =>
                       In(V[l].on, V[l].side, V[l].team))'
      <4>1. TieOf(t.on) # TieOf(p.on) BY <1>5, <3>2, <3>3 DEF GoodCheck
      <4>2. match'[t.on] = match[t.on] /\ match'[FirstLeg(t.on)] = match[FirstLeg(t.on)] /\ TeamsOf(t.on)' = TeamsOf(t.on)
        BY <1>3, <2>5, <2>7, <4>1
      <4>3. FirstPlayed(V, t.on)' BY <3>1, <3>3, <4>2 DEF GoodCheck, FirstPlayed
      <4>4. ASSUME NEW l \in DOMAIN V, V[l].do = "place", TieOf(V[l].on) = TieOf(t.on)
            PROVE  In(V[l].on, V[l].side, V[l].team)'
        <5>1. PICK q : q = V[l] OBVIOUS
        <5>2. q \in PlaceStep /\ q.side \in HomeAway BY <1>a, <4>4, <5>1, StepKinds DEF PlaceStep
        <5>3. q.on \in Match /\ GoodPlace(V, q, l) BY <1>a, <4>4, <5>1 DEF GoodSteps, GoodStep
        <5>4. q.on[3] = 1 BY <5>2, <5>3, PlacedFrom
        <5>5. q.on # p.on BY <4>1, <4>4, <5>1
        <5>6. In(q.on, q.side, q.team) BY <3>1, <3>3, <4>4, <5>1 DEF GoodCheck
        <5> QED BY <1>3, <5>1, <5>2, <5>3, <5>4, <5>5, <5>6
      <4> QED BY <3>1, <3>3, <4>2, <4>3, <4>4 DEF GoodCheck
    <3>4. GoodCheck(V, t)' BY <3>3 DEF GoodCheck
    <3> QED BY <1>1, <2>3, <2>5, <2>7, <3>4 DEF GoodStep
  <2>8. CASE t.do = "after" BY <2>3, <2>8 DEF GoodStep
  <2> QED BY <2>4, <2>6, <2>7, <2>8
<1> QED BY <1>6 DEF GoodSteps

\* The team just placed was the one left to carry on.
LEMMA FilledCarried ==
  ASSUME setup \in Setup, Shape, Rows, NEW T \in Seq(AnyStep), InStep(T), NEW V,
         \A step : Doing(T, step) => step = T[1] \/ Doing(V, step),
         NEW p, p = T[1], p \in PlaceStep, p.on \in Match, p.on[3] = 1, GoodPlace(T, p, 1),
         Filled(p), Open(p.on)
  PROVE  Carried(V)'
<1>1. /\ Match' = Match
      /\ \A m : /\ WinnerTo(m)' = WinnerTo(m) /\ LoserTo(m)' = LoserTo(m)
  BY SameShape DEF Filled
<1>2. p.side \in HomeAway BY DEF PlaceStep
<1>3. /\ \A k \in Match : /\ Decided(k)' = Decided(k)
                          /\ Decided(k) => match'[k] = match[k] /\ LoserOf(k)' = LoserOf(k)
      /\ \A k \in Match, side \in HomeAway : \A x :
           k[3] = 1 /\ In(k, side, x) => In(k, side, x)' \/ (k = p.on /\ side = p.side)
      /\ In(p.on, p.side, p.team)'
  BY <1>2, FilledKeeps
<1>4. \A k \in Match : Decided(k) =>
         /\ \A g \in WinnerTo(k) : g.on = p.on /\ g.side = p.side => p = Place(g, match[k].winner)
         /\ \A g \in LoserTo(k) : g.on = p.on /\ g.side = p.side => p = Place(g, LoserOf(k))
  BY PlacedFrom
<1>5. ASSUME NEW m \in Match, NEW g \in Goals(m), NEW x,
             g.on = p.on /\ g.side = p.side => p = Place(g, x),
             In(g.on, g.side, x) \/ Doing(T, Place(g, x))
      PROVE  In(g.on, g.side, x)' \/ Doing(V, Place(g, x))
  <2>1. g.on \in Match /\ g.side \in HomeAway /\ g.on[3] = 1 BY <1>5, GoalOn
  <2>2. CASE g.on = p.on /\ g.side = p.side
    <3>1. p.team = x BY <1>5, <2>2 DEF Place
    <3> QED BY <1>3, <2>2, <3>1
  <2>3. CASE ~(g.on = p.on /\ g.side = p.side)
    <3>1. In(g.on, g.side, x) => In(g.on, g.side, x)' BY <1>3, <2>1, <2>3
    <3>2. Place(g, x) # p BY <2>3 DEF Place
    <3> QED BY <1>5, <3>1, <3>2
  <2> QED BY <2>2, <2>3
<1>6. Carried(T) BY DEF InStep
<1>7. ASSUME NEW m \in Match, Decided(m), NEW g \in WinnerTo(m)
      PROVE  In(g.on, g.side, match[m].winner)' \/ Doing(V, Place(g, match[m].winner)')
  <2>1. PICK x : x = match[m].winner OBVIOUS
  <2>2. match'[m].winner = x BY <1>3, <1>7, <2>1
  <2>3. In(g.on, g.side, x) \/ Doing(T, Place(g, x)) BY <1>6, <1>7, <2>1 DEF Carried
  <2>4. g.on = p.on /\ g.side = p.side => p = Place(g, x) BY <1>4, <1>7, <2>1
  <2>5. In(g.on, g.side, x)' \/ Doing(V, Place(g, x)) BY <1>5, <1>7, <2>3, <2>4 DEF Goals
  <2> QED BY <2>2, <2>5 DEF In, Place
<1>8. ASSUME NEW m \in Match, Decided(m), ~match[m].isBye, NEW g \in LoserTo(m)
      PROVE  In(g.on, g.side, LoserOf(m))' \/ Doing(V, Place(g, LoserOf(m))')
  <2>1. PICK x : x = LoserOf(m) OBVIOUS
  <2>2. LoserOf(m)' = x BY <1>3, <1>8, <2>1
  <2>3. In(g.on, g.side, x) \/ Doing(T, Place(g, x)) BY <1>6, <1>8, <2>1 DEF Carried
  <2>4. g.on = p.on /\ g.side = p.side => p = Place(g, x) BY <1>4, <1>8, <2>1
  <2>5. In(g.on, g.side, x)' \/ Doing(V, Place(g, x)) BY <1>5, <1>8, <2>3, <2>4 DEF Goals
  <2> QED BY <2>2, <2>5 DEF In, Place
<1>9. \A m \in Match : match'[m].isBye = match[m].isBye BY DEF Filled
<1> QED BY <1>1, <1>3, <1>7, <1>8, <1>9 DEF Carried, Doing

LEMMA PlaceTeamKeeps ==
  ASSUME OneByOne, KnockoutInv, NEW s \in Slot, PlaceTeam(s)
  PROVE  KnockoutInv'
<1>1. PICK T : T = Todo OBVIOUS
<1>2. PICK p : p = Next1(s) OBVIOUS
<1>3. PICK u : u = <<>> OBVIOUS
<1>4. PICK V : V = u \o Tail(T) OBVIOUS
<1>5. /\ AtStep(s, "place") /\ Then(s, u) /\ UNCHANGED <<setup, withdrawn, phase, status, placements>>
      /\ match' = [m \in Match |->
           IF m = p.on THEN WithSide(match[m], p.side, p.team)
           ELSE IF FirstOfTwo(p.on) /\ m = SecondLeg(p.on)
           THEN WithSide(match[m], Other(p.side), p.team)
           ELSE match[m]]
  BY <1>2, <1>3 DEF PlaceTeam, WithSide
<1>6. /\ Alone /\ Others /\ Shape /\ setup \in Setup /\ T \in Seq(AnyStep) /\ T # <<>> /\ T[1].do = "place"
      /\ request[s].todo # <<>> /\ T[1] = p /\ T[1] \in AnyStep /\ GoodStep(T, 1) /\ 1 \in DOMAIN T
      /\ Rows /\ Fed /\ GoodSteps(T) /\ Carried(T) /\ InStep(T)
  BY <1>1, <1>2, <1>5, Known, InHand
<1>7. p \in PlaceStep /\ p.on \in Match /\ GoodPlace(T, p, 1) /\ p.side \in HomeAway /\ p.team \in Team
  <2>1. p \in PlaceStep BY <1>6, StepKinds
  <2> QED BY <1>6, <2>1 DEF GoodStep, PlaceStep
<1>8. /\ p.on[3] = 1 /\ p.on = FirstLeg(p.on)
      /\ \A k \in Match : Decided(k) =>
         /\ \A g \in WinnerTo(k) : g.on = p.on /\ g.side = p.side => p = Place(g, match[k].winner)
         /\ \A g \in LoserTo(k) : g.on = p.on /\ g.side = p.side => p = Place(g, LoserOf(k))
  BY <1>6, <1>7, PlacedFrom
<1>9. Alone' /\ Todo' = V
  <2>1. u \in Seq(AnyStep) BY <1>3
  <2> QED BY <1>1, <1>4, <1>5, <1>6, <2>1, ThenTodo
<1>10. Behind(T, V)
  <2>1. setup \in Setup /\ Shape /\ T \in Seq(AnyStep) /\ T # <<>> /\ InStep(T) /\ T[1].do = "place" BY <1>6
  <2> QED BY <1>3, <1>4, <2>1, PlaceRest
<1>10a. /\ V \in Seq(AnyStep) /\ GoodSteps(V) /\ SecondFirst(V) /\ Covered(V) /\ Ending(V)
        /\ \A step : Doing(T, step) => step = T[1] \/ Doing(V, step)
        /\ \A i \in DOMAIN V : \E j \in DOMAIN T : j >= 2 /\ V[i] = T[j]
        /\ 2 \in DOMAIN T => 1 \in DOMAIN V /\ V[1] = T[2]
  BY <1>10 DEF Behind
<1>10b. 2 \in DOMAIN T => 1 \in DOMAIN V /\ V[1] = T[2] BY <1>10a
<1>11. Others' BY <1>5, <1>6 DEF Others
<1>12. CASE In(p.on, p.side, p.team)
  <2>1. match' = match
    <3>1. \A m \in Match : match[m] \in MatchRow BY <1>6, RowTypes
    <3>2. \A m \in Match : match[m][p.side] = p.team => WithSide(match[m], p.side, p.team) = match[m]
      BY <1>7, <3>1, SameSide
    <3>3. Other(p.side) \in HomeAway BY <1>7, Sides
    <3>4. \A m \in Match : match[m][Other(p.side)] = p.team => WithSide(match[m], Other(p.side), p.team) = match[m]
      BY <3>1, <3>3, SameSide
    <3>5. match[p.on][p.side] = p.team /\ (FirstOfTwo(p.on) => match[SecondLeg(p.on)][Other(p.side)] = p.team)
      BY <1>12 DEF In
    <3>6. \A m \in Match : match'[m] = match[m] BY <1>5, <3>2, <3>4, <3>5
    <3>7. match' = [m \in Match |-> match'[m]] BY <1>5
    <3>8. match = [m \in Match |-> match[m]] BY <1>6, <1>7, RowTypes
    <3> QED BY <3>6, <3>7, <3>8
  <2>2. Carried(V)
    <3>1. ASSUME NEW m \in Match, NEW g \in Goals(m), NEW x,
                 g.on = p.on /\ g.side = p.side => p = Place(g, x),
                 In(g.on, g.side, x) \/ Doing(T, Place(g, x))
          PROVE  In(g.on, g.side, x) \/ Doing(V, Place(g, x))
      <4>1. CASE Place(g, x) = p BY <1>12, <4>1 DEF Place
      <4> QED BY <1>6, <1>10a, <3>1, <4>1
    <3>2. \A m \in Match : Decided(m) => \A g \in WinnerTo(m) :
            In(g.on, g.side, match[m].winner) \/ Doing(V, Place(g, match[m].winner))
      BY <1>6, <1>8, <3>1 DEF Carried, Goals
    <3>3. \A m \in Match : Decided(m) /\ ~match[m].isBye => \A g \in LoserTo(m) :
            In(g.on, g.side, LoserOf(m)) \/ Doing(V, Place(g, LoserOf(m)))
      BY <1>6, <1>8, <3>1 DEF Carried, Goals
    <3> QED BY <3>2, <3>3 DEF Carried
  <2>3. InStep(V) BY <1>6, <1>10a, <2>2 DEF InStep
  <2>4. InStep(V)' BY <1>5, <2>1, <2>3, SameState
  <2> QED BY <1>9, <1>11, <2>4, Landing
<1>13. CASE ~In(p.on, p.side, p.team)
  <2>1. Open(p.on) BY <1>7, <1>13 DEF GoodPlace
  <2>2. Filled(p) BY <1>5, <1>6, <1>7, <1>8, PlaceFills
  <2>3. Rows' /\ Fed' BY <1>6, <1>7, <2>1, <2>2, FilledRows
  <2>4. GoodSteps(V)' BY <1>5, <1>6, <1>7, <1>8, <1>10, <1>13, <2>1, <2>2, FilledSteps
  <2>5. Carried(V)' BY <1>6, <1>7, <1>8, <1>10a, <2>1, <2>2, FilledCarried
  <2>6. Match' = Match /\ setup' = setup BY <2>2 DEF Filled
  <2>7. /\ \A k \in Match : TieOf(k) # TieOf(p.on) =>
             /\ match'[k] = match[k] /\ match'[FirstLeg(k)] = match[FirstLeg(k)] /\ TeamsOf(k)' = TeamsOf(k)
        /\ \A k \in Match : match'[k].status = match[k].status
    BY <1>6, <1>7, <1>8, <2>1, <2>2, FilledKeeps
  <2>8. SecondFirst(V)'
    <3> SUFFICES ASSUME NEW k \in Match, k[3] = 2, match'[k].status = "COMPLETED"
                 PROVE  /\ FirstPlayed(V, k)'
                        /\ match'[FirstLeg(k)].status # "COMPLETED" => (\E side \in HomeAway : LostBy(k, side, match[k]))'
      BY <2>6 DEF SecondFirst
    <3>1. match[k].status = "COMPLETED" BY <2>7
    <3>2. TieOf(k) # TieOf(p.on) BY <2>1, <3>1 DEF Open
    <3>3. match'[k] = match[k] /\ match'[FirstLeg(k)] = match[FirstLeg(k)] BY <2>7, <3>2
    <3>4. FirstPlayed(V, k) /\ (match[FirstLeg(k)].status # "COMPLETED" => \E side \in HomeAway : LostBy(k, side, match[k]))
      BY <1>10a, <3>1 DEF SecondFirst
    <3>5. FirstPlayed(V, k)' BY <3>3, <3>4 DEF FirstPlayed
    <3>6. withdrawn' = withdrawn BY <1>5
    <3> QED BY <3>3, <3>4, <3>5, <3>6 DEF LostBy
  <2>9. Covered(V)'
    <3> SUFFICES ASSUME NEW k \in Match, Stranding(k)' PROVE \E i \in DOMAIN V : Covers(V[i], k)'
      BY <2>6 DEF Covered
    <3>1. CASE TieOf(k) # TieOf(p.on)
      <4>1. match'[k] = match[k] /\ match'[FirstLeg(k)] = match[FirstLeg(k)] /\ TeamsOf(k)' = TeamsOf(k) BY <2>7, <3>1
      <4>2. withdrawn' = withdrawn BY <1>5
      <4>3. Stranding(k) BY <4>1, <4>2 DEF Stranding, Ready
      <4>4. PICK i \in DOMAIN V : Covers(V[i], k) BY <1>10a, <4>3 DEF Covered
      <4>5. Covers(V[i], k)' BY <4>1, <4>4 DEF Covers
      <4> QED BY <4>5
    <3>2. CASE TieOf(k) = TieOf(p.on)
      <4>1. p.on = FirstLeg(k) BY <1>6, <1>7, <1>8, <3>2, SameTie
      <4>2. 2 \in DOMAIN T /\ T[2] = Check(p.on)
        <5>1. 1 + 1 \in DOMAIN T /\ T[1 + 1] = Check(p.on) BY <1>7 DEF GoodPlace
        <5>2. 1 + 1 = 2 OBVIOUS
        <5> QED BY <5>1, <5>2
      <4>3. match'[p.on].status = "SCHEDULED" BY <1>6, <1>7, <2>1, <2>7, OpenTie
      <4>4. 1 \in DOMAIN V /\ V[1] = Check(p.on) BY ONLY <1>10b, <4>2, Zenon
      <4>5. Covers(V[1], k)' BY <4>1, <4>3, <4>4 DEF Covers, Check
      <4> QED BY <4>4, <4>5
    <3> QED BY <3>1, <3>2
  <2>10. Ending(V)'
    <3>1. AllDecided' = AllDecided /\ (AllDecided => Placing' = Placing)
      BY <1>6, <1>7, <1>8, <2>1, <2>2, FilledPlacing
    <3>2. status' = status /\ placements' = placements BY <1>5
    <3> QED BY <1>10a, <3>1, <3>2 DEF Ending
  <2>11. InStep(V)' BY <2>3, <2>4, <2>5, <2>8, <2>9, <2>10 DEF InStep
  <2> QED BY <1>9, <1>11, <2>11, Landing
<1> QED BY <1>12, <1>13

-----------------------------------------------------------------------------
(* Saving a match *)

LEMMA SetRow ==
  ASSUME NEW row \in MatchRow, NEW r \in SaveStep, NEW q, q = SavedRow(row, r)
  PROVE  /\ q \in MatchRow /\ q.home = row.home /\ q.away = row.away /\ q.isBye = row.isBye
         /\ q["home"] = row["home"] /\ q["away"] = row["away"]
         /\ q.homeGoals = r.homeGoals /\ q.awayGoals = r.awayGoals /\ q.forfeit = r.forfeit
         /\ q.status = "COMPLETED"
         /\ r.winner # Null => q.winner = r.winner
         /\ r.winner = Null => q.winner = row.winner
<1>1. PICK h : h = r.homeGoals OBVIOUS
<1>2. PICK a : a = r.awayGoals OBVIOUS
<1>3. PICK f : f = r.forfeit OBVIOUS
<1>4. PICK w : w = IF r.winner # Null THEN r.winner ELSE row.winner OBVIOUS
<1>5. row = [home |-> row.home, away |-> row.away, status |-> row.status, isBye |-> row.isBye,
             homeGoals |-> row.homeGoals, awayGoals |-> row.awayGoals, forfeit |-> row.forfeit, winner |-> row.winner]
  BY DEF MatchRow
<1>6. h \in Nat /\ a \in Nat /\ f \in {"home", "away", Null} /\ w \in Team \cup {Null}
  BY <1>1, <1>2, <1>3, <1>4 DEF SaveStep, MatchRow
<1>7. q = [row EXCEPT !.homeGoals = h, !.awayGoals = a, !.forfeit = f, !.status = "COMPLETED", !.winner = w]
  BY <1>1, <1>2, <1>3, <1>4 DEF SavedRow
<1>8. q = [home |-> row.home, away |-> row.away, status |-> "COMPLETED", isBye |-> row.isBye,
           homeGoals |-> h, awayGoals |-> a, forfeit |-> f, winner |-> w]
  BY <1>5, <1>7
<1>9. q \in MatchRow BY <1>6, <1>8 DEF MatchRow
<1>10. q["home"] = row["home"] /\ q["away"] = row["away"] BY <1>5, <1>8
<1> QED BY <1>1, <1>2, <1>3, <1>4, <1>8, <1>9, <1>10

\* What saving a match changes: its own row, but not who plays it.
Saved(r) ==
  /\ setup' = setup /\ Match' = Match /\ match' \in [Board -> MatchRow]
  /\ \A k \in Match : k # r.on => match'[k] = match[k]
  /\ \A k \in Match :
       /\ match'[k].home = match[k].home /\ match'[k].away = match[k].away /\ match'[k].isBye = match[k].isBye
       /\ \A side \in HomeAway : match'[k][side] = match[k][side]
  /\ match'[r.on].homeGoals = r.homeGoals /\ match'[r.on].awayGoals = r.awayGoals
  /\ match'[r.on].forfeit = r.forfeit /\ match'[r.on].status = "COMPLETED"
  /\ r.winner # Null => match'[r.on].winner = r.winner
  /\ r.winner = Null => match'[r.on].winner = match[r.on].winner

LEMMA SaveSaves ==
  ASSUME Shape, Rows, NEW r \in SaveStep, r.on \in Match, setup' = setup,
         match' = [match EXCEPT ![r.on] = SavedRow(@, r)]
  PROVE  Saved(r)
<1>1. PICK m \in Match : m = r.on OBVIOUS
<1>2. PICK row \in MatchRow : row = match[m] BY RowTypes
<1>3. PICK q : q = SavedRow(row, r) OBVIOUS
<1>4. /\ q \in MatchRow /\ q.home = row.home /\ q.away = row.away /\ q.isBye = row.isBye
      /\ q["home"] = row["home"] /\ q["away"] = row["away"]
      /\ q.homeGoals = r.homeGoals /\ q.awayGoals = r.awayGoals /\ q.forfeit = r.forfeit
      /\ q.status = "COMPLETED"
      /\ r.winner # Null => q.winner = r.winner
      /\ r.winner = Null => q.winner = row.winner
  BY ONLY <1>2, <1>3, SetRow
<1>5. Match = Board /\ match = [k \in Match |-> match[k]] /\ \A k \in Match : match[k] \in MatchRow
  BY <1>1, RowTypes
<1>6. match' = [k \in Match |-> IF k = m THEN q ELSE match[k]] BY <1>1, <1>2, <1>3, <1>5
<1>7. Match' = Match
  <2>1. DOMAIN match' = Match BY <1>6
  <2> QED BY <2>1 DEF Match
<1>8. match' \in [Match -> MatchRow] BY <1>4, <1>5, <1>6
<1>9. match'[m] = q /\ \A k \in Match : k # m => match'[k] = match[k] BY <1>6
<1>10. \A k \in Match :
       /\ match'[k].home = match[k].home /\ match'[k].away = match[k].away /\ match'[k].isBye = match[k].isBye
       /\ \A side \in HomeAway : match'[k][side] = match[k][side]
  BY <1>2, <1>4, <1>9, Sides
<1> QED BY <1>1, <1>2, <1>4, <1>5, <1>7, <1>8, <1>9, <1>10 DEF Saved

\* What stays as it was, and what only goes forward.
LEMMA SavedKeeps ==
  ASSUME Shape, Rows, NEW r, Saved(r), r.on \in Match
  PROVE  /\ \A k \in Match : TeamsOf(k)' = TeamsOf(k)
         /\ \A k \in Match : k # r.on => Decided(k)' = Decided(k) /\ LoserOf(k)' = LoserOf(k)
         /\ \A k \in Match : match[k].status = "COMPLETED" => match'[k].status = "COMPLETED"
         /\ \A k \in Match, side \in HomeAway : \A x : In(k, side, x)' <=> In(k, side, x)
         /\ \A k \in Match : TieOf(k) # TieOf(r.on) => Open(k)' = Open(k)
<1>1. Match' = Match /\ setup' = setup /\ \A m : FirstOfTwo(m)' = FirstOfTwo(m) BY SameShape DEF Saved
<1>2. \A k \in Match : /\ match'[k].home = match[k].home /\ match'[k].away = match[k].away
                       /\ \A side \in HomeAway : match'[k][side] = match[k][side]
                       /\ k # r.on => match'[k] = match[k]
  BY DEF Saved
<1>3. match'[r.on].status = "COMPLETED" BY DEF Saved
<1>4. \A k \in Match : TeamsOf(k)' = TeamsOf(k) BY <1>2 DEF TeamsOf
<1>5. \A k \in Match : k # r.on => Decided(k)' = Decided(k) /\ LoserOf(k)' = LoserOf(k)
  BY <1>2 DEF Decided, LoserOf
<1>6. \A k \in Match : match[k].status = "COMPLETED" => match'[k].status = "COMPLETED" BY <1>2, <1>3
<1>7. \A k \in Match, side \in HomeAway : \A x : In(k, side, x)' <=> In(k, side, x)
  <2> TAKE k \in Match, side \in HomeAway
  <2> TAKE x
  <2>1. match'[k][side] = match[k][side] BY <1>2
  <2>2. FirstOfTwo(k) => match'[SecondLeg(k)][Other(side)] = match[SecondLeg(k)][Other(side)]
    <3> HAVE FirstOfTwo(k)
    <3>1. SecondLeg(k) \in Match /\ Other(side) \in HomeAway BY Legs, Sides
    <3> QED BY <1>2, <3>1
  <2> QED BY <1>1, <2>1, <2>2 DEF In
<1>8. \A k \in Match : TieOf(k) # TieOf(r.on) => Open(k)' = Open(k)
  <2> TAKE k \in Match
  <2> HAVE TieOf(k) # TieOf(r.on)
  <2>1. \A leg \in Match : TieOf(leg) = TieOf(k) => match'[leg] = match[leg] BY <1>2
  <2> QED BY <1>1, <2>1 DEF Open
<1> QED BY <1>4, <1>5, <1>6, <1>7, <1>8

\* A row that is saved is still what its leg is for, and whoever is somewhere was sent there.
LEMMA SavedRows ==
  ASSUME Shape, Rows, Fed, NEW r, Saved(r), r.on \in Match,
         ~match[r.on].isBye, Null \notin TeamsOf(r.on),
         FirstOfTwo(r.on) => r.winner = Null,
         ~FirstOfTwo(r.on) => r.winner # Null /\ r.winner \in TeamsOf(r.on)
  PROVE  Rows' /\ Fed'
<1>1. setup' = setup /\ Match' = Match /\ match' \in [Board -> MatchRow] BY DEF Saved
<1>2. /\ Board' = Board /\ MatchRow' = MatchRow /\ Rounds' = Rounds
      /\ \A m : /\ FirstOfTwo(m)' = FirstOfTwo(m) /\ Goals(m)' = Goals(m) /\ Decider(m)' = Decider(m)
                /\ HasBye(TieOf(m))' = HasBye(TieOf(m)) /\ SourceRound(m)' = SourceRound(m)
      /\ \A x, a, n : Seeded(x, a, n)' = Seeded(x, a, n)
  BY <1>1, SameShape DEF MatchRow
<1>3. /\ \A k \in Match : TeamsOf(k)' = TeamsOf(k)
      /\ \A k \in Match : k # r.on => Decided(k)' = Decided(k)
  BY SavedKeeps
<1>4. \A k \in Match : /\ match'[k].home = match[k].home /\ match'[k].away = match[k].away
                       /\ match'[k].isBye = match[k].isBye
                       /\ \A side \in HomeAway : match'[k][side] = match[k][side]
                       /\ k # r.on => match'[k] = match[k]
  BY DEF Saved
<1>5. ASSUME NEW k \in Match PROVE RowSound(k)'
  <2>0. RowSound(k) BY DEF Rows
  <2>1. FirstLeg(k) \in Match BY Legs
  <2>2. match'[FirstLeg(k)].home = match[FirstLeg(k)].home /\ match'[FirstLeg(k)].away = match[FirstLeg(k)].away
    BY <1>4, <2>1
  <2>3. /\ match'[k].home = match[k].home /\ match'[k].away = match[k].away
        /\ match'[k].isBye = match[k].isBye /\ TeamsOf(k)' = TeamsOf(k)
        /\ \A side \in HomeAway : match'[k][side] = match[k][side]
    BY <1>3, <1>4
  <2>4. CASE k # r.on
    <3>1. match'[k] = match[k] BY <1>4, <2>4
    <3> QED BY <1>2, <2>0, <2>2, <2>3, <3>1 DEF RowSound
  <2>5. CASE k = r.on
    <3>1. match'[k].status = "COMPLETED" BY <2>5 DEF Saved
    <3>2. FirstOfTwo(k) => match'[k].winner = Null
      <4> HAVE FirstOfTwo(k)
      <4>1. match[k].winner = Null BY <2>0 DEF RowSound
      <4> QED BY <2>5, <4>1 DEF Saved
    <3>3. ~FirstOfTwo(k) => match'[k].winner # Null /\ match'[k].winner \in TeamsOf(k) BY <2>5 DEF Saved
    <3>4. ~match[k].isBye /\ Null \notin TeamsOf(k) BY <2>5
    <3> QED BY <1>2, <2>0, <2>2, <2>3, <3>1, <3>2, <3>3, <3>4 DEF RowSound
  <2> QED BY <2>4, <2>5
<1>6. Rows' BY <1>1, <1>2, <1>5 DEF Rows
<1>7. Fed'
  <2> SUFFICES ASSUME NEW k \in Match, NEW g \in Goals(k), match'[g.on][g.side] # Null
               PROVE  Decided(Decider(k))'
    BY <1>1, <1>2 DEF Fed
  <2>1. match'[g.on][g.side] = match[g.on][g.side] BY <1>4, GoalOn
  <2>2. Decided(Decider(k)) BY <2>1 DEF Fed
  <2>3. PICK d : d = Decider(k) OBVIOUS
  <2>4. d \in Match BY <2>3, TieDecider
  <2>5. Decider(k)' = d BY <1>2, <2>3
  <2>6. Decided(d)'
    <3>1. CASE d # r.on BY <1>3, <2>2, <2>3, <2>4, <3>1
    <3>2. CASE d = r.on
      <4>1. ~FirstOfTwo(d) BY <2>3, TieDecider
      <4>2. match'[d].winner # Null BY <3>2, <4>1 DEF Saved
      <4> QED BY <4>2 DEF Decided
    <3> QED BY <3>1, <3>2
  <2> QED BY <2>5, <2>6 DEF Decided
<1> QED BY <1>6, <1>7

\* Nobody who comes to a tie that an undecided match, or a correctable one, leads to
\* disturbs a result there.
LEMMA SaveRoom ==
  ASSUME setup \in Setup, Shape, NEW T \in Seq(AnyStep), InStep(T), 1 \in DOMAIN T,
         NEW r, r = T[1], GoodSave(T, r, 1), r.on \in Match, ~FirstOfTwo(r.on)
  PROVE  /\ \A g \in WinnerTo(r.on) : Open(g.on) \/ In(g.on, g.side, r.winner)
         /\ \A g \in LoserTo(r.on) : Open(g.on) \/ In(g.on, g.side, r.loser)
<1>1. Rows /\ Fed /\ GoodSteps(T) /\ Carried(T) BY DEF InStep
<1>2. PICK m \in Match : m = r.on OBVIOUS
<1>3. PICK side \in HomeAway : r.winner = match[m][side] /\ r.loser = match[m][Other(side)]
  BY <1>2 DEF GoodSave
<1>4. ~match[m].isBye /\ Null \notin TeamsOf(m) BY <1>2 DEF GoodSave
<1>5. ASSUME ~Decided(m), NEW g \in Goals(m) PROVE Open(g.on)
  <2>1. Decider(m) = m BY <1>2, TieDecider
  <2>2. match[g.on][g.side] = Null BY <1>1, <1>5, <2>1 DEF Fed
  <2>3. g.on \in Match /\ g.side \in HomeAway /\ g.on[3] = 1 /\ g.on[1] # 1 BY GoalOn
  <2>4. Null \in TeamsOf(g.on) BY <1>1, <2>2, <2>3, RowTypes, Sides
  <2>5. ASSUME NEW leg \in Match, TieOf(leg) = TieOf(g.on) PROVE match[leg].status # "COMPLETED"
    <3>1. leg[1] # 1 BY <2>3, <2>5, SameTie
    <3>2. Null \in TeamsOf(leg)
      <4>1. CASE leg[3] = 1
        <5>1. leg = g.on BY <2>3, <2>5, <4>1, SameTie
        <5> QED BY <2>4, <5>1
      <4>2. CASE leg[3] = 2
        <5>1. FirstLeg(leg) = FirstLeg(g.on) /\ FirstLeg(g.on) = g.on BY <2>3, <2>5, SameTie, Legs
        <5> QED BY <1>1, <2>4, <4>2, <5>1, Mirror
      <4> QED BY <4>1, <4>2, Legs
    <3>3. ~match[leg].isBye BY <1>1, <3>1, RowFacts
    <3>4. RowSound(leg) BY <1>1 DEF Rows
    <3> QED BY <3>2, <3>3, <3>4 DEF RowSound
  <2> QED BY <2>5 DEF Open
<1>6. ASSUME NextUnplayed(m), NEW g \in Goals(m) PROVE Open(g.on)
  <2>1. g.on \in Match /\ g.on[1] # 1 BY GoalOn
  <2>2. ASSUME NEW leg \in Match, TieOf(leg) = TieOf(g.on) PROVE match[leg].status # "COMPLETED"
    <3>1. leg[1] # 1 BY <2>1, <2>2, SameTie
    <3>2. ~match[leg].isBye BY <1>1, <3>1, RowFacts
    <3> QED BY <1>6, <2>2, <3>2 DEF NextUnplayed, Goals
  <2> QED BY <2>2 DEF Open
<1>7. ASSUME NEW g \in Goals(m), NEW x, In(g.on, g.side, x) \/ Doing(T, Place(g, x))
      PROVE  Open(g.on) \/ In(g.on, g.side, x)
  <2>1. CASE In(g.on, g.side, x) BY <2>1
  <2>2. CASE Doing(T, Place(g, x))
    <3>1. PICK i \in DOMAIN T : T[i] = Place(g, x) BY <2>2 DEF Doing
    <3>2. T[i].do = "place" /\ T[i].on = g.on /\ T[i].side = g.side /\ T[i].team = x BY <3>1 DEF Place
    <3>3. GoodPlace(T, T[i], i) BY <1>1, <3>2 DEF GoodSteps, GoodStep
    <3> QED BY <3>2, <3>3 DEF GoodPlace
  <2> QED BY <1>7, <2>1, <2>2
<1>8. ASSUME Decided(m), Repeats(r)
      PROVE  /\ \A g \in WinnerTo(m) : Open(g.on) \/ In(g.on, g.side, r.winner)
             /\ \A g \in LoserTo(m) : Open(g.on) \/ In(g.on, g.side, r.loser)
  <2>1. match[m].winner = r.winner BY <1>2, <1>8 DEF Repeats
  <2>2. LoserOf(m) = r.loser
    <3>1. match[m].home # match[m].away BY <1>1, <1>4, NobodyAlone
    <3>2. match[m]["home"] = match[m].home /\ match[m]["away"] = match[m].away OBVIOUS
    <3>3. CASE side = "home" BY <1>3, <2>1, <3>1, <3>2, <3>3, Sides DEF LoserOf
    <3>4. CASE side = "away" BY <1>3, <2>1, <3>1, <3>2, <3>4, Sides DEF LoserOf
    <3> QED BY <3>3, <3>4, Sides
  <2>3. /\ \A g \in WinnerTo(m) : In(g.on, g.side, r.winner) \/ Doing(T, Place(g, r.winner))
        /\ \A g \in LoserTo(m) : In(g.on, g.side, r.loser) \/ Doing(T, Place(g, r.loser))
    BY <1>1, <1>4, <1>8, <2>1, <2>2 DEF Carried
  <2> QED BY <1>7, <2>3 DEF Goals
<1>9. ~Decided(m) \/ Repeats(r) \/ NextUnplayed(m) BY <1>2 DEF GoodSave
<1> QED BY <1>2, <1>5, <1>6, <1>8, <1>9 DEF Goals

\* A first leg decides nothing; its second leg may be next.
LEMMA FirstLegSaved ==
  ASSUME setup \in Setup, Shape, NEW T \in Seq(AnyStep), T # <<>>, InStep(T), GoodStep(T, 1), 1 \in DOMAIN T,
         NEW r, r = T[1], r.do = "save", r \in SaveStep, r.on \in Match, r.winner = Null, Saved(r),
         withdrawn' = withdrawn, status' = status, placements' = placements,
         NEW u, u = <<>>, NEW V, V = u \o Tail(T)
  PROVE  InStep(V)'
<1>1. Rows /\ Fed /\ GoodSteps(T) /\ Carried(T) /\ SecondFirst(T) /\ Covered(T) /\ Ending(T) BY DEF InStep
<1>2. PICK m \in Match : m = r.on OBVIOUS
<1>3. /\ GoodSave(T, r, 1) /\ ~match[m].isBye /\ Null \notin TeamsOf(m) BY <1>2 DEF GoodStep, GoodSave
<1>4. FirstOfTwo(m)
  <2>1. ~FirstOfTwo(m) => \E side \in HomeAway : r.winner = match[m][side] BY <1>2, <1>3 DEF GoodSave
  <2>2. \A side \in HomeAway : match[m][side] # Null BY <1>1, <1>3, RowTypes, Sides
  <2> QED BY <2>1, <2>2
<1>5. m[3] = 1 /\ m = FirstLeg(m) /\ SecondLeg(m) \in Match /\ SecondLeg(m) # m
      /\ FirstLeg(SecondLeg(m)) = m /\ m[1] < Rounds
  <2>1. m = FirstLeg(m) /\ SecondLeg(m) \in Match /\ SecondLeg(m)[3] = 2 /\ TieOf(SecondLeg(m)) = TieOf(m)
        /\ SecondLeg(m) # m /\ FirstLeg(SecondLeg(m)) = m
    BY <1>4, Legs
  <2>2. m[1] = SecondLeg(m)[1] BY <2>1, SameTie
  <2>3. SecondLeg(m)[1] < Rounds BY <2>1 DEF Shape
  <2>4. m[3] = 1 BY <1>4 DEF FirstOfTwo
  <2> QED BY <2>1, <2>2, <2>3, <2>4
<1>6. /\ setup' = setup /\ Match' = Match /\ Rounds' = Rounds /\ ThirdMatch' = ThirdMatch /\ Final' = Final
      /\ WithThird' = WithThird
      /\ \A k : /\ FirstOfTwo(k)' = FirstOfTwo(k) /\ WinnerTo(k)' = WinnerTo(k) /\ LoserTo(k)' = LoserTo(k)
  BY SameShape DEF Saved
<1>7. /\ \A k \in Match : TeamsOf(k)' = TeamsOf(k)
      /\ \A k \in Match : match[k].status = "COMPLETED" => match'[k].status = "COMPLETED"
      /\ \A k \in Match, side \in HomeAway : \A x : In(k, side, x)' <=> In(k, side, x)
  BY <1>1, SavedKeeps
<1>8. \A k \in Match : /\ match'[k].isBye = match[k].isBye /\ match'[k].winner = match[k].winner
                       /\ Decided(k)' = Decided(k) /\ LoserOf(k)' = LoserOf(k)
                       /\ match'[k].home = match[k].home /\ match'[k].away = match[k].away
  <2> TAKE k \in Match
  <2>1. match'[k].winner = match[k].winner BY DEF Saved
  <2>2. match'[k].home = match[k].home /\ match'[k].away = match[k].away /\ match'[k].isBye = match[k].isBye
    BY DEF Saved
  <2> QED BY <2>1, <2>2 DEF Decided, LoserOf
<1>9. \A k \in Match : /\ k # m => match'[k] = match[k]
                       /\ \A side \in HomeAway : match'[k][side] = match[k][side]
  BY <1>2 DEF Saved
<1>10. match'[m].status = "COMPLETED" BY <1>2 DEF Saved
<1>11. /\ V \in Seq(AnyStep)
       /\ \A j \in DOMAIN T : j >= 2 => j - 1 \in DOMAIN V /\ V[j - 1] = T[j]
       /\ \A i \in DOMAIN V : \E j \in DOMAIN T : j >= 2 /\ i = j - 1
       /\ \A j \in DOMAIN T : j \in Nat /\ (j = 1 \/ j >= 2) /\ T[j] \in AnyStep
       /\ Len(T) \in Nat /\ DOMAIN T = 1..Len(T)
  <2>1. u \in Seq(AnyStep) /\ Len(u) = 0 /\ DOMAIN u = {} OBVIOUS
  <2>2. Spliced(u, T, V) BY <2>1, Splice
  <2>3. \A j \in DOMAIN T : j \in Nat /\ j + Len(u) - 1 = j - 1 BY <2>1, <2>2 DEF Spliced
  <2> QED BY <2>1, <2>2, <2>3 DEF Spliced
<1>12. ASSUME NEW j \in DOMAIN T, j >= 2
       PROVE  /\ T[j].do \in {"save", "check", "after"}
              /\ T[j].do = "save" => j = 2
              /\ 2 \in DOMAIN T /\ T[2].do = "save" /\ T[2].on = SecondLeg(m)
  <2>1. /\ T[j].do \in {"save", "place", "check", "after"}
        /\ T[j].do = "save" => j = 2
        /\ T[j].do = "place" => r.on[1] = Rounds
    BY <1>1, <1>12, RestKinds
  <2>2. T[j].do # "place"
    <3>1. m[1] # Rounds
      <4>1. m[1] \in 1..Rounds + 1 /\ Rounds \in 1..4 BY DEF Shape
      <4> QED BY <1>5, <4>1
    <3> QED BY <1>2, <2>1, <3>1
  <2>3. Len(T) > 1 /\ 2 \in DOMAIN T BY <1>11, <1>12
  <2>4. T[1 + 1].do = "save" /\ T[1 + 1].on = SecondLeg(m) BY <1>2, <1>3, <1>4, <2>3 DEF GoodSave
  <2>5. 1 + 1 = 2 OBVIOUS
  <2> QED BY <2>1, <2>2, <2>3, <2>4, <2>5
<1>13. \A j \in DOMAIN T : T[j] # r => \E i \in DOMAIN V : V[i] = T[j] BY <1>11
<1>14. ASSUME NEW k \in Match, FirstPlayed(T, k) PROVE FirstPlayed(V, k)'
  <2>1. FirstLeg(k) \in Match BY Legs
  <2>2. CASE match[FirstLeg(k)].status = "COMPLETED" BY <1>7, <2>1, <2>2 DEF FirstPlayed
  <2>3. CASE \E i \in DOMAIN T : T[i].do \in {"check", "save"} /\ T[i].on = FirstLeg(k)
    <3>1. PICK i \in DOMAIN T : T[i].do \in {"check", "save"} /\ T[i].on = FirstLeg(k) BY <2>3
    <3>2. CASE T[i] = r BY <1>2, <1>10, <3>1, <3>2 DEF FirstPlayed
    <3>3. CASE T[i] # r BY <1>13, <3>1, <3>3 DEF FirstPlayed
    <3> QED BY <3>2, <3>3
  <2> QED BY <1>14, <2>2, <2>3 DEF FirstPlayed
<1>15. Rows' /\ Fed' BY <1>1, <1>2, <1>3, <1>4, SavedRows
<1>16. GoodSteps(V)'
  <2>1. ASSUME NEW i \in DOMAIN V PROVE GoodStep(V, i)'
    <3>1. PICK j \in DOMAIN T : j >= 2 /\ i = j - 1 BY <1>11
    <3>2. PICK t : t = T[j] OBVIOUS
    <3>3. V[i] = t /\ t.do \in {"save", "check", "after"} /\ (t.do = "save" => j = 2 /\ i = 1 /\ t.on = SecondLeg(m))
          /\ GoodStep(T, j) /\ t \in AnyStep
      <4>1. V[i] = t BY <1>11, <3>1, <3>2
      <4>2. 2 - 1 = 1 OBVIOUS
      <4> QED BY <1>1, <1>11, <1>12, <3>1, <3>2, <4>1, <4>2 DEF GoodSteps
    <3>4. CASE t.do = "save"
      <4>1. GoodSave(T, t, j) /\ t.on \in Match /\ t.on # m /\ t.on = SecondLeg(m) /\ ~FirstOfTwo(t.on)
            /\ FirstLeg(t.on) = m
        BY <1>4, <1>5, <3>2, <3>3, <3>4, Legs DEF GoodStep
      <4>2. Len(T) # 1 BY <1>11, <3>3, <3>4
      <4>3. /\ ~match[t.on].isBye /\ Null \notin TeamsOf(t.on)
            /\ \E side \in HomeAway : t.winner = match[t.on][side] /\ t.loser = match[t.on][Other(side)]
            /\ ~Decided(t.on) \/ Repeats(t)
        BY <4>1, <4>2 DEF GoodSave
      <4>4. (/\ ~match[t.on].isBye /\ Null \notin TeamsOf(t.on)
             /\ \E side \in HomeAway : t.winner = match[t.on][side] /\ t.loser = match[t.on][Other(side)]
             /\ ~Decided(t.on) \/ Repeats(t))'
        BY <1>7, <1>8, <1>9, <4>1, <4>3 DEF Repeats
      <4>5. (~FirstOfTwo(t.on) /\ match[FirstLeg(t.on)].status = "COMPLETED")' BY <1>6, <1>10, <4>1
      <4>6. i = 1 /\ ~(i > 1) BY <3>3, <3>4
      <4>7. GoodSave(V, t, i)' BY <4>4, <4>5, <4>6 DEF GoodSave
      <4> QED BY <1>6, <3>3, <3>4, <4>1, <4>7 DEF GoodStep
    <3>5. CASE t.do = "check"
      <4>1. GoodCheck(T, t) /\ t.on \in Match BY <3>2, <3>3, <3>5 DEF GoodStep
      <4>2. ASSUME t.on[3] = 2
            PROVE  /\ (Null \notin TeamsOf(t.on))' /\ FirstPlayed(V, t.on)'
                   /\ (TeamsOf(t.on) \cap withdrawn # {})'
                   /\ (\E side \in HomeAway : match[t.on][side] \notin withdrawn)'
        BY <1>7, <1>9, <1>14, <4>1, <4>2 DEF GoodCheck
      <4>3. \A l \in DOMAIN V : V[l].do # "place"
        <5> TAKE l \in DOMAIN V
        <5>1. PICK n \in DOMAIN T : n >= 2 /\ V[l] = T[n] BY <1>11
        <5> QED BY <1>12, <5>1
      <4>4. GoodCheck(V, t)' BY <4>2, <4>3 DEF GoodCheck
      <4> QED BY <1>6, <3>3, <3>5, <4>1, <4>4 DEF GoodStep
    <3>6. CASE t.do = "after" BY <3>3, <3>6 DEF GoodStep
    <3> QED BY <3>3, <3>4, <3>5, <3>6
  <2> QED BY <2>1 DEF GoodSteps
<1>17. Carried(V)'
  <2>1. \A g, x : Doing(T, Place(g, x)) => Doing(V, Place(g, x))
    <3> TAKE g, x
    <3> HAVE Doing(T, Place(g, x))
    <3>1. PICK j \in DOMAIN T : T[j] = Place(g, x) BY DEF Doing
    <3>2. Place(g, x).do = "place" BY DEF Place
    <3>3. T[j] # r BY <3>1, <3>2
    <3> QED BY <1>13, <3>1, <3>3 DEF Doing
  <2>2. ASSUME NEW k \in Match, NEW g \in Goals(k), NEW x, In(g.on, g.side, x) \/ Doing(T, Place(g, x))
        PROVE  In(g.on, g.side, x)' \/ Doing(V, Place(g, x))
    <3>1. g.on \in Match /\ g.side \in HomeAway BY GoalOn
    <3> QED BY <1>7, <2>1, <2>2, <3>1
  <2>3. ASSUME NEW k \in Match, Decided(k), NEW g \in WinnerTo(k)
        PROVE  In(g.on, g.side, match[k].winner)' \/ Doing(V, Place(g, match[k].winner)')
    <3>1. PICK x : x = match[k].winner OBVIOUS
    <3>2. match'[k].winner = x BY <1>8, <3>1
    <3>3. In(g.on, g.side, x) \/ Doing(T, Place(g, x)) BY <1>1, <2>3, <3>1 DEF Carried
    <3>4. In(g.on, g.side, x)' \/ Doing(V, Place(g, x)) BY <2>2, <2>3, <3>3 DEF Goals
    <3> QED BY <3>2, <3>4 DEF In, Place
  <2>4. ASSUME NEW k \in Match, Decided(k), ~match[k].isBye, NEW g \in LoserTo(k)
        PROVE  In(g.on, g.side, LoserOf(k))' \/ Doing(V, Place(g, LoserOf(k))')
    <3>1. PICK x : x = LoserOf(k) OBVIOUS
    <3>2. LoserOf(k)' = x BY <1>8, <3>1
    <3>3. In(g.on, g.side, x) \/ Doing(T, Place(g, x)) BY <1>1, <2>4, <3>1 DEF Carried
    <3>4. In(g.on, g.side, x)' \/ Doing(V, Place(g, x)) BY <2>2, <2>4, <3>3 DEF Goals
    <3> QED BY <3>2, <3>4 DEF In, Place
  <2> QED BY <1>6, <1>8, <2>3, <2>4 DEF Carried, Doing
<1>18. SecondFirst(V)'
  <2> SUFFICES ASSUME NEW k \in Match, k[3] = 2, match'[k].status = "COMPLETED"
               PROVE  /\ FirstPlayed(V, k)'
                      /\ match'[FirstLeg(k)].status # "COMPLETED" => (\E side \in HomeAway : LostBy(k, side, match[k]))'
    BY <1>6 DEF SecondFirst
  <2>1. match'[k] = match[k] BY <1>5, <1>9
  <2>2. FirstPlayed(T, k) /\ (match[FirstLeg(k)].status # "COMPLETED" => \E side \in HomeAway : LostBy(k, side, match[k]))
    BY <1>1, <2>1 DEF SecondFirst
  <2>3. FirstLeg(k) \in Match BY Legs
  <2> QED BY <1>7, <1>14, <2>1, <2>2, <2>3 DEF LostBy
<1>19. Covered(V)'
  <2> SUFFICES ASSUME NEW k \in Match, Stranding(k)' PROVE \E i \in DOMAIN V : Covers(V[i], k)'
    BY <1>6 DEF Covered
  <2>1. k # m BY <1>10 DEF Stranding, Ready
  <2>2. match'[k] = match[k] /\ TeamsOf(k)' = TeamsOf(k) BY <1>7, <1>9, <2>1
  <2>3. Stranding(k) BY <2>2 DEF Stranding, Ready
  <2>4. PICK j \in DOMAIN T : Covers(T[j], k) BY <1>1, <2>3 DEF Covered
  <2>5. T[j] # r BY <1>2, <2>1, <2>4 DEF Covers
  <2>6. PICK i \in DOMAIN V : V[i] = T[j] BY <1>13, <2>5
  <2>7. CASE T[j].do = "check" /\ T[j].on = FirstLeg(k) /\ FirstLeg(k) = m
    <3>1. k[3] = 2
      <4>1. k[3] = 1 => k = FirstLeg(k) BY Legs
      <4> QED BY <2>1, <2>7, <4>1, Legs
    <3>2. k = SecondLeg(k) /\ SecondLeg(k) = SecondLeg(m)
      <4>1. TieOf(FirstLeg(k)) = TieOf(k) BY Legs
      <4> QED BY <2>7, <3>1, <4>1, Legs, SameTie
    <3>3. j >= 2 BY <1>11, <2>5
    <3>4. 2 \in DOMAIN T /\ T[2].do = "save" /\ T[2].on = k BY <1>12, <3>2, <3>3
    <3>5. \E n \in DOMAIN V : V[n] = T[2]
      <4>1. T[2] # r BY <1>2, <2>1, <3>4
      <4> QED BY <1>13, <3>4, <4>1
    <3> QED BY <3>4, <3>5 DEF Covers
  <2>8. CASE ~(T[j].do = "check" /\ T[j].on = FirstLeg(k) /\ FirstLeg(k) = m)
    <3>1. FirstLeg(k) # m => match'[FirstLeg(k)] = match[FirstLeg(k)] BY <1>9, Legs
    <3>2. Covers(V[i], k)' BY <2>4, <2>6, <2>8, <3>1 DEF Covers
    <3> QED BY <3>2
  <2> QED BY <2>7, <2>8
<1>20. Ending(V)'
  <2>1. Final \in Match /\ (WithThird => ThirdMatch \in Match) BY DEF Shape, WithThird
  <2>2. PICK f : f = Final OBVIOUS
  <2>3. PICK h : h = ThirdMatch OBVIOUS
  <2>4. Decided(f)' = Decided(f) /\ match'[f].winner = match[f].winner /\ LoserOf(f)' = LoserOf(f)
    BY <1>8, <2>1, <2>2
  <2>5. WithThird => Decided(h)' = Decided(h) /\ match'[h].winner = match[h].winner /\ LoserOf(h)' = LoserOf(h)
    BY <1>8, <2>1, <2>3
  <2>6. Final' = f /\ ThirdMatch' = h BY <1>6, <2>2, <2>3
  <2>7. Decided(Final)' = Decided(Final) /\ LoserOf(Final)' = LoserOf(Final)
        /\ match'[Final'].winner = match[Final].winner
    BY <2>2, <2>4, <2>6 DEF Decided, LoserOf
  <2>8. WithThird => /\ Decided(ThirdMatch)' = Decided(ThirdMatch) /\ LoserOf(ThirdMatch)' = LoserOf(ThirdMatch)
                     /\ match'[ThirdMatch'].winner = match[ThirdMatch].winner
    BY <2>3, <2>5, <2>6 DEF Decided, LoserOf
  <2>9. {<<3, LoserOf(k)>> : k \in Semis}' = {<<3, LoserOf(k)>> : k \in Semis}
    <3>1. Semis' = Semis
      <4>1. \A k \in Match : (k[1] = Rounds - 1 /\ Decided(k) /\ ~match[k].isBye)' = (k[1] = Rounds - 1 /\ Decided(k) /\ ~match[k].isBye)
        BY <1>6, <1>8
      <4> QED BY <1>6, <4>1 DEF Semis
    <3>2. \A k \in Semis : LoserOf(k)' = LoserOf(k) BY <1>8 DEF Semis
    <3> QED BY <3>1, <3>2
  <2>10. AllDecided' = AllDecided BY <1>6, <2>7, <2>8 DEF AllDecided
  <2>11. Placing' = Placing BY <1>6, <2>7, <2>8, <2>9 DEF Placing
  <2>12. \A j \in DOMAIN T : T[j].do \in {"after", "complete"} => \E i \in DOMAIN V : V[i] = T[j] BY <1>13
  <2> QED BY <1>1, <2>10, <2>11, <2>12 DEF Ending
<1> QED BY <1>15, <1>16, <1>17, <1>18, <1>19, <1>20 DEF InStep

\* What a decided tie leads to: its winner and loser to place, each followed by a look
\* at where they went, and at last a look at the end.
Moves(u, i, m, w, l) ==
  \/ u[i] = [do |-> "after"]
  \/ \E g \in Goals(m) : u[i] = Check(g.on)
  \/ /\ (\E g \in WinnerTo(m) : u[i] = Place(g, w)) \/ (\E g \in LoserTo(m) : u[i] = Place(g, l))
     /\ i + 1 \in DOMAIN u /\ u[i + 1] = Check(u[i].on)
     /\ i > 1 => /\ u[i].on = ThirdMatch
                 /\ \A j \in 1..i - 1 : u[j].do \in {"save", "place", "check"} => u[j].on[1] = Rounds
Onward(u, m, w, l) ==
  /\ u \in Seq(AnyStep) /\ Len(u) \in Nat \ {0} /\ DOMAIN u = 1..Len(u)
  /\ \A g \in WinnerTo(m) : Doing(u, Place(g, w))
  /\ \A g \in LoserTo(m) : Doing(u, Place(g, l))
  /\ \A i \in DOMAIN u : Moves(u, i, m, w, l)
  /\ \E i \in DOMAIN u : u[i].do = "after"

LEMMA AdvanceIs ==
  ASSUME Shape, NEW m \in Match, NEW S, S \subseteq Goals(m), NEW x \in Team,
         S = {} \/ \E g \in Goals(m) : S = {g}
  PROVE  \/ S = {} /\ Advance(S, x) = <<>>
         \/ \E g \in Goals(m) : /\ S = {g} /\ Advance(S, x) = <<Place(g, x), Check(g.on)>>
                                /\ Place(g, x) \in AnyStep /\ Check(g.on) \in AnyStep
<1>1. CASE S = {} BY <1>1 DEF Advance
<1>2. CASE \E g \in Goals(m) : S = {g}
  <2>1. PICK g \in Goals(m) : S = {g} BY <1>2
  <2>2. (CHOOSE h \in S : TRUE) = g BY <2>1
  <2>3. S # {} BY <2>1
  <2>4. Advance(S, x) = <<Place(g, x), Check(g.on)>> BY <2>2, <2>3 DEF Advance, Place, Check
  <2>5. g.on \in Match /\ g.side \in HomeAway BY GoalOn
  <2>6. g.on \in Nat \X Nat \X Nat BY <2>5, MatchIds
  <2>7. Place(g, x) \in PlaceStep BY <2>5, <2>6 DEF Place, PlaceStep
  <2>8. Check(g.on) \in CheckStep BY <2>6 DEF Check, CheckStep
  <2> QED BY <2>1, <2>4, <2>7, <2>8 DEF AnyStep
<1> QED BY <1>1, <1>2

Appended(v, s, t, X) ==
  /\ v \in Seq(X) /\ Len(v) = Len(s) + Len(t) /\ Len(v) \in Nat /\ DOMAIN v = 1..Len(v)
  /\ \A i \in 1..Len(s) : v[i] = s[i]
  /\ \A i \in 1..Len(t) : v[Len(s) + i] = t[i]

LEMMA Append2 ==
  ASSUME NEW X, NEW s \in Seq(X), NEW t \in Seq(X), NEW v, v = s \o t
  PROVE  Appended(v, s, t, X)
<1>1. v \in Seq(X) /\ Len(v) = Len(s) + Len(t) OBVIOUS
<1>2. Len(v) \in Nat /\ DOMAIN v = 1..Len(v) BY <1>1
<1>3. \A i \in 1..Len(s) : v[i] = s[i] OBVIOUS
<1>4. \A i \in 1..Len(t) : v[Len(s) + i] = t[i] OBVIOUS
<1> QED BY <1>1, <1>2, <1>3, <1>4 DEF Appended

Joins(u, U, Y, a, X) ==
  /\ u \in Seq(X) /\ Len(u) = Len(U) + Len(Y) + 1 /\ Len(u) \in Nat /\ DOMAIN u = 1..Len(u)
  /\ \A i \in 1..Len(U) : u[i] = U[i]
  /\ \A i \in 1..Len(Y) : u[Len(U) + i] = Y[i]
  /\ u[Len(U) + Len(Y) + 1] = a

LEMMA Joined ==
  ASSUME NEW X, NEW U \in Seq(X), NEW Y \in Seq(X), NEW a \in X, NEW u, u = U \o Y \o <<a>>
  PROVE  Joins(u, U, Y, a, X)
<1>1. PICK Z : Z = U \o Y OBVIOUS
<1>2. PICK A : A = <<a>> OBVIOUS
<1>3. A \in Seq(X) /\ Len(A) = 1 /\ A[1] = a BY <1>2
<1>4. Appended(Z, U, Y, X) BY <1>1, Append2
<1>5. Z \in Seq(X) BY <1>4 DEF Appended
<1>6. u = Z \o A BY <1>1, <1>2
<1>7. Appended(u, Z, A, X) BY <1>3, <1>5, <1>6, Append2
<1>8. Len(U) \in Nat /\ Len(Y) \in Nat OBVIOUS
<1> QED BY ONLY <1>3, <1>4, <1>7, <1>8 DEF Appended, Joins

LEMMA OnwardIs ==
  ASSUME Shape, NEW m \in Match, NEW w \in Team, NEW l \in Team,
         NEW u, u = Advance(WinnerTo(m), w) \o Advance(LoserTo(m), l) \o <<[do |-> "after"]>>
  PROVE  Onward(u, m, w, l)
<1>1. PICK a : a = [do |-> "after"] OBVIOUS
<1>2. a \in AnyStep /\ a.do = "after" BY <1>1 DEF AnyStep, AfterStep
<1>3. PICK U : U = Advance(WinnerTo(m), w) OBVIOUS
<1>4. PICK Y : Y = Advance(LoserTo(m), l) OBVIOUS
<1>5. u = U \o Y \o <<a>> BY <1>1, <1>3, <1>4
<1>6. \/ WinnerTo(m) = {} /\ U = <<>>
      \/ \E g \in Goals(m) : /\ WinnerTo(m) = {g} /\ U = <<Place(g, w), Check(g.on)>>
                             /\ Place(g, w) \in AnyStep /\ Check(g.on) \in AnyStep
  <2>1. WinnerTo(m) \subseteq Goals(m) BY DEF Goals
  <2>2. WinnerTo(m) = {} \/ \E g \in Goals(m) : WinnerTo(m) = {g} BY DEF Shape
  <2> QED BY <1>3, <2>1, <2>2, AdvanceIs
<1>7. \/ LoserTo(m) = {} /\ Y = <<>>
      \/ \E g \in Goals(m) : /\ LoserTo(m) = {g} /\ Y = <<Place(g, l), Check(g.on)>>
                             /\ Place(g, l) \in AnyStep /\ Check(g.on) \in AnyStep
  <2>1. LoserTo(m) \subseteq Goals(m) BY DEF Goals
  <2>2. LoserTo(m) = {} \/ \E g \in Goals(m) : LoserTo(m) = {g} BY DEF Shape
  <2> QED BY <1>4, <2>1, <2>2, AdvanceIs
<1>7a. ASSUME NEW b \in AnyStep, NEW c \in AnyStep, NEW Z, Z = <<b, c>>
       PROVE  Z \in Seq(AnyStep) /\ Len(Z) = 2 /\ Z[1] = b /\ Z[2] = c
  BY <1>7a
<1>7b. ASSUME NEW Z, Z = <<>> PROVE Z \in Seq(AnyStep) /\ Len(Z) = 0 BY <1>7b
<1>8. \A i : u[i] = a => Moves(u, i, m, w, l) BY <1>1 DEF Moves
<1>9. \A i : (\E g \in Goals(m) : u[i] = Check(g.on)) => Moves(u, i, m, w, l) BY DEF Moves
<1>10. CASE WinnerTo(m) = {} /\ LoserTo(m) = {}
  <2>1. U = <<>> /\ Y = <<>> BY <1>6, <1>7, <1>10
  <2>2. U \in Seq(AnyStep) /\ Len(U) = 0 /\ Y \in Seq(AnyStep) /\ Len(Y) = 0 BY <1>7b, <2>1
  <2>3. u \in Seq(AnyStep) /\ Len(u) = 1 /\ DOMAIN u = {1} /\ u[1] = a /\ DOMAIN u = 1..Len(u)
    <3>1. Joins(u, U, Y, a, AnyStep) BY <1>2, <1>5, <2>2, Joined
    <3>2. Len(U) + Len(Y) + 1 = 1 BY <2>2
    <3>3. 1..1 = {1} OBVIOUS
    <3> QED BY <3>1, <3>2, <3>3 DEF Joins
  <2>4. \A i \in DOMAIN u : Moves(u, i, m, w, l) BY <1>8, <2>3
  <2> QED BY <1>2, <1>10, <2>3, <2>4 DEF Onward
<1>11. ASSUME NEW g \in Goals(m), NEW x, (LoserTo(m) = {} /\ WinnerTo(m) = {g} /\ x = w) \/ (WinnerTo(m) = {} /\ LoserTo(m) = {g} /\ x = l),
              NEW p, p = Place(g, x), NEW c, c = Check(g.on), p \in AnyStep, c \in AnyStep, (U = <<p, c>> /\ Y = <<>>) \/ (U = <<>> /\ Y = <<p, c>>)
       PROVE  Onward(u, m, w, l)
  <2>1. u \in Seq(AnyStep) /\ Len(u) = 3 /\ DOMAIN u = {1, 2, 3} /\ u[1] = p /\ u[2] = c /\ u[3] = a /\ DOMAIN u = 1..Len(u)
    <3>1. U \in Seq(AnyStep) /\ Y \in Seq(AnyStep)
          /\ \/ Len(U) = 2 /\ Len(Y) = 0 /\ U[1] = p /\ U[2] = c
             \/ Len(U) = 0 /\ Len(Y) = 2 /\ Y[1] = p /\ Y[2] = c
      BY <1>7a, <1>7b, <1>11
    <3>2. Joins(u, U, Y, a, AnyStep) BY <1>2, <1>5, <3>1, Joined
    <3>3. Len(u) = 3 /\ u[3] = a
      <4>1. 2 + 0 + 1 = 3 /\ 0 + 2 + 1 = 3 OBVIOUS
      <4>2. Len(U) + Len(Y) + 1 = 3 BY <3>1, <4>1, Zenon
      <4> QED BY <3>2, <4>2 DEF Joins
    <3>4. u[1] = p /\ u[2] = c
      <4>1. CASE Len(U) = 2 /\ U[1] = p /\ U[2] = c BY <3>2, <4>1 DEF Joins
      <4>2. CASE Len(U) = 0 /\ Len(Y) = 2 /\ Y[1] = p /\ Y[2] = c
        <5>1. 1 \in 1..Len(Y) /\ 2 \in 1..Len(Y) /\ Len(U) + 1 = 1 /\ Len(U) + 2 = 2 BY <4>2
        <5>2. u[Len(U) + 1] = Y[1] /\ u[Len(U) + 2] = Y[2] BY <3>2, <5>1 DEF Joins
        <5> QED BY <4>2, <5>1, <5>2
      <4> QED BY <3>1, <4>1, <4>2
    <3>5. 1..3 = {1, 2, 3} OBVIOUS
    <3> QED BY <3>2, <3>3, <3>4, <3>5 DEF Joins
  <2>2. Moves(u, 2, m, w, l) /\ Moves(u, 3, m, w, l) BY <1>8, <1>9, <1>11, <2>1
  <2>3. Moves(u, 1, m, w, l)
    <3>1. 1 + 1 \in DOMAIN u /\ u[1 + 1] = Check(u[1].on)
      <4>1. 1 + 1 = 2 /\ 2 \in DOMAIN u /\ u[2] = c /\ u[1] = p BY <2>1
      <4>2. p.on = g.on BY <1>11 DEF Place
      <4> QED BY <1>11, <4>1, <4>2
    <3>2. (\E h \in WinnerTo(m) : u[1] = Place(h, w)) \/ (\E h \in LoserTo(m) : u[1] = Place(h, l)) BY <1>11, <2>1
    <3>3. ~(1 > 1) OBVIOUS
    <3> QED BY <3>1, <3>2, <3>3 DEF Moves
  <2>4. /\ \A h \in WinnerTo(m) : Doing(u, Place(h, w))
        /\ \A h \in LoserTo(m) : Doing(u, Place(h, l))
    BY <1>11, <2>1 DEF Doing
  <2> QED BY <1>2, <2>1, <2>2, <2>3, <2>4, SMTT(30) DEF Onward
<1>12. CASE WinnerTo(m) # {} /\ LoserTo(m) = {}
  <2>1. PICK g \in Goals(m) : /\ WinnerTo(m) = {g} /\ U = <<Place(g, w), Check(g.on)>>
                              /\ Place(g, w) \in AnyStep /\ Check(g.on) \in AnyStep
    BY <1>6, <1>12
  <2>2. PICK p : p = Place(g, w) OBVIOUS
  <2>3. PICK c : c = Check(g.on) OBVIOUS
  <2>4. U = <<p, c>> /\ Y = <<>> BY <1>7, <1>12, <2>1, <2>2, <2>3
  <2>5. p \in AnyStep /\ c \in AnyStep /\ WinnerTo(m) = {g} BY <2>1, <2>2, <2>3
  <2>6. PICK x : x = w OBVIOUS
  <2>7. LoserTo(m) = {} /\ WinnerTo(m) = {g} /\ x = w BY <1>12, <2>5, <2>6
  <2>8. p = Place(g, x) BY <2>2, <2>6
  <2> QED BY ONLY <1>11, <2>1, <2>3, <2>4, <2>5, <2>7, <2>8
<1>13. CASE WinnerTo(m) = {} /\ LoserTo(m) # {}
  <2>1. PICK g \in Goals(m) : /\ LoserTo(m) = {g} /\ Y = <<Place(g, l), Check(g.on)>>
                              /\ Place(g, l) \in AnyStep /\ Check(g.on) \in AnyStep
    BY <1>7, <1>13
  <2>2. PICK p : p = Place(g, l) OBVIOUS
  <2>3. PICK c : c = Check(g.on) OBVIOUS
  <2>4. Y = <<p, c>> /\ U = <<>> BY <1>6, <1>13, <2>1, <2>2, <2>3
  <2> QED BY <1>11, <1>13, <2>1, <2>2, <2>3, <2>4
<1>14. CASE WinnerTo(m) # {} /\ LoserTo(m) # {}
  <2>1. PICK g \in Goals(m) : /\ WinnerTo(m) = {g} /\ U = <<Place(g, w), Check(g.on)>>
                              /\ Place(g, w) \in AnyStep /\ Check(g.on) \in AnyStep
    BY <1>6, <1>14
  <2>2. PICK h \in Goals(m) : /\ LoserTo(m) = {h} /\ Y = <<Place(h, l), Check(h.on)>>
                              /\ Place(h, l) \in AnyStep /\ Check(h.on) \in AnyStep
    BY <1>7, <1>14
  <2>3. PICK p : p = Place(g, w) OBVIOUS
  <2>4. PICK c : c = Check(g.on) OBVIOUS
  <2>5. PICK q : q = Place(h, l) OBVIOUS
  <2>6. PICK d : d = Check(h.on) OBVIOUS
  <2>7. U = <<p, c>> /\ Y = <<q, d>> /\ p \in AnyStep /\ c \in AnyStep /\ q \in AnyStep /\ d \in AnyStep
    BY <2>1, <2>2, <2>3, <2>4, <2>5, <2>6
  <2>8. /\ U \in Seq(AnyStep) /\ Len(U) = 2 /\ U[1] = p /\ U[2] = c
        /\ Y \in Seq(AnyStep) /\ Len(Y) = 2 /\ Y[1] = q /\ Y[2] = d
    BY <1>7a, <2>7
  <2>9. /\ u \in Seq(AnyStep) /\ Len(u) = 5 /\ DOMAIN u = {1, 2, 3, 4, 5} /\ DOMAIN u = 1..Len(u)
        /\ u[1] = p /\ u[2] = c /\ u[3] = q /\ u[4] = d /\ u[5] = a
    <3>2. Joins(u, U, Y, a, AnyStep) BY <1>2, <1>5, <2>8, Joined
    <3>3. Len(u) = 5 /\ u[5] = a BY <2>8, <3>2 DEF Joins
    <3>4. u[1] = p /\ u[2] = c BY <2>8, <3>2 DEF Joins
    <3>5. u[3] = q /\ u[4] = d
      <4>1. 1 \in 1..Len(Y) /\ 2 \in 1..Len(Y) /\ Len(U) + 1 = 3 /\ Len(U) + 2 = 4 BY <2>8
      <4>2. u[Len(U) + 1] = Y[1] /\ u[Len(U) + 2] = Y[2] BY <3>2, <4>1 DEF Joins
      <4> QED BY <2>8, <4>1, <4>2
    <3>6. 1..5 = {1, 2, 3, 4, 5} OBVIOUS
    <3> QED BY <3>2, <3>3, <3>4, <3>5, <3>6 DEF Joins
  <2>10. p.on = g.on /\ c.on = g.on /\ q.on = h.on BY <2>3, <2>4, <2>5 DEF Place, Check
  <2>11. g.on[1] = Rounds /\ h.on = ThirdMatch
    <3>1. g.on[1] = m[1] + 1 /\ h.on = ThirdMatch /\ m[1] = Rounds - 1 BY <2>1, <2>2 DEF Shape
    <3>2. Rounds \in 1..4 BY DEF Shape
    <3> QED BY <3>1, <3>2
  <2>12. Moves(u, 2, m, w, l) /\ Moves(u, 4, m, w, l) /\ Moves(u, 5, m, w, l)
    BY <1>8, <1>9, <2>4, <2>6, <2>9
  <2>13. Moves(u, 1, m, w, l)
    <3>1. 1 + 1 \in DOMAIN u /\ u[1 + 1] = Check(u[1].on)
      <4>1. 1 + 1 = 2 /\ 2 \in DOMAIN u BY <2>9
      <4> QED BY <2>4, <2>9, <2>10, <4>1
    <3>2. (\E k \in WinnerTo(m) : u[1] = Place(k, w)) BY <2>1, <2>3, <2>9
    <3>3. ~(1 > 1) OBVIOUS
    <3> QED BY <3>1, <3>2, <3>3 DEF Moves
  <2>14. Moves(u, 3, m, w, l)
    <3>1. 3 + 1 \in DOMAIN u /\ u[3 + 1] = Check(u[3].on)
      <4>1. 3 + 1 = 4 /\ 4 \in DOMAIN u BY <2>9
      <4> QED BY <2>6, <2>9, <2>10, <4>1
    <3>2. (\E k \in LoserTo(m) : u[3] = Place(k, l)) BY <2>2, <2>5, <2>9
    <3>3. u[3].on = ThirdMatch BY <2>9, <2>10, <2>11
    <3>4. \A j \in 1..3 - 1 : u[j].on[1] = Rounds
      <4> TAKE j \in 1..3 - 1
      <4>1. j = 1 \/ j = 2 OBVIOUS
      <4>2. u[1].on[1] = Rounds /\ u[2].on[1] = Rounds BY <2>9, <2>10, <2>11
      <4> QED BY <4>1, <4>2
    <3> QED BY <3>1, <3>2, <3>3, <3>4 DEF Moves
  <2>15. /\ \A k \in WinnerTo(m) : Doing(u, Place(k, w))
         /\ \A k \in LoserTo(m) : Doing(u, Place(k, l))
    BY <2>1, <2>2, <2>3, <2>5, <2>9 DEF Doing
  <2>16. \A i \in DOMAIN u : Moves(u, i, m, w, l)
    <3> TAKE i \in DOMAIN u
    <3>1. i = 1 \/ i = 2 \/ i = 3 \/ i = 4 \/ i = 5 BY <2>9
    <3> QED BY <2>12, <2>13, <2>14, <3>1
  <2>17. \E i \in DOMAIN u : u[i].do = "after" BY <1>2, <2>9
  <2>18. u \in Seq(AnyStep) /\ Len(u) \in Nat \ {0} /\ DOMAIN u = 1..Len(u) BY <2>9
  <2> QED BY <2>15, <2>16, <2>17, <2>18 DEF Onward
<1> QED BY <1>10, <1>12, <1>13, <1>14

\* r, the first of T, decides its tie, and V is what is left: u hands the teams on.
HandOn(T, r, u, V) ==
  /\ T \in Seq(AnyStep) /\ T # <<>> /\ 1 \in DOMAIN T /\ InStep(T)
  /\ r = T[1] /\ r.do = "save" /\ r \in SaveStep /\ r.on \in Match /\ GoodSave(T, r, 1)
  /\ r.winner \in Team /\ r.loser \in Team /\ ~FirstOfTwo(r.on)
  /\ Saved(r) /\ withdrawn' = withdrawn /\ status' = status
  /\ Onward(u, r.on, r.winner, r.loser) /\ V = u \o Tail(T)

\* What is left is known by its order.
LEMMA HandOnOrder ==
  ASSUME setup \in Setup, Shape, NEW T, NEW r, NEW u, NEW V, HandOn(T, r, u, V)
  PROVE  /\ Spliced(u, T, V)
         /\ \A j \in DOMAIN T : T[j] # r => \E i \in DOMAIN V : V[i] = T[j]
         /\ \A j \in DOMAIN T : j >= 2 =>
              /\ T[j].do \in {"place", "check", "after"} /\ T[j] \in AnyStep
              /\ T[j].do = "place" => Goals(r.on) = {} /\ T[j].on = ThirdMatch /\ r.on[1] = Rounds
         /\ \A k \in Match : FirstLeg(k) = r.on => k = r.on
         /\ \A k \in Match : k[3] = 2 /\ FirstPlayed(T, k) => FirstPlayed(V, k)
<1>1. /\ T \in Seq(AnyStep) /\ T # <<>> /\ 1 \in DOMAIN T /\ InStep(T)
      /\ r = T[1] /\ r.do = "save" /\ r.on \in Match /\ ~FirstOfTwo(r.on)
      /\ Onward(u, r.on, r.winner, r.loser) /\ V = u \o Tail(T)
  BY DEF HandOn
<1>2. u \in Seq(AnyStep) BY <1>1 DEF Onward
<1>3. Spliced(u, T, V) BY <1>1, <1>2, Splice
<1>4. \A j \in DOMAIN T : T[j] # r => \E i \in DOMAIN V : V[i] = T[j]
  <2> TAKE j \in DOMAIN T
  <2> HAVE T[j] # r
  <2>1. j >= 2 BY <1>1, <1>3 DEF Spliced
  <2> QED BY <1>3, <2>1 DEF Spliced
<1>5. GoodSteps(T) BY <1>1 DEF InStep
<1>6. ASSUME NEW j \in DOMAIN T, j >= 2
      PROVE  /\ T[j].do \in {"place", "check", "after"} /\ T[j] \in AnyStep
             /\ T[j].do = "place" => Goals(r.on) = {} /\ T[j].on = ThirdMatch /\ r.on[1] = Rounds
  <2>1. /\ T[j].do \in {"save", "place", "check", "after"} /\ T[j] \in AnyStep
        /\ T[j].do = "save" => FirstOfTwo(T[1].on)
        /\ T[j].do = "place" => T[j].on = ThirdMatch /\ (T[1].do \in {"save", "place", "check"} => T[1].on[1] = Rounds)
    BY <1>1, <1>5, <1>6, RestKinds
  <2>2. T[j].do # "save" BY <1>1, <2>1
  <2>3. T[j].do = "place" => r.on[1] = Rounds /\ T[j].on = ThirdMatch BY <1>1, <2>1
  <2>4. r.on[1] = Rounds => Goals(r.on) = {}
    <3> HAVE r.on[1] = Rounds
    <3>1. Rounds \in 1..4 BY DEF Shape
    <3>2. WinnerTo(r.on) = {} BY <3>1 DEF WinnerTo
    <3>3. LoserTo(r.on) = {} BY <3>1 DEF LoserTo
    <3> QED BY <3>2, <3>3 DEF Goals
  <2> QED BY <2>1, <2>2, <2>3, <2>4
<1>7. ASSUME NEW k \in Match, FirstLeg(k) = r.on PROVE k = r.on
  <2>1. CASE k[3] = 1 BY <1>7, <2>1, Legs
  <2>2. CASE k[3] = 2
    <3>1. FirstOfTwo(FirstLeg(k)) BY <2>2, Legs
    <3> QED BY <1>1, <1>7, <3>1
  <2> QED BY <2>1, <2>2, Legs
<1>8. ASSUME NEW k \in Match, k[3] = 2, FirstPlayed(T, k) PROVE FirstPlayed(V, k)
  <2>1. CASE match[FirstLeg(k)].status = "COMPLETED" BY <2>1 DEF FirstPlayed
  <2>2. CASE \E i \in DOMAIN T : T[i].do \in {"check", "save"} /\ T[i].on = FirstLeg(k)
    <3>1. PICK i \in DOMAIN T : T[i].do \in {"check", "save"} /\ T[i].on = FirstLeg(k) BY <2>2
    <3>2. T[i] # r
      <4>1. k # FirstLeg(k) BY <1>8, Legs
      <4> QED BY <1>7, <3>1, <4>1
    <3> QED BY <1>4, <3>1, <3>2 DEF FirstPlayed
  <2> QED BY <1>8, <2>1, <2>2 DEF FirstPlayed
<1> QED BY <1>3, <1>4, <1>6, <1>7, <1>8

\* The tie is decided as it was said.
LEMMA HandOnRow ==
  ASSUME setup \in Setup, Shape, NEW T, NEW r, NEW u, NEW V, HandOn(T, r, u, V)
  PROVE  /\ Rows' /\ Fed'
         /\ Decided(r.on)' /\ match'[r.on].winner = r.winner /\ LoserOf(r.on)' = r.loser
         /\ ~match[r.on].isBye /\ ~match'[r.on].isBye /\ Null \notin TeamsOf(r.on)
         /\ Repeats(r) => LoserOf(r.on) = r.loser
<1>1. /\ r.on \in Match /\ ~FirstOfTwo(r.on) /\ Saved(r) /\ InStep(T) /\ GoodSave(T, r, 1) /\ r.winner \in Team
  BY DEF HandOn
<1>2. Rows /\ Fed BY <1>1 DEF InStep
<1>3. PICK m \in Match : m = r.on BY <1>1
<1>4. PICK side \in HomeAway : r.winner = match[m][side] /\ r.loser = match[m][Other(side)]
  BY <1>1, <1>3 DEF GoodSave
<1>5. ~match[m].isBye /\ Null \notin TeamsOf(m) BY <1>1, <1>3 DEF GoodSave
<1>6. match[m]["home"] = match[m].home /\ match[m]["away"] = match[m].away /\ TeamsOf(m) = {match[m].home, match[m].away}
  BY <1>2, RowTypes
<1>7. r.winner \in TeamsOf(m) /\ r.winner # Null
  <2>1. r.winner \in TeamsOf(m) BY <1>4, <1>6, Sides
  <2> QED BY <1>1, <2>1, KnockoutAssumption
<1>8. Rows' /\ Fed' BY <1>1, <1>2, <1>3, <1>5, <1>7, SavedRows
<1>9. match'[m].winner = r.winner /\ match'[m].home = match[m].home /\ match'[m].away = match[m].away
      /\ match'[m].isBye = match[m].isBye
  BY <1>1, <1>3, <1>7 DEF Saved
<1>10. match[m].home # match[m].away BY <1>2, <1>5, NobodyAlone
<1>11. \/ r.winner = match[m].home /\ r.loser = match[m].away
       \/ r.winner = match[m].away /\ r.loser = match[m].home
  BY <1>4, <1>6, Sides
<1>12. LoserOf(m)' = r.loser BY <1>9, <1>10, <1>11 DEF LoserOf
<1>13. Repeats(r) => LoserOf(m) = r.loser BY <1>3, <1>10, <1>11 DEF LoserOf, Repeats
<1>14. Decided(m)' BY <1>7, <1>9 DEF Decided
<1> QED BY <1>3, <1>5, <1>8, <1>9, <1>12, <1>13, <1>14

\* A second leg to look at has its teams: a result for the match before is a repetition.
LEMMA PlacedAlready ==
  ASSUME setup \in Setup, Shape, NEW T, NEW r, NEW u, NEW V, HandOn(T, r, u, V),
         NEW j \in DOMAIN T, j >= 2, T[j].do = "check", T[j].on[3] = 2,
         NEW g \in Goals(r.on), TieOf(g.on) = TieOf(T[j].on)
  PROVE  /\ g \in WinnerTo(r.on) => In(g.on, g.side, r.winner)
         /\ g \in LoserTo(r.on) => In(g.on, g.side, r.loser)
<1>1. /\ r.on \in Match /\ ~FirstOfTwo(r.on) /\ InStep(T) /\ GoodSave(T, r, 1) /\ T \in Seq(AnyStep)
  BY DEF HandOn
<1>2. Rows /\ Fed /\ Carried(T) /\ GoodSteps(T) BY <1>1 DEF InStep
<1>3. PICK c \in Match : c = T[j].on BY <1>2 DEF GoodSteps, GoodStep
<1>4. /\ Null \notin TeamsOf(c)
      /\ \A l \in DOMAIN T : T[l].do = "place" /\ TieOf(T[l].on) = TieOf(c) => In(T[l].on, T[l].side, T[l].team)
  <2>1. GoodCheck(T, T[j]) BY <1>2 DEF GoodSteps, GoodStep
  <2> QED BY <1>3, <2>1 DEF GoodCheck
<1>5. g.on \in Match /\ g.side \in HomeAway /\ g.on = FirstLeg(g.on) BY <1>1, GoalOn
<1>6. g.on = FirstLeg(c) BY <1>3, <1>5, SameTie
<1>7. match[g.on][g.side] # Null
  <2>1. Null \notin TeamsOf(g.on) BY <1>2, <1>3, <1>4, <1>6, Mirror
  <2> QED BY <1>2, <1>5, <2>1, RowTypes, Sides
<1>8. Decided(r.on)
  <2>1. Decider(r.on) = r.on BY <1>1, TieDecider
  <2> QED BY <1>1, <1>2, <1>7, <2>1 DEF Fed
<1>9. Repeats(r) /\ ~match[r.on].isBye
  <2>1. Len(T) # 1 BY <1>1
  <2> QED BY <1>1, <1>8, <2>1 DEF GoodSave
<1>10. match[r.on].winner = r.winner /\ LoserOf(r.on) = r.loser BY <1>9, HandOnRow DEF Repeats
<1>11. ASSUME NEW x, In(g.on, g.side, x) \/ Doing(T, Place(g, x)) PROVE In(g.on, g.side, x)
  <2>1. CASE Doing(T, Place(g, x))
    <3>1. PICK l \in DOMAIN T : T[l] = Place(g, x) BY <2>1 DEF Doing
    <3>2. T[l].do = "place" /\ T[l].on = g.on /\ T[l].side = g.side /\ T[l].team = x BY <3>1 DEF Place
    <3> QED BY <1>3, <1>4, <3>2
  <2> QED BY <1>11, <2>1
<1>12. g \in WinnerTo(r.on) => In(g.on, g.side, r.winner) BY <1>1, <1>2, <1>8, <1>10, <1>11 DEF Carried
<1>13. g \in LoserTo(r.on) => In(g.on, g.side, r.loser) BY <1>1, <1>2, <1>8, <1>9, <1>10, <1>11 DEF Carried
<1> QED BY <1>12, <1>13

\* What is left was good before the match is saved ...
LEMMA HandOnRest ==
  ASSUME setup \in Setup, Shape, NEW T, NEW r, NEW u, NEW V, HandOn(T, r, u, V),
         NEW j \in DOMAIN T, j >= 2
  PROVE  GoodStep(V, j + Len(u) - 1)
<1>1. /\ T \in Seq(AnyStep) /\ T # <<>> /\ InStep(T) /\ r.on \in Match
      /\ Onward(u, r.on, r.winner, r.loser) /\ V = u \o Tail(T)
  BY DEF HandOn
<1>2. /\ Spliced(u, T, V)
      /\ T[j].do \in {"place", "check", "after"} /\ T[j] \in AnyStep
      /\ T[j].do = "place" => Goals(r.on) = {}
      /\ \A k \in Match : k[3] = 2 /\ FirstPlayed(T, k) => FirstPlayed(V, k)
  BY HandOnOrder
<1>3. GoodSteps(T) /\ u \in Seq(AnyStep) BY <1>1 DEF InStep, Onward
<1>4. T[j].do = "place" => \A i \in DOMAIN u : u[i].do \notin {"save", "place", "check"}
  <2> HAVE T[j].do = "place"
  <2> TAKE i \in DOMAIN u
  <2>1. Goals(r.on) = {} BY <1>2
  <2>2. Moves(u, i, r.on, r.winner, r.loser) BY <1>1 DEF Onward
  <2>3. u[i] = [do |-> "after"] BY <2>1, <2>2 DEF Moves, Goals
  <2> QED BY <2>3
<1>5. T[j].do = "check" => GoodCheck(V, T[j])
  <2> SUFFICES ASSUME T[j].do = "check", T[j].on[3] = 2 PROVE GoodCheck(V, T[j]) BY DEF GoodCheck
  <2>1. GoodCheck(T, T[j]) /\ T[j].on \in Match BY <1>3 DEF GoodSteps, GoodStep
  <2>2. FirstPlayed(V, T[j].on) BY <1>2, <2>1 DEF GoodCheck
  <2>3. ASSUME NEW l \in DOMAIN V, V[l].do = "place", TieOf(V[l].on) = TieOf(T[j].on)
        PROVE  In(V[l].on, V[l].side, V[l].team)
    <3>1. CASE l \in DOMAIN u
      <4>1. V[l] = u[l] BY <1>2, <3>1 DEF Spliced
      <4>2. Moves(u, l, r.on, r.winner, r.loser) BY <1>1, <3>1 DEF Onward
      <4>3. u[l] # [do |-> "after"] /\ \A g : u[l] # Check(g.on) BY <2>3, <4>1 DEF Check
      <4>4. (\E g \in WinnerTo(r.on) : u[l] = Place(g, r.winner)) \/ (\E g \in LoserTo(r.on) : u[l] = Place(g, r.loser))
        BY <4>2, <4>3 DEF Moves
      <4>5. ASSUME NEW g \in WinnerTo(r.on), u[l] = Place(g, r.winner) PROVE In(V[l].on, V[l].side, V[l].team)
        <5>1. V[l].on = g.on /\ V[l].side = g.side /\ V[l].team = r.winner BY <4>1, <4>5 DEF Place
        <5>2. In(g.on, g.side, r.winner) BY <2>3, <5>1, PlacedAlready DEF Goals
        <5> QED BY <5>1, <5>2
      <4>6. ASSUME NEW g \in LoserTo(r.on), u[l] = Place(g, r.loser) PROVE In(V[l].on, V[l].side, V[l].team)
        <5>1. V[l].on = g.on /\ V[l].side = g.side /\ V[l].team = r.loser BY <4>1, <4>6 DEF Place
        <5>2. In(g.on, g.side, r.loser) BY <2>3, <5>1, PlacedAlready DEF Goals
        <5> QED BY <5>1, <5>2
      <4> QED BY <4>4, <4>5, <4>6
    <3>2. CASE l \notin DOMAIN u
      <4>1. PICK n \in DOMAIN T : n >= 2 /\ V[l] = T[n] BY <1>2, <3>2 DEF Spliced
      <4> QED BY <2>1, <2>3, <4>1 DEF GoodCheck
    <3> QED BY <3>1, <3>2
  <2> QED BY <2>1, <2>2, <2>3 DEF GoodCheck
<1>6. T[j].do # "save" BY <1>2
<1> QED BY <1>1, <1>3, <1>4, <1>5, <1>6, RestGood

\* ... and afterwards, and so are the steps that hand the teams on.
LEMMA HandOnSteps ==
  ASSUME setup \in Setup, Shape, NEW T, NEW r, NEW u, NEW V, HandOn(T, r, u, V)
  PROVE  GoodSteps(V)'
<1>1. /\ T \in Seq(AnyStep) /\ T # <<>> /\ 1 \in DOMAIN T /\ InStep(T) /\ r = T[1] /\ r.on \in Match /\ Saved(r)
      /\ GoodSave(T, r, 1) /\ ~FirstOfTwo(r.on) /\ withdrawn' = withdrawn
      /\ Onward(u, r.on, r.winner, r.loser)
  BY DEF HandOn
<1>2. /\ Spliced(u, T, V)
      /\ \A j \in DOMAIN T : j >= 2 =>
           /\ T[j].do \in {"place", "check", "after"} /\ T[j] \in AnyStep
           /\ T[j].do = "place" => Goals(r.on) = {} /\ T[j].on = ThirdMatch /\ r.on[1] = Rounds
  BY HandOnOrder
<1>3. /\ Decided(r.on)' /\ match'[r.on].winner = r.winner /\ LoserOf(r.on)' = r.loser /\ ~match'[r.on].isBye
  BY HandOnRow
<1>4. Rows BY <1>1 DEF InStep
<1>5. /\ setup' = setup /\ Match' = Match /\ Rounds' = Rounds /\ ThirdMatch' = ThirdMatch
      /\ \A k : WinnerTo(k)' = WinnerTo(k) /\ LoserTo(k)' = LoserTo(k)
  BY <1>1, SameShape DEF Saved
<1>6. /\ \A k \in Match : TeamsOf(k)' = TeamsOf(k)
      /\ \A k \in Match : k # r.on => Decided(k)' = Decided(k) /\ LoserOf(k)' = LoserOf(k)
      /\ \A k \in Match : match[k].status = "COMPLETED" => match'[k].status = "COMPLETED"
      /\ \A k \in Match, side \in HomeAway : \A x : In(k, side, x)' <=> In(k, side, x)
      /\ \A k \in Match : TieOf(k) # TieOf(r.on) => Open(k)' = Open(k)
  BY <1>1, <1>4, SavedKeeps
<1>7. \A k \in Match : /\ k # r.on => match'[k] = match[k]
                       /\ \A side \in HomeAway : match'[k][side] = match[k][side]
  BY <1>1 DEF Saved
<1>8. ASSUME NEW i \in DOMAIN u PROVE GoodStep(V, i)'
  <2>1. PICK t : t = u[i] OBVIOUS
  <2>2. V[i] = t /\ Moves(u, i, r.on, r.winner, r.loser) /\ i \in 1..Len(u)
    BY <1>1, <1>2, <2>1 DEF Onward, Spliced
  <2>3. CASE t = [do |-> "after"] BY <2>2, <2>3 DEF GoodStep
  <2>4. CASE \E g \in Goals(r.on) : t = Check(g.on)
    <3>1. PICK g \in Goals(r.on) : t = Check(g.on) BY <2>4
    <3>2. g.on \in Match /\ g.on[3] = 1 BY <1>1, GoalOn
    <3>3. t.do = "check" /\ t.on = g.on BY <3>1 DEF Check
    <3> QED BY <1>5, <2>2, <3>2, <3>3 DEF GoodStep, GoodCheck
  <2>5. ASSUME t # [do |-> "after"], \A g \in Goals(r.on) : t # Check(g.on) PROVE GoodStep(V, i)'
    <3>1. /\ (\E g \in WinnerTo(r.on) : t = Place(g, r.winner)) \/ (\E g \in LoserTo(r.on) : t = Place(g, r.loser))
          /\ i + 1 \in DOMAIN u /\ u[i + 1] = Check(t.on)
          /\ i > 1 => /\ t.on = ThirdMatch
                      /\ \A j \in 1..i - 1 : u[j].do \in {"save", "place", "check"} => u[j].on[1] = Rounds
      BY <2>1, <2>2, <2>5 DEF Moves
    <3>2. PICK g \in Goals(r.on) :
            /\ t.do = "place" /\ t.on = g.on /\ t.side = g.side
            /\ Open(g.on) \/ In(g.on, g.side, t.team)
      <4>1. /\ \A g \in WinnerTo(r.on) : Open(g.on) \/ In(g.on, g.side, r.winner)
            /\ \A g \in LoserTo(r.on) : Open(g.on) \/ In(g.on, g.side, r.loser)
        BY <1>1, SaveRoom
      <4> QED BY <3>1, <4>1 DEF Goals, Place
    <3>3. g.on \in Match /\ g.side \in HomeAway /\ TieOf(g.on) # TieOf(r.on) BY <1>1, GoalOn
    <3>4. (\E m \in Match : Decided(m) /\
             \/ \E h \in WinnerTo(m) : t = Place(h, match[m].winner)
             \/ ~match[m].isBye /\ \E h \in LoserTo(m) : t = Place(h, LoserOf(m)))'
      BY <1>1, <1>3, <1>5, <3>1
    <3>5. (Open(t.on) \/ In(t.on, t.side, t.team))' BY <1>6, <3>2, <3>3
    <3>6. i + 1 \in DOMAIN V /\ V[i + 1] = Check(t.on) BY <1>2, <3>1 DEF Spliced
    <3>7. i > 1 => /\ t.on = ThirdMatch
                   /\ \A j \in 1..i - 1 : V[j].do \in {"save", "place", "check"} => V[j].on[1] = Rounds
      <4> HAVE i > 1
      <4> SUFFICES ASSUME NEW j \in 1..i - 1, V[j].do \in {"save", "place", "check"} PROVE V[j].on[1] = Rounds
        BY <3>1
      <4>1. j \in DOMAIN u BY <1>1, <2>2 DEF Onward
      <4>2. V[j] = u[j] BY <1>2, <4>1 DEF Spliced
      <4> QED BY <3>1, <4>2
    <3>8. GoodPlace(V, t, i)' BY <1>5, <3>4, <3>5, <3>6, <3>7 DEF GoodPlace
    <3> QED BY <1>5, <2>2, <3>2, <3>3, <3>8 DEF GoodStep
  <2> QED BY <2>3, <2>4, <2>5
<1>9. ASSUME NEW j \in DOMAIN T, j >= 2, NEW n \in DOMAIN V, n = j + Len(u) - 1 PROVE GoodStep(V, n)'
  <2>1. GoodStep(V, n) BY <1>9, HandOnRest
  <2>2. PICK t : t = V[n] OBVIOUS
  <2>3. t = T[j] BY <1>2, <1>9, <2>2 DEF Spliced
  <2>4. /\ t.do \in {"place", "check", "after"} /\ t \in AnyStep
        /\ t.do = "place" => Goals(r.on) = {} /\ t.on = ThirdMatch /\ r.on[1] = Rounds
        /\ t.do \in {"place", "check"} => t.on \in Match
    BY <1>2, <1>9, <2>1, <2>2, <2>3 DEF GoodStep
  <2>5. CASE t.do = "place"
    <3>1. t \in PlaceStep /\ t.side \in HomeAway BY <2>4, <2>5, StepKinds DEF PlaceStep
    <3>2. GoodPlace(V, t, n) BY <2>1, <2>2, <2>5 DEF GoodStep
    <3>3. PICK m \in Match : Decided(m) /\
             \/ \E g \in WinnerTo(m) : t = Place(g, match[m].winner)
             \/ ~match[m].isBye /\ \E g \in LoserTo(m) : t = Place(g, LoserOf(m))
      BY <3>2 DEF GoodPlace
    <3>4. m # r.on BY <2>4, <2>5, <3>3 DEF Goals
    <3>5. (Decided(m) /\
             \/ \E g \in WinnerTo(m) : t = Place(g, match[m].winner)
             \/ ~match[m].isBye /\ \E g \in LoserTo(m) : t = Place(g, LoserOf(m)))'
      BY <1>5, <1>6, <1>7, <3>3, <3>4
    <3>6. TieOf(t.on) # TieOf(r.on)
      <4>1. ThirdMatch[1] = Rounds + 1 /\ Rounds \in 1..4 BY DEF ThirdMatch, Shape
      <4>2. t.on[1] # r.on[1] BY <2>4, <2>5, <4>1
      <4> QED BY <4>2 DEF TieOf
    <3>7. Open(t.on)' \/ In(t.on, t.side, t.team)' BY <1>6, <2>4, <2>5, <3>1, <3>2, <3>6 DEF GoodPlace
    <3>8. GoodPlace(V, t, n)' BY <1>5, <3>2, <3>5, <3>7 DEF GoodPlace
    <3> QED BY <1>5, <2>2, <2>4, <2>5, <3>8 DEF GoodStep
  <2>6. CASE t.do = "check"
    <3>1. GoodCheck(V, t) BY <2>1, <2>2, <2>6 DEF GoodStep
    <3>2. ASSUME t.on[3] = 2
          PROVE  /\ (Null \notin TeamsOf(t.on))' /\ FirstPlayed(V, t.on)'
                 /\ (TeamsOf(t.on) \cap withdrawn # {})'
                 /\ (\E side \in HomeAway : match[t.on][side] \notin withdrawn)'
                 /\ (\A l \in DOMAIN V : V[l].do = "place" /\ TieOf(V[l].on) = TieOf(t.on) =>
                       In(V[l].on, V[l].side, V[l].team))'
      <4>1. FirstLeg(t.on) \in Match BY <2>4, <2>6, Legs
      <4>2. FirstPlayed(V, t.on)' BY <1>6, <3>1, <3>2, <4>1 DEF GoodCheck, FirstPlayed
      <4>3. ASSUME NEW l \in DOMAIN V, V[l].do = "place", TieOf(V[l].on) = TieOf(t.on)
            PROVE  In(V[l].on, V[l].side, V[l].team)'
        <5>1. V[l] \in AnyStep BY <1>2 DEF Spliced
        <5>2. V[l].side \in HomeAway BY <4>3, <5>1, StepKinds DEF PlaceStep
        <5>3. V[l].on \in Match
          <6>1. CASE l \in DOMAIN u
            <7>1. (V[l].on \in Match)' BY <1>8, <4>3, <6>1 DEF GoodStep
            <7> QED BY <1>5, <7>1
          <6>2. CASE l \notin DOMAIN u
            <7>1. PICK a \in DOMAIN T : a >= 2 /\ l = a + Len(u) - 1 BY <1>2, <6>2 DEF Spliced
            <7> QED BY <4>3, <7>1, HandOnRest DEF GoodStep
          <6> QED BY <6>1, <6>2
        <5>4. In(V[l].on, V[l].side, V[l].team) BY <3>1, <3>2, <4>3 DEF GoodCheck
        <5> QED BY <1>6, <5>2, <5>3, <5>4
      <4> QED BY <1>1, <1>6, <1>7, <2>4, <2>6, <3>1, <3>2, <4>2, <4>3 DEF GoodCheck
    <3>3. GoodCheck(V, t)' BY <3>2 DEF GoodCheck
    <3> QED BY <1>5, <2>2, <2>4, <2>6, <3>3 DEF GoodStep
  <2>7. CASE t.do = "after" BY <2>2, <2>7 DEF GoodStep
  <2> QED BY <2>4, <2>5, <2>6, <2>7
<1>10. \A i \in DOMAIN V : i \in DOMAIN u \/ \E j \in DOMAIN T : j >= 2 /\ i = j + Len(u) - 1 BY <1>2 DEF Spliced
<1> QED BY <1>8, <1>9, <1>10 DEF GoodSteps

\* Whoever has won is in the next match, or still to be placed there.
LEMMA HandOnCarried ==
  ASSUME setup \in Setup, Shape, NEW T, NEW r, NEW u, NEW V, HandOn(T, r, u, V)
  PROVE  Carried(V)'
<1>1. /\ r.on \in Match /\ r.do = "save" /\ Saved(r) /\ InStep(T) /\ Onward(u, r.on, r.winner, r.loser)
  BY DEF HandOn
<1>2. Rows /\ Carried(T) BY <1>1 DEF InStep
<1>3. /\ Spliced(u, T, V)
      /\ \A j \in DOMAIN T : T[j] # r => \E i \in DOMAIN V : V[i] = T[j]
  BY HandOnOrder
<1>4. /\ match'[r.on].winner = r.winner /\ LoserOf(r.on)' = r.loser
  BY HandOnRow
<1>5. /\ setup' = setup /\ Match' = Match
      /\ \A k : WinnerTo(k)' = WinnerTo(k) /\ LoserTo(k)' = LoserTo(k)
  BY <1>1, SameShape DEF Saved
<1>6. /\ \A k \in Match : k # r.on => /\ Decided(k)' = Decided(k) /\ LoserOf(k)' = LoserOf(k)
                                      /\ match'[k] = match[k]
      /\ \A k \in Match, side \in HomeAway : \A x : In(k, side, x)' <=> In(k, side, x)
  BY <1>1, <1>2, SavedKeeps DEF Saved
<1>7. ASSUME NEW k \in Match, NEW g \in Goals(k), NEW x,
             In(g.on, g.side, x) \/ Doing(T, Place(g, x)) \/ Doing(u, Place(g, x))
      PROVE  In(g.on, g.side, x)' \/ Doing(V, Place(g, x))
  <2>1. CASE In(g.on, g.side, x)
    <3>1. g.on \in Match /\ g.side \in HomeAway BY GoalOn
    <3> QED BY <1>6, <2>1, <3>1
  <2>2. CASE Doing(T, Place(g, x))
    <3>1. PICK j \in DOMAIN T : T[j] = Place(g, x) BY <2>2 DEF Doing
    <3>2. T[j].do = "place" BY <3>1 DEF Place
    <3>3. T[j] # r BY <1>1, <3>2
    <3> QED BY <1>3, <3>1, <3>3 DEF Doing
  <2>3. CASE Doing(u, Place(g, x))
    <3>1. PICK j \in DOMAIN u : u[j] = Place(g, x) BY <2>3 DEF Doing
    <3> QED BY <1>3, <3>1 DEF Doing, Spliced
  <2> QED BY <1>7, <2>1, <2>2, <2>3
<1>8. ASSUME NEW k \in Match, Decided(k)', NEW g \in WinnerTo(k)
      PROVE  In(g.on, g.side, match[k].winner)' \/ Doing(V, Place(g, match[k].winner)')
  <2>1. PICK x : x = match'[k].winner OBVIOUS
  <2>2. In(g.on, g.side, x) \/ Doing(T, Place(g, x)) \/ Doing(u, Place(g, x))
    <3>1. CASE k = r.on BY <1>1, <1>4, <1>8, <2>1, <3>1 DEF Onward
    <3>2. CASE k # r.on BY <1>2, <1>6, <1>8, <2>1, <3>2 DEF Carried
    <3> QED BY <3>1, <3>2
  <2>3. In(g.on, g.side, x)' \/ Doing(V, Place(g, x)) BY <1>7, <1>8, <2>2 DEF Goals
  <2> QED BY <2>1, <2>3 DEF In, Place
<1>9. ASSUME NEW k \in Match, Decided(k)', ~match'[k].isBye, NEW g \in LoserTo(k)
      PROVE  In(g.on, g.side, LoserOf(k))' \/ Doing(V, Place(g, LoserOf(k))')
  <2>1. PICK x : x = LoserOf(k)' OBVIOUS
  <2>2. In(g.on, g.side, x) \/ Doing(T, Place(g, x)) \/ Doing(u, Place(g, x))
    <3>1. CASE k = r.on BY <1>1, <1>4, <1>9, <2>1, <3>1 DEF Onward
    <3>2. CASE k # r.on BY <1>2, <1>6, <1>9, <2>1, <3>2 DEF Carried
    <3> QED BY <3>1, <3>2
  <2>3. In(g.on, g.side, x)' \/ Doing(V, Place(g, x)) BY <1>7, <1>9, <2>2 DEF Goals
  <2> QED BY <2>1, <2>3 DEF In, Place
<1> QED BY <1>5, <1>8, <1>9 DEF Carried, Doing

LEMMA HandOnSecondFirst ==
  ASSUME setup \in Setup, Shape, NEW T, NEW r, NEW u, NEW V, HandOn(T, r, u, V)
  PROVE  SecondFirst(V)'
<1>1. /\ r.on \in Match /\ Saved(r) /\ InStep(T) /\ GoodSave(T, r, 1) /\ withdrawn' = withdrawn
      /\ r.winner \in Team
  BY DEF HandOn
<1>2. Rows /\ SecondFirst(T) BY <1>1 DEF InStep
<1>3. \A k \in Match : k[3] = 2 /\ FirstPlayed(T, k) => FirstPlayed(V, k) BY HandOnOrder
<1>4. Match' = Match BY <1>1 DEF Saved
<1>5. \A k \in Match : match[k].status = "COMPLETED" => match'[k].status = "COMPLETED"
  BY <1>1, <1>2, SavedKeeps
<1>6. ASSUME NEW k \in Match, FirstPlayed(V, k) PROVE FirstPlayed(V, k)'
  <2>1. FirstLeg(k) \in Match BY Legs
  <2> QED BY <1>5, <1>6, <2>1 DEF FirstPlayed
<1> SUFFICES ASSUME NEW k \in Match, k[3] = 2, match'[k].status = "COMPLETED"
             PROVE  /\ FirstPlayed(V, k)'
                    /\ match'[FirstLeg(k)].status # "COMPLETED" => (\E side \in HomeAway : LostBy(k, side, match[k]))'
  BY <1>4 DEF SecondFirst
<1>7. FirstLeg(k) \in Match BY Legs
<1>8. CASE match[FirstLeg(k)].status = "COMPLETED"
  <2>1. match'[FirstLeg(k)].status = "COMPLETED" BY <1>5, <1>7, <1>8
  <2> QED BY <2>1 DEF FirstPlayed
<1>9. CASE k = r.on /\ match[FirstLeg(k)].status # "COMPLETED"
  <2>1. FirstPlayed(T, k) /\ \E side \in HomeAway : LostBy(k, side, r)
    <3>1. ~(1 = 2) OBVIOUS
    <3> QED BY <1>1, <1>9, <3>1 DEF GoodSave
  <2>2. PICK side \in HomeAway : LostBy(k, side, r) BY <2>1
  <2>3. Other(side) \in HomeAway BY Sides
  <2>4. /\ match'[k].homeGoals = r.homeGoals /\ match'[k].awayGoals = r.awayGoals /\ match'[k].forfeit = r.forfeit
        /\ match'[k].winner = r.winner
        /\ match'[k][side] = match[k][side] /\ match'[k][Other(side)] = match[k][Other(side)]
    <3>1. r.winner # Null BY <1>1, KnockoutAssumption
    <3> QED BY <1>1, <1>9, <2>3, <3>1 DEF Saved
  <2>5. LostBy(k, side, match[k])' BY <1>1, <2>2, <2>4 DEF LostBy
  <2> QED BY <1>3, <1>6, <2>1, <2>5
<1>10. CASE k # r.on
  <2>1. match'[k] = match[k] BY <1>1, <1>10 DEF Saved
  <2>2. /\ FirstPlayed(T, k)
        /\ match[FirstLeg(k)].status # "COMPLETED" => \E side \in HomeAway : LostBy(k, side, match[k])
    BY <1>2, <2>1 DEF SecondFirst
  <2>3. FirstPlayed(V, k)' BY <1>3, <1>6, <2>2
  <2> QED BY <1>1, <1>5, <1>7, <2>1, <2>2, <2>3 DEF LostBy
<1> QED BY <1>8, <1>9, <1>10

\* A save leaves nobody waiting for a look that is not going to come.
LEMMA HandOnCovered ==
  ASSUME setup \in Setup, Shape, NEW T, NEW r, NEW u, NEW V, HandOn(T, r, u, V)
  PROVE  Covered(V)'
<1>1. /\ r.on \in Match /\ r.do = "save" /\ Saved(r) /\ InStep(T) /\ withdrawn' = withdrawn
  BY DEF HandOn
<1>2. Rows /\ Covered(T) BY <1>1 DEF InStep
<1>3. /\ \A j \in DOMAIN T : T[j] # r => \E i \in DOMAIN V : V[i] = T[j]
      /\ \A k \in Match : FirstLeg(k) = r.on => k = r.on
  BY HandOnOrder
<1>4. Match' = Match /\ match'[r.on].status = "COMPLETED" BY <1>1 DEF Saved
<1> SUFFICES ASSUME NEW k \in Match, Stranding(k)' PROVE \E i \in DOMAIN V : Covers(V[i], k)'
  BY <1>4 DEF Covered
<1>5. k # r.on BY <1>4 DEF Stranding, Ready
<1>6. match'[k] = match[k] /\ TeamsOf(k)' = TeamsOf(k) BY <1>1, <1>2, <1>5, SavedKeeps DEF Saved
<1>7. match'[FirstLeg(k)] = match[FirstLeg(k)]
  <2>1. FirstLeg(k) \in Match /\ FirstLeg(k) # r.on BY <1>3, <1>5, Legs
  <2> QED BY <1>1, <2>1 DEF Saved
<1>8. Stranding(k) BY <1>1, <1>6 DEF Stranding, Ready
<1>9. PICK j \in DOMAIN T : Covers(T[j], k) BY <1>2, <1>8 DEF Covered
<1>10. T[j] # r BY <1>1, <1>5, <1>9 DEF Covers
<1>11. PICK i \in DOMAIN V : V[i] = T[j] BY <1>3, <1>10
<1>12. Covers(V[i], k)' BY <1>7, <1>9, <1>11 DEF Covers
<1> QED BY <1>12

LEMMA HandOnEnding ==
  ASSUME setup \in Setup, Shape, NEW T, NEW r, NEW u, NEW V, HandOn(T, r, u, V)
  PROVE  Ending(V)'
<1>1. /\ r.on \in Match /\ Saved(r) /\ InStep(T) /\ status' = status /\ Onward(u, r.on, r.winner, r.loser)
  BY DEF HandOn
<1>2. Rows /\ Ending(T) BY <1>1 DEF InStep
<1>3. Spliced(u, T, V) BY HandOnOrder
<1>4. PICK i \in DOMAIN u : u[i].do = "after" BY <1>1 DEF Onward
<1>5. \E n \in DOMAIN V : V[n].do \in {"after", "complete"} BY <1>3, <1>4 DEF Spliced
<1>6. ASSUME NEW k \in Match, Decided(k) PROVE Decided(k)'
  <2>1. CASE k = r.on BY <2>1, HandOnRow DEF Decided
  <2>2. CASE k # r.on BY <1>1, <1>2, <1>6, <2>2, SavedKeeps
  <2> QED BY <2>1, <2>2
<1>7. Final' = Final /\ ThirdMatch' = ThirdMatch /\ WithThird' = WithThird BY <1>1, SameShape DEF Saved
<1>8. AllDecided => AllDecided'
  <2> HAVE AllDecided
  <2>1. Final \in Match /\ (WithThird => ThirdMatch \in Match) BY DEF Shape, WithThird
  <2>2. PICK f : f = Final OBVIOUS
  <2>3. PICK h : h = ThirdMatch OBVIOUS
  <2>4. Decided(f)' /\ (WithThird => Decided(h)') BY <1>6, <2>1, <2>2, <2>3 DEF AllDecided
  <2> QED BY <1>7, <2>2, <2>3, <2>4 DEF AllDecided, Decided
<1> QED BY <1>1, <1>2, <1>5, <1>8 DEF Ending

LEMMA HandOnLeaves ==
  ASSUME setup \in Setup, Shape, NEW T, NEW r, NEW u, NEW V, HandOn(T, r, u, V)
  PROVE  InStep(V)'
<1>1. Rows' /\ Fed' BY HandOnRow
<1>2. GoodSteps(V)' BY HandOnSteps
<1>3. Carried(V)' /\ SecondFirst(V)' BY HandOnCarried, HandOnSecondFirst
<1>4. Covered(V)' /\ Ending(V)' BY HandOnCovered, HandOnEnding
<1> QED BY <1>1, <1>2, <1>3, <1>4 DEF InStep

LEMMA SaveMatchKeeps ==
  ASSUME OneByOne, KnockoutInv, NEW s \in Slot, SaveMatch(s)
  PROVE  KnockoutInv'
<1>1. PICK T : T = Todo OBVIOUS
<1>2. PICK r : r = Next1(s) OBVIOUS
<1>3. PICK u : u = IF r.winner # Null
                   THEN Advance(WinnerTo(r.on), r.winner) \o
                        Advance(LoserTo(r.on), r.loser) \o <<[do |-> "after"]>>
                   ELSE <<>>
  OBVIOUS
<1>4. PICK V : V = u \o Tail(T) OBVIOUS
<1>5. /\ AtStep(s, "save") /\ Then(s, u) /\ UNCHANGED <<setup, withdrawn, phase, status, placements>>
      /\ match' = [match EXCEPT ![r.on] = SavedRow(@, r)]
  <2>1. AtStep(s, "save") /\ UNCHANGED <<setup, withdrawn, phase, status, placements>> BY DEF SaveMatch
  <2>2. match' = [match EXCEPT ![r.on] = SavedRow(@, r)] BY <1>2 DEF SaveMatch
  <2>3. Then(s, IF r.winner # Null
                THEN Advance(WinnerTo(r.on), r.winner) \o
                     Advance(LoserTo(r.on), r.loser) \o <<[do |-> "after"]>>
                ELSE <<>>)
    BY <1>2 DEF SaveMatch
  <2>4. Then(s, u) BY <1>3, <2>3
  <2> QED BY <2>1, <2>2, <2>4
<1>6. /\ Alone /\ Others /\ Shape /\ setup \in Setup /\ T \in Seq(AnyStep) /\ T # <<>>
      /\ request[s].todo # <<>> /\ T[1] = r /\ r.do = "save" /\ r \in AnyStep /\ GoodStep(T, 1) /\ 1 \in DOMAIN T
      /\ Rows /\ InStep(T)
  BY <1>1, <1>2, <1>5, Known, InHand
<1>7. r \in SaveStep /\ r.on \in Match /\ GoodSave(T, r, 1)
  <2>1. r \in SaveStep BY <1>6, StepKinds
  <2> QED BY <1>6, <2>1 DEF GoodStep
<1>8. Saved(r) BY <1>5, <1>6, <1>7, SaveSaves
<1>9. Others' BY <1>5, <1>6 DEF Others
<1>10. CASE r.winner = Null
  <2>1. u = <<>> BY <1>3, <1>10
  <2>2. u \in Seq(AnyStep) BY <2>1
  <2>3. Alone' /\ Todo' = V BY <1>1, <1>4, <1>5, <1>6, <2>2, ThenTodo
  <2>4. InStep(V)' BY <1>4, <1>5, <1>6, <1>7, <1>8, <1>10, <2>1, FirstLegSaved
  <2> QED BY <1>9, <2>3, <2>4, Landing
<1>11. CASE r.winner # Null
  <2>1. ~FirstOfTwo(r.on) BY <1>7, <1>11 DEF GoodSave
  <2>2. r.winner \in Team /\ r.loser \in Team
    <3>1. PICK m \in Match : m = r.on BY <1>7
    <3>2. PICK side \in HomeAway : r.winner = match[m][side] /\ r.loser = match[m][Other(side)]
      BY <1>7, <2>1, <3>1 DEF GoodSave
    <3>3. Null \notin TeamsOf(m) BY <1>7, <3>1 DEF GoodSave
    <3>4. match[m]["home"] \in Team /\ match[m]["away"] \in Team BY <1>6, <3>3, RowTypes
    <3> QED BY <3>2, <3>4, Sides
  <2>3. Onward(u, r.on, r.winner, r.loser)
    <3>1. u = Advance(WinnerTo(r.on), r.winner) \o Advance(LoserTo(r.on), r.loser) \o <<[do |-> "after"]>>
      BY <1>3, <1>11
    <3>2. PICK m \in Match : m = r.on BY <1>7
    <3>3. PICK w \in Team : w = r.winner BY <2>2
    <3>4. PICK l \in Team : l = r.loser BY <2>2
    <3>5. u = Advance(WinnerTo(m), w) \o Advance(LoserTo(m), l) \o <<[do |-> "after"]>>
      BY <3>1, <3>2, <3>3, <3>4
    <3>6. Onward(u, m, w, l) BY ONLY <1>6, <3>5, OnwardIs
    <3> QED BY <3>2, <3>3, <3>4, <3>6
  <2>4. Alone' /\ Todo' = V
    <3>1. u \in Seq(AnyStep) BY <2>3 DEF Onward
    <3> QED BY <1>1, <1>4, <1>5, <1>6, <3>1, ThenTodo
  <2>5. HandOn(T, r, u, V) BY <1>4, <1>5, <1>6, <1>7, <1>8, <2>1, <2>2, <2>3 DEF HandOn
  <2>6. InStep(V)' BY <1>6, <2>5, HandOnLeaves
  <2> QED BY <1>9, <2>4, <2>6, Landing
<1> QED BY <1>10, <1>11

-----------------------------------------------------------------------------
(* The bracket at the start *)

LEMMA PairIs ==
  ASSUME setup \in Setup, NEW n \in Nat \ {0}, <<1, n>> \in Ties,
         NEW a, a = setup.slots[2 * n - 1], NEW b, b = setup.slots[2 * n]
  PROVE  /\ Pair(n)[1] = a /\ Pair(n)[2] = b /\ a \in Team \cup {Null} /\ b \in Team \cup {Null}
         /\ HasBye(<<1, n>>) <=> a = Null \/ b = Null
         /\ HasBye(<<1, n>>) => Free(n) \in Team /\ Seeded(Free(n), 1, n)
         /\ Seeded(a, 0, 2 * n - 1) /\ Seeded(b, 0, 2 * n)
<1>1. /\ 2 * n - 1 \in 1..Len(setup.slots) /\ 2 * n \in 1..Len(setup.slots)
  <2>1. n <= 2 ^ (Rounds - 1) /\ Rounds \in 1..4 BY TiesAre, SetupFacts
  <2>2. PICK h : h = 2 ^ (Rounds - 1) OBVIOUS
  <2>3. 2 * h = Len(setup.slots) BY <2>2, Sizes
  <2>4. 1 \in 1..Rounds BY <2>1
  <2>5. h \in 1..Len(setup.slots) /\ Len(setup.slots) \in 2..16 BY <2>2, <2>4, Sizes
  <2> QED BY <2>1, <2>2, <2>3, <2>5
<1>2. a \in Team \cup {Null} /\ b \in Team \cup {Null} BY <1>1, SetupFacts
<1>3. Pair(n) = <<a, b>> BY DEF Pair
<1>4. Range(Pair(n)) = {a, b}
  <2>1. PICK p : p = <<a, b>> OBVIOUS
  <2>2. DOMAIN p = {1, 2} /\ p[1] = a /\ p[2] = b BY <2>1
  <2> QED BY <1>3, <2>1, <2>2 DEF Range
<1>5. HasBye(<<1, n>>) <=> a = Null \/ b = Null BY <1>4 DEF HasBye
<1>6. ~(a = Null /\ b = Null)
  <2>1. 2 * n - 1 # 2 * n /\ (2 * n - 1 + 1) \div 2 = n /\ (2 * n + 1) \div 2 = n OBVIOUS
  <2>2. \A i, j \in 1..Len(setup.slots) : (i # j /\ setup.slots[i] = setup.slots[j]) =>
              setup.slots[i] = Null /\ (i + 1) \div 2 # (j + 1) \div 2
    BY SetupFacts
  <2> QED BY <1>1, <2>1, <2>2
<1>7. HasBye(<<1, n>>) => Free(n) \in {a, b} /\ Free(n) # Null
  <2> HAVE HasBye(<<1, n>>)
  <2>1. \E x \in {a, b} : x # Null BY <1>6
  <2> QED BY <1>4, <2>1 DEF Free
<1>8. DOMAIN setup.slots = 1..Len(setup.slots) BY SetupFacts
<1>9. 2 ^ 0 = 1 /\ 2 ^ 1 = 2 OBVIOUS
<1>10. Seeded(a, 0, 2 * n - 1)
  <2>1. (2 * n - 1 - 1) * 1 < 2 * n - 1 /\ 2 * n - 1 <= (2 * n - 1) * 1 OBVIOUS
  <2> QED BY <1>1, <1>8, <1>9, <2>1 DEF Seeded
<1>11. Seeded(b, 0, 2 * n)
  <2>1. (2 * n - 1) * 1 < 2 * n /\ 2 * n <= (2 * n) * 1 OBVIOUS
  <2> QED BY <1>1, <1>8, <1>9, <2>1 DEF Seeded
<1>12. \A x \in {a, b} : Seeded(x, 1, n)
  <2>1. (n - 1) * 2 < 2 * n - 1 /\ 2 * n - 1 <= n * 2 /\ (n - 1) * 2 < 2 * n /\ 2 * n <= n * 2 OBVIOUS
  <2> QED BY <1>1, <1>8, <1>9, <2>1 DEF Seeded
<1> QED BY <1>2, <1>3, <1>5, <1>7, <1>10, <1>11, <1>12

\* Who is in the first leg of m, on that side, when the bracket is drawn up.
Entry(m, side) ==
  IF m[1] = 1 THEN setup.slots[SourceSlot(m, side)]
  ELSE IF m[1] <= Rounds THEN Entrant(m[1], SourceSlot(m, side))
  ELSE Null

LEMMA EntryFacts ==
  ASSUME setup \in Setup, Match = Board, Shape, NEW m \in Match, NEW side \in HomeAway,
         NEW n, n = SourceSlot(m, side), NEW x, x = Entry(m, side)
  PROVE  /\ x \in Team \cup {Null}
         /\ x # Null => Seeded(x, SourceRound(m), n)
         /\ m[1] = 1 /\ ~HasBye(TieOf(m)) => x # Null
         /\ x # Null /\ m[1] # 1 => SourceRound(m) = 1 /\ HasBye(<<1, n>>)
         /\ SourceRound(m) = 1 /\ m[1] = 2 /\ HasBye(<<1, n>>) => x = Free(n)
<1>1. /\ Rounds \in 1..4 /\ m[1] \in 1..Rounds + 1 /\ m[2] \in Nat \ {0} BY DEF Shape
<1>2. CASE m[1] = 1
  <2>1. <<1, m[2]>> \in Ties
    <3>1. m # ThirdMatch
      <4>1. ThirdMatch[1] = Rounds + 1 BY DEF ThirdMatch
      <4> QED BY <1>1, <1>2, <4>1
    <3>2. TieOf(m) \in Ties BY <3>1, BoardIs
    <3> QED BY <1>2, <3>2 DEF TieOf
  <2>2. PICK a : a = setup.slots[2 * m[2] - 1] OBVIOUS
  <2>3. PICK b : b = setup.slots[2 * m[2]] OBVIOUS
  <2>4. /\ a \in Team \cup {Null} /\ b \in Team \cup {Null}
        /\ HasBye(<<1, m[2]>>) <=> a = Null \/ b = Null
        /\ Seeded(a, 0, 2 * m[2] - 1) /\ Seeded(b, 0, 2 * m[2])
    BY <1>1, <2>1, <2>2, <2>3, PairIs
  <2>5. SourceRound(m) = 0 BY <1>1, <1>2 DEF SourceRound
  <2>6. TieOf(m) = <<1, m[2]>> BY <1>2 DEF TieOf
  <2>7. (n = 2 * m[2] - 1 /\ x = a) \/ (n = 2 * m[2] /\ x = b)
    BY <1>2, <2>2, <2>3, Sides DEF Entry, SourceSlot
  <2> QED BY <1>2, <2>4, <2>5, <2>6, <2>7
<1>3. CASE m[1] # 1 /\ m[1] <= Rounds /\ m[1] = 2 /\ HasBye(<<1, n>>)
  <2>1. SourceRound(m) = 1 BY <1>1, <1>3 DEF SourceRound
  <2>2. x = Free(n) BY <1>3 DEF Entry, Entrant
  <2>3. TieOf(m) \in Ties
    <3>1. m # ThirdMatch
      <4>1. ThirdMatch[1] = Rounds + 1 BY DEF ThirdMatch
      <4> QED BY <1>1, <1>3, <4>1
    <3> QED BY <3>1, BoardIs
  <2>4. m[2] <= 2 ^ (Rounds - 2) BY <1>3, <2>3, TiesAre DEF TieOf
  <2>5. 2 ^ (Rounds - 1) = 2 * 2 ^ (Rounds - 2) /\ 2 ^ (Rounds - 2) \in 1..Len(setup.slots)
        /\ 2 ^ (Rounds - 1) \in 1..Len(setup.slots)
    <3>1. 2 \in 2..Rounds /\ 2 \in 1..Rounds /\ 1 \in 1..Rounds /\ 2 - 1 = 1 BY <1>1, <1>3
    <3> QED BY <3>1, Sizes
  <2>6. n \in Nat \ {0} /\ n <= 2 * m[2] BY <1>1, Sides DEF SourceSlot
  <2>7. n \in 1..Len(setup.slots) /\ n <= 2 ^ (Rounds - 1)
    <3>1. PICK h : h = 2 ^ (Rounds - 2) OBVIOUS
    <3>2. PICK k : k = 2 ^ (Rounds - 1) OBVIOUS
    <3>3. k = 2 * h /\ k \in 1..Len(setup.slots) /\ h \in Nat /\ m[2] <= h /\ Len(setup.slots) \in 2..16
      BY <2>4, <2>5, <3>1, <3>2, Sizes
    <3>4. n <= k BY <1>1, <2>6, <3>3
    <3> QED BY <2>6, <3>2, <3>3, <3>4
  <2>8. <<1, n>> \in Ties BY <1>1, <2>7, TiesAre
  <2>9. Free(n) \in Team /\ Seeded(Free(n), 1, n) BY <1>3, <2>6, <2>8, PairIs
  <2> QED BY <1>3, <2>1, <2>2, <2>9
<1>4. CASE m[1] # 1 /\ ~(m[1] <= Rounds /\ m[1] = 2 /\ HasBye(<<1, n>>))
  <2>1. x = Null BY <1>4 DEF Entry, Entrant
  <2>2. SourceRound(m) = 1 /\ m[1] = 2 => m[1] <= Rounds BY <1>1 DEF SourceRound
  <2> QED BY <1>4, <2>1, <2>2
<1> QED BY <1>2, <1>3, <1>4

LEMMA UnplayedIs ==
  ASSUME NEW h \in Team \cup {Null}, NEW a \in Team \cup {Null}, NEW row, row = Unplayed(h, a)
  PROVE  /\ row \in MatchRow /\ row.home = h /\ row.away = a /\ ~row.isBye
         /\ row["home"] = h /\ row["away"] = a /\ row.status = "SCHEDULED" /\ row.winner = Null
<1>1. row = [home |-> h, away |-> a, status |-> "SCHEDULED", isBye |-> FALSE,
             homeGoals |-> Null, awayGoals |-> Null, forfeit |-> Null, winner |-> Null]
  BY DEF Unplayed
<1> QED BY <1>1 DEF MatchRow

LEMMA ByeIs ==
  ASSUME NEW h \in Team, NEW row, row = Bye(h)
  PROVE  /\ row \in MatchRow /\ row.home = h /\ row.away = Null /\ row.isBye
         /\ row["home"] = h /\ row["away"] = Null /\ row.status = "COMPLETED" /\ row.winner = h
<1>1. row = [home |-> h, away |-> Null, status |-> "COMPLETED", isBye |-> TRUE,
             homeGoals |-> Null, awayGoals |-> Null, forfeit |-> Null, winner |-> h]
  BY DEF Bye, Unplayed
<1> QED BY <1>1 DEF MatchRow

\* The row of m when the bracket is drawn up.
Drawn(m, row) ==
  /\ row \in MatchRow /\ (row.isBye <=> HasBye(TieOf(m)))
  /\ row["home"] = row.home /\ row["away"] = row.away
  /\ HasBye(TieOf(m)) =>
       /\ m[1] = 1 /\ m[3] = 1 /\ row.status = "COMPLETED" /\ row.away = Null
       /\ row.home = Free(m[2]) /\ row.winner = Free(m[2]) /\ Free(m[2]) \in Team
       /\ Seeded(Free(m[2]), 1, m[2])
  /\ ~HasBye(TieOf(m)) =>
       /\ row.status = "SCHEDULED" /\ row.winner = Null
       /\ m[3] = 1 => row.home = Entry(m, "home") /\ row.away = Entry(m, "away")
       /\ m[3] = 2 => row.home = Entry(m, "away") /\ row.away = Entry(m, "home")

LEMMA FreshIs ==
  ASSUME setup \in Setup, Match = Board, Shape, NEW m \in Match, NEW row, row = FreshMatch(m)
  PROVE  Drawn(m, row)
<1>1. /\ Rounds \in 1..4 /\ m[1] \in 1..Rounds + 1 /\ m[2] \in Nat \ {0} /\ m[3] \in {1, 2}
      /\ m[3] = 2 => m[1] < Rounds /\ ~HasBye(TieOf(m))
  BY DEF Shape
<1>2. CASE HasBye(TieOf(m))
  <2>1. m[1] = 1 /\ m[3] = 1 BY <1>1, <1>2 DEF HasBye, TieOf
  <2>2. <<1, m[2]>> \in Ties /\ HasBye(<<1, m[2]>>)
    <3>1. m # ThirdMatch
      <4>1. ThirdMatch[1] = Rounds + 1 BY DEF ThirdMatch
      <4> QED BY <1>1, <2>1, <4>1
    <3>2. TieOf(m) \in Ties BY <3>1, BoardIs
    <3> QED BY <1>2, <2>1, <3>2 DEF TieOf
  <2>3. Free(m[2]) \in Team /\ Seeded(Free(m[2]), 1, m[2]) BY <1>1, <2>2, PairIs
  <2>4. row = Bye(Free(m[2]))
    <3>1. ~(m[1] > Rounds) /\ ~(m[3] = 2) BY <1>1, <2>1
    <3> QED BY <1>2, <3>1 DEF FreshMatch
  <2>5. /\ row \in MatchRow /\ row.home = Free(m[2]) /\ row.away = Null /\ row.isBye
        /\ row["home"] = row.home /\ row["away"] = row.away
        /\ row.status = "COMPLETED" /\ row.winner = Free(m[2])
    <3>1. PICK h \in Team : h = Free(m[2]) BY <2>3
    <3>2. row = Bye(h) BY <2>4, <3>1
    <3> QED BY <3>1, <3>2, ByeIs
  <2> QED BY <1>2, <2>1, <2>3, <2>5 DEF Drawn
<1>3. CASE ~HasBye(TieOf(m))
  <2>1. PICK h : h = Entry(m, "home") OBVIOUS
  <2>2. PICK a : a = Entry(m, "away") OBVIOUS
  <2>3. h \in Team \cup {Null} /\ a \in Team \cup {Null} BY <2>1, <2>2, EntryFacts, Sides
  <2>4. row = IF m[3] = 2 THEN Unplayed(a, h) ELSE Unplayed(h, a)
    <3>1. CASE m[1] > Rounds
      <4>1. h = Null /\ a = Null BY <1>1, <2>1, <2>2, <3>1 DEF Entry
      <4>2. ~(m[3] = 2) BY <1>1, <3>1
      <4>3. row = Unplayed(Null, Null) BY <1>3, <3>1, <4>2 DEF FreshMatch
      <4> QED BY <4>1, <4>2, <4>3
    <3>2. CASE m[1] <= Rounds
      <4>1. "home" # "away" OBVIOUS
      <4>2. h = IF m[1] = 1 THEN Pair(m[2])[1] ELSE Entrant(m[1], 2 * m[2] - 1)
        BY <2>1, <3>2, <4>1 DEF Entry, SourceSlot, Pair
      <4>3. a = IF m[1] = 1 THEN Pair(m[2])[2] ELSE Entrant(m[1], 2 * m[2])
        BY <2>2, <3>2, <4>1 DEF Entry, SourceSlot, Pair
      <4>4. ~(m[1] > Rounds) BY <1>1, <3>2
      <4> QED BY <1>3, <4>2, <4>3, <4>4 DEF FreshMatch
    <3> QED BY <1>1, <3>1, <3>2
  <2>5. CASE m[3] = 2
    <3>1. row = Unplayed(a, h) BY <2>4, <2>5
    <3>2. /\ row \in MatchRow /\ row.home = a /\ row.away = h /\ ~row.isBye
          /\ row["home"] = a /\ row["away"] = h /\ row.status = "SCHEDULED" /\ row.winner = Null
      BY <2>3, <3>1, UnplayedIs
    <3> QED BY <1>3, <2>1, <2>2, <2>5, <3>2 DEF Drawn
  <2>6. CASE m[3] # 2
    <3>1. row = Unplayed(h, a) BY <2>4, <2>6
    <3>2. /\ row \in MatchRow /\ row.home = h /\ row.away = a /\ ~row.isBye
          /\ row["home"] = h /\ row["away"] = a /\ row.status = "SCHEDULED" /\ row.winner = Null
      BY <2>3, <3>1, UnplayedIs
    <3> QED BY <1>3, <2>1, <2>2, <2>6, <3>2 DEF Drawn
  <2> QED BY <2>5, <2>6
<1> QED BY <1>2, <1>3

LEMMA InitHolds ==
  ASSUME OneByOne, Init
  PROVE  KnockoutInv
<1>1. setup \in Setup /\ withdrawn = {} /\ status = "KNOCKOUT_IN_PROGRESS" BY DEF Init
<1>2. match = [m \in Board |-> FreshMatch(m)] BY DEF Init, Board
<1>3. Match = Board BY <1>2 DEF Match
<1>4. Shape BY <1>1, <1>3, ShapeHolds
<1>5. ASSUME NEW m \in Match PROVE Drawn(m, match[m])
  <2>1. match[m] = FreshMatch(m) BY <1>2, <1>3
  <2> QED BY <1>1, <1>3, <1>4, <2>1, FreshIs
<1>6. match \in [Board -> MatchRow]
  <2>1. \A m \in Board : match[m] \in MatchRow BY <1>3, <1>5 DEF Drawn
  <2>2. match = [m \in Board |-> match[m]] BY <1>2
  <2> QED BY <2>1, <2>2
<1>7. \A m \in Match : /\ match[m].isBye <=> HasBye(TieOf(m))
                       /\ match[m]["home"] = match[m].home /\ match[m]["away"] = match[m].away
                       /\ match[m].isBye \in BOOLEAN
  BY <1>5 DEF Drawn, MatchRow
<1>8. ASSUME NEW m \in Match, HasBye(TieOf(m))
      PROVE  /\ m[1] = 1 /\ m[3] = 1 /\ match[m].status = "COMPLETED" /\ match[m].away = Null
             /\ match[m].home = Free(m[2]) /\ match[m].winner = Free(m[2])
             /\ Free(m[2]) \in Team /\ Free(m[2]) # Null /\ Seeded(Free(m[2]), 1, m[2])
             /\ ~FirstOfTwo(m) /\ Decided(m)
  <2>1. /\ m[1] = 1 /\ m[3] = 1 /\ match[m].status = "COMPLETED" /\ match[m].away = Null
        /\ match[m].home = Free(m[2]) /\ match[m].winner = Free(m[2])
        /\ Free(m[2]) \in Team /\ Seeded(Free(m[2]), 1, m[2])
    BY <1>5, <1>8 DEF Drawn
  <2>2. Free(m[2]) # Null BY <2>1, KnockoutAssumption
  <2>3. ~FirstOfTwo(m)
    <3> SUFFICES ASSUME FirstOfTwo(m) PROVE FALSE OBVIOUS
    <3>1. SecondLeg(m) \in Match /\ SecondLeg(m)[3] = 2 /\ TieOf(SecondLeg(m)) = TieOf(m) BY <1>4, Legs
    <3>2. ~HasBye(TieOf(SecondLeg(m))) BY <1>4, <3>1 DEF Shape
    <3> QED BY <1>8, <3>1, <3>2
  <2> QED BY <2>1, <2>2, <2>3 DEF Decided
<1>9. ASSUME NEW m \in Match, ~HasBye(TieOf(m))
      PROVE  /\ match[m].status = "SCHEDULED" /\ match[m].winner = Null /\ ~Decided(m)
             /\ m[3] = 1 => match[m].home = Entry(m, "home") /\ match[m].away = Entry(m, "away")
             /\ m[3] = 2 => match[m].home = Entry(m, "away") /\ match[m].away = Entry(m, "home")
  BY <1>5, <1>9 DEF Drawn, Decided
<1>10. ASSUME NEW m \in Match, NEW side \in HomeAway, ~HasBye(TieOf(m)), m[3] = 1
       PROVE  match[m][side] = Entry(m, side)
  BY <1>7, <1>9, <1>10, Sides
<1>11. ASSUME NEW m \in Match PROVE RowSound(m)
  <2>1. /\ m[3] \in {1, 2} /\ FirstLeg(m) \in Match
        /\ m[3] = 2 => ~HasBye(TieOf(m)) /\ TieOf(FirstLeg(m)) = TieOf(m)
    BY <1>4, Legs DEF Shape
  <2>2. TeamsOf(m) = {match[m].home, match[m].away} BY DEF TeamsOf
  <2>3. CASE HasBye(TieOf(m)) BY <1>7, <1>8, <2>1, <2>2, <2>3 DEF RowSound
  <2>4. CASE ~HasBye(TieOf(m))
    <3>1. m[1] = 1 => Null \notin TeamsOf(m)
      <4> HAVE m[1] = 1
      <4>1. Entry(m, "home") # Null /\ Entry(m, "away") # Null BY <1>1, <1>3, <1>4, <2>4, EntryFacts, Sides
      <4> QED BY <1>9, <2>1, <2>2, <2>4, <4>1
    <3>2. m[3] = 2 => /\ match[m].home = match[FirstLeg(m)].away
                      /\ match[m].away = match[FirstLeg(m)].home
      <4> HAVE m[3] = 2
      <4>1. FirstLeg(m)[3] = 1 /\ FirstLeg(m)[1] = m[1] /\ FirstLeg(m)[2] = m[2] BY DEF FirstLeg
      <4>2. \A side : Entry(FirstLeg(m), side) = Entry(m, side) BY <4>1 DEF Entry, SourceSlot
      <4> QED BY <1>9, <2>1, <2>4, <4>1, <4>2
    <3>3. m[3] = 1 => \A side \in HomeAway : match[m][side] # Null =>
            Seeded(match[m][side], SourceRound(m), SourceSlot(m, side))
      BY <1>1, <1>3, <1>4, <1>10, <2>4, EntryFacts
    <3> QED BY <1>7, <1>9, <2>4, <3>1, <3>2, <3>3 DEF RowSound
  <2> QED BY <2>3, <2>4
<1>12. Rows BY <1>6, <1>11 DEF Rows
<1>13. ASSUME NEW m \in Match, NEW g \in Goals(m)
       PROVE  /\ g.on \in Match /\ g.side \in HomeAway /\ g.on[3] = 1 /\ ~HasBye(TieOf(g.on)) /\ g.on[1] # 1
              /\ SourceRound(g.on) = m[1] /\ SourceSlot(g.on, g.side) = m[2]
              /\ match[g.on][g.side] = Entry(g.on, g.side)
  <2>1. /\ g.on \in Match /\ g.side \in HomeAway /\ g.on[3] = 1 /\ g.on[1] # 1
        /\ SourceRound(g.on) = m[1] /\ SourceSlot(g.on, g.side) = m[2]
    BY <1>4, GoalOn DEF Shape
  <2>2. ~HasBye(TieOf(g.on)) BY <1>8, <2>1
  <2> QED BY <1>10, <2>1, <2>2
<1>14. Fed
  <2> SUFFICES ASSUME NEW m \in Match, NEW g \in Goals(m), match[g.on][g.side] # Null
               PROVE  Decided(Decider(m))
    BY DEF Fed
  <2>1. SourceRound(g.on) = 1 /\ HasBye(<<1, m[2]>>)
    BY <1>1, <1>3, <1>4, <1>13, EntryFacts
  <2>2. TieOf(m) = <<1, m[2]>> BY <1>13, <2>1 DEF TieOf
  <2>3. Decided(m) /\ ~FirstOfTwo(m) BY <1>8, <2>1, <2>2
  <2> QED BY <1>4, <2>3, TieDecider
<1>15. ASSUME NEW m \in Match, Decided(m), NEW g \in WinnerTo(m)
       PROVE  In(g.on, g.side, match[m].winner)
  <2>1. g \in Goals(m) BY DEF Goals
  <2>2. HasBye(TieOf(m)) BY <1>9, <1>15
  <2>3. m[1] = 1 /\ match[m].winner = Free(m[2]) /\ TieOf(m) = <<1, m[2]>> BY <1>8, <2>2 DEF TieOf
  <2>4. g.on[1] = 2 BY <1>4, <2>3 DEF Shape
  <2>5. match[g.on][g.side] = Free(m[2])
    BY <1>1, <1>3, <1>4, <1>13, <2>1, <2>2, <2>3, <2>4, EntryFacts
  <2>6. FirstOfTwo(g.on) => match[SecondLeg(g.on)][Other(g.side)] = Free(m[2])
    <3> HAVE FirstOfTwo(g.on)
    <3>1. /\ SecondLeg(g.on) \in Match /\ SecondLeg(g.on)[3] = 2 /\ FirstLeg(SecondLeg(g.on)) = g.on
      BY <1>4, <1>13, <2>1, Legs
    <3>2. Other(g.side) \in HomeAway /\ Other(Other(g.side)) = g.side BY <1>13, <2>1, Sides
    <3> QED BY <1>4, <1>12, <2>5, <3>1, <3>2, Mirror
  <2> QED BY <2>3, <2>5, <2>6 DEF In
<1>16. PICK T : T = <<>> OBVIOUS
<1>17. DOMAIN T = {} /\ Len(T) = 0 BY <1>16
<1>18. Carried(T) BY <1>7, <1>8, <1>9, <1>15 DEF Carried
<1>19. SecondFirst(T)
  <2>1. \A k \in Match : k[3] = 2 => match[k].status = "SCHEDULED" BY <1>4, <1>9 DEF Shape
  <2> QED BY <2>1 DEF SecondFirst
<1>20. GoodSteps(T) BY <1>17 DEF GoodSteps
<1>21. Covered(T) BY <1>1 DEF Covered, Stranding
<1>22. ~AllDecided
  <2> SUFFICES ASSUME Decided(Final) PROVE FALSE BY DEF AllDecided
  <2>1. PICK f \in Match : f = Final BY <1>4 DEF Shape
  <2>2. HasBye(TieOf(f)) BY <1>9, <2>1
  <2>3. f[1] = 1 BY <1>8, <2>2
  <2>4. Rounds = 1 /\ f[2] = 1 BY <2>1, <2>3 DEF Final
  <2>5. \A i \in DOMAIN setup.slots : setup.slots[i] # Null BY <1>1, <2>4 DEF OneByOne, Rounds
  <2>6. <<1, 1>> \in Ties /\ TieOf(f) = <<1, 1>>
    <3>1. 1 \in 1..Rounds /\ 1 \in 1..Len(setup.slots) /\ 2 ^ (Rounds - 1) \in 1..Len(setup.slots)
      BY <1>1, <2>4, Sizes
    <3>2. PICK h : h = 2 ^ (Rounds - 1) OBVIOUS
    <3>3. 1 <= h BY <3>1, <3>2
    <3>4. <<1, 1>> \in Ties BY <3>1, <3>2, <3>3, TiesAre
    <3> QED BY <2>3, <2>4, <3>4 DEF TieOf
  <2>7. PICK a : a = setup.slots[2 * 1 - 1] OBVIOUS
  <2>8. PICK b : b = setup.slots[2 * 1] OBVIOUS
  <2>9. a = Null \/ b = Null
    <3>1. 1 \in Nat \ {0} OBVIOUS
    <3> QED BY <1>1, <2>2, <2>6, <2>7, <2>8, <3>1, PairIs
  <2>10. 2 * 1 - 1 \in DOMAIN setup.slots /\ 2 * 1 \in DOMAIN setup.slots
    <3>1. DOMAIN setup.slots = 1..Len(setup.slots) /\ Len(setup.slots) \in 2..16 BY <1>1, SetupFacts, Sizes
    <3>2. 1 \in 1..Len(setup.slots) /\ 2 \in 1..Len(setup.slots)
      <4>1. PICK n \in 2..16 : n = Len(setup.slots) BY <3>1
      <4>2. 1 \in 1..n /\ 2 \in 1..n OBVIOUS
      <4> QED BY <4>1, <4>2
    <3>3. 2 * 1 - 1 = 1 /\ 2 * 1 = 2 OBVIOUS
    <3> QED BY ONLY <3>1, <3>2, <3>3, Zenon
  <2> QED BY <2>5, <2>7, <2>8, <2>9, <2>10
<1>23. Ending(T) BY <1>1, <1>22 DEF Ending
<1>24. InStep(T) BY <1>12, <1>14, <1>18, <1>19, <1>20, <1>21, <1>23 DEF InStep
<1>25. Todo = T
  <2>1. \A s \in Slot : request[s] = Idle BY DEF Init
  <2> QED BY <1>16, <2>1 DEF Todo
<1>26. Alone
  <2>1. request = [s \in Slot |-> Idle] BY DEF Init
  <2>2. \A s \in Slot : request[s] = Idle BY <2>1
  <2>3. request = [s \in Slot |-> request[s]] BY <2>1
  <2> QED BY <2>2, <2>3 DEF Alone
<1>27. Others BY DEF Init, Others
<1> QED BY <1>24, <1>25, <1>26, <1>27 DEF KnockoutInv

-----------------------------------------------------------------------------
(* Every step *)

LEMMA NextKeeps ==
  ASSUME OneByOne, KnockoutInv, [Next]_vars
  PROVE  KnockoutInv'
<1>1. ASSUME NEW s \in Slot, Step(s) PROVE KnockoutInv'
  <2>1. CASE SaveMatch(s) BY <2>1, SaveMatchKeeps
  <2>2. CASE PlaceTeam(s) BY <2>2, PlaceTeamKeeps
  <2>3. CASE MaybeWalkover(s) BY <2>3, MaybeWalkoverKeeps
  <2>4. CASE LookForEnd(s) BY <2>4, LookForEndKeeps
  <2>5. CASE Complete(s) BY <2>5, CompleteKeeps
  <2>6. CASE WithdrawTeam(s) BY <2>6, WithdrawTeamKeeps
  <2>7. CASE FindPending(s) BY <2>7, FindPendingKeeps
  <2> QED BY <1>1, <2>1, <2>2, <2>3, <2>4, <2>5, <2>6, <2>7 DEF Step
<1>2. ASSUME NEW s \in Slot, NEW m \in Match, RecordFirstLeg(s, m) \/ RecordScore(s, m) \/ RecordForfeit(s, m)
      PROVE  KnockoutInv'
  BY <1>2, RecordFirstLegKeeps, RecordKeeps
<1>3. ASSUME NEW s \in Slot, NEW x \in Team, WithdrawRead(s, x) PROVE KnockoutInv'
  BY <1>3, WithdrawReadKeeps
<1>4. CASE Cancel BY <1>4, CancelKeeps
<1>5. CASE UNCHANGED vars BY <1>5, StutterKeeps
<1> QED BY <1>1, <1>2, <1>3, <1>4, <1>5 DEF Next

\* The rows of the bracket are what their legs are for, whoever has won has gone on or is
\* about to, and every tie a withdrawn team could play is about to be looked at: so it is
\* when the bracket is drawn up, and no step of any request leaves it otherwise.
THEOREM Knocks ==
  ASSUME OneByOne
  PROVE  Spec => []KnockoutInv
<1>1. Init => KnockoutInv BY InitHolds
<1>2. KnockoutInv /\ [Next]_vars => KnockoutInv' BY NextKeeps
<1> QED BY <1>1, <1>2, PTL DEF Spec

-----------------------------------------------------------------------------
(* Between requests *)

LEMMA QuietTodo ==
  ASSUME KnockoutInv, Quiet
  PROVE  /\ Rows /\ Fed /\ Carried(<<>>) /\ Covered(<<>>) /\ Ending(<<>>) /\ SecondFirst(<<>>)
         /\ Shape /\ setup \in Setup /\ Others
<1>1. Todo = <<>> BY DEF Quiet, Todo
<1> QED BY <1>1, Known

LEMMA InvTypes ==
  ASSUME KnockoutInv
  PROVE  TypeOK
<1>1. Others /\ Rows /\ Shape BY Known
<1>2. \A m \in Match : match[m] \in MatchRow BY <1>1, RowTypes
<1>3. \A m \in Match : Decided(m) => match[m].winner \in TeamsOf(m) BY <1>1, RowFacts
<1> QED BY <1>1, <1>2, <1>3 DEF TypeOK, Others

\* decideTie and placeTeam: between requests whoever has won a tie is in the next one, in
\* both its legs, and whoever has lost a semi-final is in the match for third, after any
\* number of corrections, forfeits and walkovers.
THEOREM TheyAdvance ==
  ASSUME OneByOne
  PROVE  Spec => []WinnersAdvance
<1>1. KnockoutInv => WinnersAdvance
  <2> HAVE KnockoutInv
  <2>1. TypeOK BY InvTypes
  <2>2. Quiet => \A m \in Match : Decided(m) =>
       /\ \A g \in WinnerTo(m) : In(g.on, g.side, match[m].winner)
       /\ \A g \in LoserTo(m) : ~match[m].isBye => In(g.on, g.side, LoserOf(m))
    <3> HAVE Quiet
    <3>1. Carried(<<>>) BY QuietTodo
    <3>2. \A step : ~Doing(<<>>, step)
      <4>1. DOMAIN <<>> = {} OBVIOUS
      <4> QED BY <4>1 DEF Doing
    <3> QED BY <3>1, <3>2 DEF Carried
  <2> QED BY <2>1, <2>2 DEF WinnersAdvance
<1> QED BY <1>1, Knocks, PTL

\* afterKnockoutResult: between requests a tournament that was not cancelled is over exactly
\* when its last matches are decided, and its placements are those of the matches as they
\* stand, after the last correction too.
THEOREM PlacementsFollow ==
  ASSUME OneByOne
  PROVE  Spec => []PlacementsCurrent
<1>1. KnockoutInv => PlacementsCurrent
  <2> SUFFICES ASSUME KnockoutInv, Quiet, status # "CANCELLED"
               PROVE  /\ status = "COMPLETED" <=> AllDecided
                      /\ status = "COMPLETED" => placements = Placing
    BY DEF PlacementsCurrent, AllDecided
  <2>1. Ending(<<>>) BY QuietTodo
  <2>2. ~\E i \in DOMAIN <<>> : <<>>[i].do \in {"after", "complete"} OBVIOUS
  <2> QED BY <2>1, <2>2 DEF Ending
<1> QED BY <1>1, Knocks, PTL

LEMMA NoByeSemis ==
  ASSUME OneByOne, setup \in Setup, Match = Board, Shape, Rows, ThirdMatch \in Match,
         NEW m \in Match, m[1] = Rounds - 1
  PROVE  ~match[m].isBye
<1> SUFFICES ASSUME match[m].isBye PROVE FALSE OBVIOUS
<1>1. m[1] = 1 /\ m[3] = 1 /\ HasBye(TieOf(m)) BY RowFacts DEF Rows, RowSound
<1>2. Rounds = 2 /\ m[2] \in Nat \ {0}
  <2>1. Rounds \in 1..4 BY DEF Shape
  <2> QED BY <1>1, <2>1 DEF Shape
<1>3. setup.third
  <2>1. TieOf(ThirdMatch) \notin Ties
    <3>1. TieOf(ThirdMatch) = <<3, 1>> BY <1>2 DEF TieOf, ThirdMatch
    <3>2. 3 \notin 1..Rounds BY <1>2
    <3> QED BY <3>1, <3>2, TiesAre
  <2> QED BY <2>1, BoardIs
<1>4. \A i \in DOMAIN setup.slots : setup.slots[i] # Null BY <1>2, <1>3 DEF OneByOne, Rounds
<1>5. <<1, m[2]>> \in Ties /\ TieOf(m) = <<1, m[2]>>
  <2>1. m # ThirdMatch
    <3>1. ThirdMatch[1] = 3 BY <1>2 DEF ThirdMatch
    <3> QED BY <1>1, <3>1
  <2>2. TieOf(m) \in Ties BY <2>1, BoardIs
  <2> QED BY <1>1, <2>2 DEF TieOf
<1>6. PICK a : a = setup.slots[2 * m[2] - 1] OBVIOUS
<1>7. PICK b : b = setup.slots[2 * m[2]] OBVIOUS
<1>8. a = Null \/ b = Null BY <1>1, <1>2, <1>5, <1>6, <1>7, PairIs
<1>9. 2 * m[2] - 1 \in DOMAIN setup.slots /\ 2 * m[2] \in DOMAIN setup.slots
  <2>1. m[2] <= 2 ^ (Rounds - 1) BY <1>5, TiesAre
  <2>2. PICK h : h = 2 ^ (Rounds - 1) OBVIOUS
  <2>3. 2 * h = Len(setup.slots) BY <2>2, Sizes
  <2>4. h \in 1..Len(setup.slots) /\ Len(setup.slots) \in 2..16
    <3>1. 1 \in 1..Rounds BY <1>2
    <3> QED BY <2>2, <3>1, Sizes
  <2>5. 2 * m[2] - 1 \in 1..Len(setup.slots) /\ 2 * m[2] \in 1..Len(setup.slots)
    <3>1. PICK n \in Nat \ {0} : n = m[2] BY <1>2
    <3>2. PICK l \in 2..16 : l = Len(setup.slots) BY <2>4
    <3>3. n <= h /\ 2 * h = l /\ h \in 1..l BY <2>1, <2>2, <2>3, <2>4, <3>1, <3>2
    <3>4. 2 * n - 1 \in 1..l /\ 2 * n \in 1..l BY ONLY <3>1, <3>2, <3>3
    <3> QED BY <3>1, <3>2, <3>4
  <2> QED BY <2>5, SetupFacts
<1> QED BY <1>4, <1>6, <1>7, <1>8, <1>9

\* An undecided tie that both its teams have come to can be played.
LEMMA FullTieReady ==
  ASSUME Shape, Rows, NEW k \in Match, ~Decided(Decider(k)), Null \notin TeamsOf(FirstLeg(k))
  PROVE  \E m \in Match : Ready(m)
<1>1. PICK d \in Match : d = Decider(k) BY TieDecider
<1>2. ~FirstOfTwo(d) /\ TieOf(d) = TieOf(k) BY <1>1, TieDecider
<1>3. match[d].status = "SCHEDULED" BY <1>1, <1>2, RowFacts
<1>4. Null \notin TeamsOf(d)
  <2>1. FirstLeg(d) = FirstLeg(k) BY <1>2, SameTie
  <2>2. CASE d[3] = 1
    <3>1. d = FirstLeg(d) BY <2>2, Legs
    <3> QED BY <2>1, <3>1
  <2>3. CASE d[3] = 2
    <3>1. TeamsOf(d) = TeamsOf(FirstLeg(d)) BY <2>3, Mirror
    <3> QED BY <2>1, <3>1
  <2> QED BY <2>2, <2>3, Legs
<1> QED BY <1>3, <1>4 DEF Ready

\* All is decided that leads to k: then both its teams have come.
LEMMA Filling ==
  ASSUME OneByOne, KnockoutInv, Quiet, NEW k \in Match, k[1] # 1,
         \A m \in Match : m[1] < k[1] => Decided(Decider(m))
  PROVE  Null \notin TeamsOf(FirstLeg(k))
<1>1. /\ Rows /\ Fed /\ Carried(<<>>) /\ Shape /\ setup \in Setup
  BY QuietTodo
<1>2. FirstLeg(k) \in Match /\ k[1] >= 2 /\ k[1] \in 1..Rounds + 1 /\ Rounds \in 1..4
  <2>1. FirstLeg(k) \in Match /\ k[1] \in 1..Rounds + 1 /\ Rounds \in 1..4 BY <1>1 DEF Shape
  <2> QED BY <2>1
<1>3. \A step : ~Doing(<<>>, step)
  <2>1. DOMAIN <<>> = {} OBVIOUS
  <2> QED BY <2>1 DEF Doing
<1>4. ASSUME NEW side \in HomeAway PROVE match[FirstLeg(k)][side] # Null
  <2>1. PICK m \in Match :
          \/ k[1] <= Rounds /\ WinnerTo(m) = {[on |-> FirstLeg(k), side |-> side]}
          \/ k = ThirdMatch /\ LoserTo(m) = {[on |-> ThirdMatch, side |-> side]}
    BY <1>1, <1>2 DEF Shape
  <2>2. PICK d \in Match : d = Decider(m) BY <1>1, TieDecider
  <2>3. TieOf(d) = TieOf(m) BY <1>1, <2>2, TieDecider
  <2>4. WinnerTo(d) = WinnerTo(m) /\ LoserTo(d) = LoserTo(m) /\ d[1] = m[1] BY <1>1, <2>3, SameTie
  <2>5. CASE k[1] <= Rounds /\ WinnerTo(m) = {[on |-> FirstLeg(k), side |-> side]}
    <3>1. PICK g \in WinnerTo(d) : g.on = FirstLeg(k) /\ g.side = side BY <2>4, <2>5
    <3>2. m[1] < k[1]
      <4>1. g.on[1] = m[1] + 1 /\ m[1] \in 1..Rounds + 1 BY <1>1, <2>4, <3>1 DEF Shape
      <4>2. g.on[1] = k[1] BY <3>1 DEF FirstLeg
      <4> QED BY <1>2, <4>1, <4>2
    <3>3. Decided(d) BY <2>2, <3>2
    <3>4. In(g.on, g.side, match[d].winner) BY <1>1, <1>3, <3>3 DEF Carried
    <3>5. match[d].winner # Null BY <3>3 DEF Decided
    <3> QED BY <3>1, <3>4, <3>5 DEF In
  <2>6. CASE k = ThirdMatch /\ LoserTo(m) = {[on |-> ThirdMatch, side |-> side]}
    <3>1. PICK g \in LoserTo(d) : g.on = ThirdMatch /\ g.side = side BY <2>4, <2>6
    <3>2. m[1] = Rounds - 1 BY <1>1, <2>4, <3>1 DEF Shape
    <3>3. k[1] = Rounds + 1 /\ FirstLeg(k) = k BY <2>6 DEF ThirdMatch, FirstLeg
    <3>4. Decided(d) BY <1>2, <2>2, <3>2, <3>3
    <3>5. ~match[d].isBye
      <4>1. Match = Board BY <1>1, RowTypes
      <4> QED BY <1>1, <2>4, <2>6, <3>2, <4>1, NoByeSemis
    <3>6. In(g.on, g.side, LoserOf(d)) BY <1>1, <1>3, <3>4, <3>5 DEF Carried
    <3>7. LoserOf(d) # Null
      <4>1. Null \notin TeamsOf(d) BY <1>1, <3>4, <3>5, RowFacts
      <4> QED BY <4>1 DEF LoserOf, TeamsOf
    <3> QED BY <2>6, <3>1, <3>3, <3>6, <3>7 DEF In
  <2> QED BY <2>1, <2>5, <2>6
<1> QED BY <1>1, <1>2, <1>4, RowTypes, Sides

\* A round with an undecided tie, all before it decided, has a match to play.
LEMMA RoundReady ==
  ASSUME OneByOne, KnockoutInv, Quiet, NEW k \in Match, ~Decided(Decider(k)),
         \A m \in Match : m[1] < k[1] => Decided(Decider(m))
  PROVE  \E m \in Match : Ready(m)
<1>1. Rows /\ Shape /\ setup \in Setup BY QuietTodo
<1>2. Null \notin TeamsOf(FirstLeg(k))
  <2>1. CASE k[1] # 1 BY <2>1, Filling
  <2>2. CASE k[1] = 1
    <3>1. PICK f \in Match : f = FirstLeg(k) BY <1>1, Legs
    <3>2. f[1] = 1 /\ f[3] = 1 /\ TieOf(f) = TieOf(k) BY <2>2, <3>1 DEF FirstLeg, TieOf
    <3>3. ~match[f].isBye
      <4> SUFFICES ASSUME match[f].isBye PROVE FALSE OBVIOUS
      <4>1. Decided(f) /\ Decider(f) = f BY <1>1, RowFacts
      <4>2. Decider(k) = Decider(f) BY <1>1, <3>2, SameTie
      <4> QED BY <4>1, <4>2
    <3>4. RowSound(f) BY <1>1 DEF Rows
    <3> QED BY <3>1, <3>2, <3>3, <3>4 DEF RowSound
  <2> QED BY <2>1, <2>2
<1> QED BY <1>1, <1>2, FullTieReady

\* Some round is the first with an undecided tie.
LEMMA FirstRound ==
  ASSUME OneByOne, KnockoutInv, Quiet, NEW k \in Match, ~Decided(Decider(k))
  PROVE  \E m \in Match : Ready(m)
<1>1. Shape BY QuietTodo
<1>2. \A m \in Match : m[1] \in 1..5
  <2> TAKE m \in Match
  <2>1. m[1] \in 1..Rounds + 1 /\ Rounds \in 1..4 BY <1>1 DEF Shape
  <2> QED BY <2>1
<1> DEFINE Done(n) == \A m \in Match : m[1] < n => Decided(Decider(m))
<1>3. ASSUME NEW n \in 1..5, Done(n), ~Done(n + 1) PROVE \E m \in Match : Ready(m)
  <2>1. PICK j \in Match : j[1] < n + 1 /\ ~Decided(Decider(j)) BY <1>3
  <2>2. ~(j[1] < n) BY <1>3, <2>1
  <2>3. j[1] = n BY <1>2, <2>1, <2>2
  <2> QED BY <1>3, <2>1, <2>3, RoundReady
<1>4. Done(1)
  <2>1. \A m \in Match : ~(m[1] < 1) BY <1>2
  <2> QED BY <2>1
<1>5. ~Done(6)
  <2>1. k[1] < 6 BY <1>2
  <2> QED BY <2>1
<1> HIDE DEF Done
<1>6. 1 + 1 = 2 /\ 2 + 1 = 3 /\ 3 + 1 = 4 /\ 4 + 1 = 5 /\ 5 + 1 = 6 OBVIOUS
<1>7. 1 \in 1..5 /\ 2 \in 1..5 /\ 3 \in 1..5 /\ 4 \in 1..5 /\ 5 \in 1..5 OBVIOUS
<1> QED BY <1>3, <1>4, <1>5, <1>6, <1>7

\* decideTie with afterKnockoutResult: between requests a tournament that goes on has a tie
\* with both its teams and no result: nobody waits for a match that cannot be played.
THEOREM AlwaysAMatch ==
  ASSUME OneByOne
  PROVE  Spec => []SomethingToPlay
<1>1. KnockoutInv => SomethingToPlay
  <2> SUFFICES ASSUME KnockoutInv, Quiet, status = "KNOCKOUT_IN_PROGRESS"
               PROVE  \E m \in Match : Ready(m)
    BY DEF SomethingToPlay
  <2>1. Ending(<<>>) /\ Shape /\ Rows BY QuietTodo
  <2>2. ~\E i \in DOMAIN <<>> : <<>>[i].do \in {"after", "complete"} OBVIOUS
  <2>3. ~AllDecided BY <2>1, <2>2 DEF Ending
  <2>4. PICK k \in Match : ~Decided(k) /\ k[1] >= Rounds
    <3>1. Rounds \in 1..4 /\ Final[1] = Rounds /\ ThirdMatch[1] = Rounds + 1 BY <2>1 DEF Shape, Final, ThirdMatch
    <3> QED BY <2>1, <2>3, <3>1 DEF AllDecided, WithThird, Shape
  <2>5. ~FirstOfTwo(k)
    <3> SUFFICES ASSUME FirstOfTwo(k) PROVE FALSE OBVIOUS
    <3>1. SecondLeg(k) \in Match /\ SecondLeg(k)[3] = 2 /\ SecondLeg(k)[1] = k[1] BY <2>1, Legs DEF SecondLeg
    <3>2. k[1] < Rounds /\ Rounds \in 1..4 /\ k[1] \in 1..Rounds + 1 BY <2>1, <3>1 DEF Shape
    <3> QED BY <2>4, <3>2
  <2>6. Decider(k) = k BY <2>1, <2>5, TieDecider
  <2> QED BY <2>4, <2>6, FirstRound
<1> QED BY <1>1, Knocks, PTL

-----------------------------------------------------------------------------
(* No step touches a result that is locked *)

LEMMA SavedAgain ==
  ASSUME NEW row \in MatchRow, NEW r,
         row.status = "COMPLETED", row.homeGoals = r.homeGoals, row.awayGoals = r.awayGoals,
         row.forfeit = r.forfeit, row.winner = r.winner
  PROVE  SavedRow(row, r) = row
<1>1. PICK h : h = r.homeGoals OBVIOUS
<1>2. PICK a : a = r.awayGoals OBVIOUS
<1>3. PICK f : f = r.forfeit OBVIOUS
<1>4. PICK w : w = IF r.winner # Null THEN r.winner ELSE row.winner OBVIOUS
<1>5. row = [home |-> row.home, away |-> row.away, status |-> row.status, isBye |-> row.isBye,
             homeGoals |-> row.homeGoals, awayGoals |-> row.awayGoals, forfeit |-> row.forfeit, winner |-> row.winner]
  BY DEF MatchRow
<1>6. SavedRow(row, r) = [row EXCEPT !.homeGoals = h, !.awayGoals = a, !.forfeit = f, !.status = "COMPLETED", !.winner = w]
  BY <1>1, <1>2, <1>3, <1>4 DEF SavedRow
<1>7. row.status = "COMPLETED" /\ row.homeGoals = h /\ row.awayGoals = a /\ row.forfeit = f /\ row.winner = w
  BY <1>1, <1>2, <1>3, <1>4
<1> QED BY <1>5, <1>6, <1>7

LEMMA SaveMatchLocks ==
  ASSUME OneByOne, KnockoutInv, NEW s \in Slot, SaveMatch(s), NEW m \in Match, Locked(m)
  PROVE  match'[m] = match[m]
<1>1. PICK T : T = Todo OBVIOUS
<1>2. PICK r : r = Next1(s) OBVIOUS
<1>3. AtStep(s, "save") /\ setup' = setup /\ match' = [match EXCEPT ![r.on] = SavedRow(@, r)]
  BY <1>2 DEF SaveMatch
<1>4. /\ Shape /\ Rows /\ r = T[1] /\ r.do = "save" /\ r \in AnyStep /\ GoodStep(T, 1)
  BY <1>1, <1>2, <1>3, Known, InHand
<1>5. r \in SaveStep /\ r.on \in Match /\ GoodSave(T, r, 1) BY <1>4, StepKinds DEF GoodStep
<1>6. Saved(r) BY <1>3, <1>4, <1>5, SaveSaves
<1>7. CASE m # r.on BY <1>6, <1>7 DEF Saved
<1>8. CASE m = r.on
  <2>1. Decided(m) /\ ~match[m].isBye /\ ~FirstOfTwo(m)
    BY <1>4, RowFacts DEF Locked
  <2>2. PICK g \in Goals(m) : \/ match[g.on].status = "COMPLETED"
                              \/ FirstOfTwo(g.on) /\ match[SecondLeg(g.on)].status = "COMPLETED"
    BY DEF Locked, Goals
  <2>3. g.on \in Match /\ g.on[1] # 1 /\ g.on = FirstLeg(g.on) BY <1>4, GoalOn
  <2>4. ~NextUnplayed(m)
    <3>1. ~match[g.on].isBye BY <1>4, <2>3, RowFacts
    <3>2. CASE match[g.on].status = "COMPLETED" BY <2>3, <3>1, <3>2 DEF NextUnplayed, Goals
    <3>3. CASE FirstOfTwo(g.on) /\ match[SecondLeg(g.on)].status = "COMPLETED"
      <4>1. SecondLeg(g.on) \in Match /\ SecondLeg(g.on)[3] = 2 /\ TieOf(SecondLeg(g.on)) = TieOf(g.on)
        BY <1>4, <2>3, <3>3, Legs
      <4>2. ~match[SecondLeg(g.on)].isBye BY <1>4, <4>1, RowFacts
      <4> QED BY <3>3, <4>1, <4>2 DEF NextUnplayed, Goals
    <3> QED BY <2>2, <3>2, <3>3
  <2>5. Repeats(r) BY <1>5, <1>8, <2>1, <2>4 DEF GoodSave
  <2>6. match[m] \in MatchRow BY <1>4, RowTypes
  <2>7. SavedRow(match[m], r) = match[m] BY <1>8, <2>5, <2>6, SavedAgain DEF Repeats
  <2>8. match = [k \in Match |-> match[k]] BY <1>4, RowTypes
  <2> QED BY <1>3, <1>8, <2>7, <2>8
<1> QED BY <1>7, <1>8

LEMMA PlaceTeamLocks ==
  ASSUME OneByOne, KnockoutInv, NEW s \in Slot, PlaceTeam(s), NEW m \in Match, Decided(m)
  PROVE  match'[m] = match[m]
<1>1. PICK T : T = Todo OBVIOUS
<1>2. PICK p : p = Next1(s) OBVIOUS
<1>3. /\ AtStep(s, "place") /\ setup' = setup
      /\ match' = [k \in Match |->
           IF k = p.on THEN WithSide(match[k], p.side, p.team)
           ELSE IF FirstOfTwo(p.on) /\ k = SecondLeg(p.on)
           THEN WithSide(match[k], Other(p.side), p.team)
           ELSE match[k]]
  BY <1>2 DEF PlaceTeam, WithSide
<1>4. /\ Shape /\ setup \in Setup /\ Rows /\ p = T[1] /\ p.do = "place" /\ p \in AnyStep /\ GoodStep(T, 1)
  BY <1>1, <1>2, <1>3, Known, InHand
<1>5. p \in PlaceStep /\ p.on \in Match /\ GoodPlace(T, p, 1) /\ p.side \in HomeAway /\ p.team \in Team
  BY <1>4, StepKinds DEF GoodStep, PlaceStep
<1>6. p.on[3] = 1 BY <1>4, <1>5, PlacedFrom
<1>7. CASE In(p.on, p.side, p.team)
  <2>1. match[m] \in MatchRow BY <1>4, RowTypes
  <2>2. match[m][p.side] = p.team => WithSide(match[m], p.side, p.team) = match[m] BY <1>5, <2>1, SameSide
  <2>3. match[m][Other(p.side)] = p.team => WithSide(match[m], Other(p.side), p.team) = match[m]
    <3>1. Other(p.side) \in HomeAway BY <1>5, Sides
    <3> QED BY <2>1, <3>1, SameSide
  <2>4. match[p.on][p.side] = p.team /\ (FirstOfTwo(p.on) => match[SecondLeg(p.on)][Other(p.side)] = p.team)
    BY <1>7 DEF In
  <2> QED BY <1>3, <2>2, <2>3, <2>4
<1>8. CASE ~In(p.on, p.side, p.team)
  <2>1. Open(p.on) BY <1>5, <1>8 DEF GoodPlace
  <2>2. Filled(p) BY <1>3, <1>4, <1>5, <1>6, PlaceFills
  <2> QED BY <1>4, <1>5, <1>6, <2>1, <2>2, FilledKeeps
<1> QED BY <1>7, <1>8

LEMMA StepLocks ==
  ASSUME OneByOne, KnockoutInv, [Next]_vars
  PROVE  CancelledStays /\ \A m \in Match : Locked(m) => match'[m] = match[m]
<1>1. CancelledStays
  <2>1. CASE \E s \in Slot : Complete(s) BY <2>1 DEF Complete, CancelledStays
  <2>2. CASE Cancel BY <2>2 DEF Cancel, CancelledStays
  <2>3. CASE UNCHANGED <<status, placements>> BY <2>3 DEF CancelledStays
  <2>4. \A s \in Slot :
          SaveMatch(s) \/ PlaceTeam(s) \/ MaybeWalkover(s) \/ LookForEnd(s) \/ WithdrawTeam(s) \/ FindPending(s)
            => UNCHANGED <<status, placements>>
    BY DEF SaveMatch, PlaceTeam, MaybeWalkover, LookForEnd, WithdrawTeam, FindPending
  <2>5. \A s \in Slot : /\ \A m \in Match : RecordFirstLeg(s, m) \/ RecordScore(s, m) \/ RecordForfeit(s, m)
                             => UNCHANGED <<status, placements>>
                        /\ \A x \in Team : WithdrawRead(s, x) => UNCHANGED <<status, placements>>
    <3>1. \A s, who, steps : Begin(s, who, steps) => UNCHANGED <<status, placements>> BY DEF Begin
    <3> QED BY <3>1 DEF RecordFirstLeg, RecordScore, RecordForfeit, WithdrawRead
  <2>6. CASE UNCHANGED vars BY <2>3, <2>6 DEF vars
  <2> QED BY <2>1, <2>2, <2>3, <2>4, <2>5, <2>6 DEF Next, Step
<1>2. ASSUME NEW m \in Match, Locked(m) PROVE match'[m] = match[m]
  <2>1. Decided(m) BY <1>2 DEF Locked
  <2>2. \A s \in Slot : SaveMatch(s) \/ PlaceTeam(s) => match'[m] = match[m]
    BY <1>2, <2>1, SaveMatchLocks, PlaceTeamLocks
  <2>3. \A s \in Slot :
          MaybeWalkover(s) \/ LookForEnd(s) \/ Complete(s) \/ WithdrawTeam(s) \/ FindPending(s) => match' = match
    BY DEF MaybeWalkover, LookForEnd, Complete, WithdrawTeam, FindPending
  <2>4. \A s \in Slot : /\ \A k \in Match : RecordFirstLeg(s, k) \/ RecordScore(s, k) \/ RecordForfeit(s, k)
                             => match' = match
                        /\ \A x \in Team : WithdrawRead(s, x) => match' = match
    <3>1. \A s, who, steps : Begin(s, who, steps) => match' = match BY DEF Begin
    <3> QED BY <3>1 DEF RecordFirstLeg, RecordScore, RecordForfeit, WithdrawRead
  <2>5. Cancel \/ UNCHANGED vars => match' = match BY DEF Cancel, vars
  <2> QED BY <2>2, <2>3, <2>4, <2>5 DEF Next, Step
<1> QED BY <1>1, <1>2

\* assertNextUnplayed, decideTie, placeTeam and setStatus: no step changes a result below a
\* match that is played - one that is saved again says what is there - and nothing
\* that was under way completes a tournament that has been cancelled.
THEOREM LockedResultsStay ==
  ASSUME OneByOne
  PROVE  Spec => ResultsLocked
<1>1. KnockoutInv /\ [Next]_vars => [CancelledStays /\ \A m \in Match : Locked(m) => match'[m] = match[m]]_vars
  BY StepLocks
<1> QED BY <1>1, Knocks, PTL DEF Spec, ResultsLocked
=============================================================================
