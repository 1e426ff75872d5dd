----------------------------- MODULE MCKnockout -----------------------------
(***************************************************************************)
(* Small brackets for KnockoutBracket.                                     *)
(***************************************************************************)
EXTENDS KnockoutBracket

CONSTANTS t1, t2, t3, t4, t5

\* Two semi-finals, a final and a match for third.
FourAndThird ==
  [slots |-> <<t1, t4, t2, t3>>, rounds |-> 2, legs |-> 1, third |-> TRUE,
   requests |-> 2, withdrawals |-> 2]

\* Five teams: three byes, one of them laid out below its empty place.
ThreeByes ==
  [slots |-> <<t1, Null, t4, t5, t2, Null, Null, t3>>, rounds |-> 3, legs |-> 1,
   third |-> FALSE, requests |-> 2, withdrawals |-> 2]

\* The same with two legs up to the final, for one request and one withdrawal.
ThreeByesTwoLegs == [ThreeByes EXCEPT !.legs = 2, !.requests = 1, !.withdrawals = 1]

Brackets == {FourAndThird, ThreeByes, ThreeByesTwoLegs}

\* The home team wins by a goal: the away team wins by a forfeit, on penalties
\* or over two legs.
OneGoal == {<<1, 0>>}

=============================================================================
