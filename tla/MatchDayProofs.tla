--------------------------- MODULE MatchDayProofs ---------------------------
(***************************************************************************)
(* Theorems about the parts of MatchDay: an event's teams (EventTeams) and *)
(* what surrounds its match, for every number of users, events, photos,    *)
(* players and requests in flight.  The parts share no state: each has its *)
(* own argument, and at the end what is proved of a part is carried to the *)
(* behaviours of MatchDay that are about it.                               *)
(*                                                                         *)
(* Likes.  The counter and the counts on their way, against the rows and   *)
(* the decrements on theirs: never short (CountersCover), and exact where  *)
(* no like and unlike of one user have overlapped (CountersExact).         *)
(*                                                                         *)
(* Ratings.  Rosters change after a check, but what it found has been so   *)
(* (Remembered): the invariant says Earned of rows written and of rows to  *)
(* be written, of a past that only grows.                                  *)
(*                                                                         *)
(* Photos.  A row has its file because a file goes only after its row:     *)
(* what is being swept has no row (Sweeping), and what is being inserted   *)
(* is nobody else's (Inserting).                                           *)
(*                                                                         *)
(* Aftermath.  A request of the MVP says how far it is (Reached) and what  *)
(* the result it carries differs in (Carries); a move to done goes by a    *)
(* score that no request is about to change (Deciding).                    *)
(*                                                                         *)
(* Teams.  Rows and squads tell of each other (RowsTell), and a shuffle in *)
(* flight knows what it has built (Shuffling): empty teams with room for   *)
(* all it read (ReadyToDeal), then squads to be written one by one, which  *)
(* share nobody and leave nobody out (ReadyToAssign).                      *)
(***************************************************************************)
EXTENDS MatchDay, FiniteSetTheorems, TLAPS

-----------------------------------------------------------------------------
(* Likes and ratings: what they rely on *)

\* The requests r of one kind about event e.
About(r, op, e) == {s \in Slot : r[s].op = op /\ r[s].e = e}

RatingShapes ==
  /\ stage = [e \in Event |-> stage[e]]
  /\ attending = [e \in Event |-> attending[e]]
  /\ there = [e \in Event |-> there[e]]
  /\ together = [e \in Event |-> together[e]]
  /\ like = [e \in Event |-> like[e]]
  /\ likeCount = [e \in Event |-> likeCount[e]]
  /\ rated = [s \in Slot |-> rated[s]]
  /\ \A s \in Slot :
       \/ rated[s].op = "idle" /\ rated[s] = [op |-> "idle"]
       \/ rated[s].op \in {"count", "uncount"} /\ rated[s].e \in Event
       \/ rated[s].op \in {"vet", "rate"}

\* The counter, with the counts on their way, is never short of the rows.
CountersCover ==
  \A e \in Event :
    /\ IsFiniteSet(like[e]) /\ likeCount[e] \in Nat
    /\ likeCount[e] + Cardinality(About(rated, "count", e))
         >= Cardinality(like[e]) + Cardinality(About(rated, "uncount", e))

\* Where no like and unlike of one user have overlapped, it is exact: each count on
\* its way is of a user of its own, who has a row or has none as it says.
CountersExact ==
  \A e \in Event : e \notin overlap =>
    /\ likeCount[e] + Cardinality(About(rated, "count", e))
         = Cardinality(like[e]) + Cardinality(About(rated, "uncount", e))
    /\ \A s, t \in About(rated, "count", e) \cup About(rated, "uncount", e) :
         rated[s].u = rated[t].u => s = t
    /\ \A s \in About(rated, "count", e) : rated[s].u \in like[e]
    /\ \A s \in About(rated, "uncount", e) : rated[s].u \notin like[e]

\* What has been seen of the rosters covers who is on them.
Remembered ==
  \A e \in Event :
    /\ stage[e] \in {"after_match", "done"} => attending[e] \subseteq there[e]
    /\ \A u, v \in attending[e] : u # v => <<u, v>> \in together[e]

\* Earned(u, type, target), of events with statuses st and what is remembered of them.
Earns(st, th, tg, u, type, target) ==
  IF type = "event"
  THEN /\ u # Organizer[target] /\ target \in Event
       /\ st[target] \in {"after_match", "done"} /\ u \in th[target]
  ELSE \E e \in Event : st[e] \in {"after_match", "done"} /\ <<u, target>> \in tg[e]

\* A rating is by somebody who was there, so is one about to be written, and the
\* events in which one is to be looked for are of both.
Earned ==
  /\ \A r \in rating : Earns(stage, there, together, r[1], r[2], r[3])
  /\ \A s \in Slot : LET about == rated[s].row IN
       /\ rated[s].op = "rate" => Earns(stage, there, together, about[1], about[2], about[3])
       /\ rated[s].op = "vet" =>
            /\ about[2] = "player"
            /\ \A e \in rated[s].shared : e \in Event /\ <<about[1], about[3]>> \in together[e]

RatingInv == RatingShapes /\ CountersCover /\ CountersExact /\ Remembered /\ Earned

-----------------------------------------------------------------------------
(* Counting requests *)

\* One request changes: it leaves those of a kind, joins them, or neither.
LEMMA AboutMoves ==
  ASSUME IsFiniteSet(Slot), NEW r, NEW q, NEW s \in Slot, NEW op, NEW e,
         \A t \in Slot : t # s => q[t] = r[t]
  PROVE  /\ Cardinality(About(r, op, e)) \in Nat /\ Cardinality(About(q, op, e)) \in Nat
         /\ s \in About(q, op, e) /\ s \notin About(r, op, e) =>
              Cardinality(About(q, op, e)) = Cardinality(About(r, op, e)) + 1
         /\ s \in About(r, op, e) /\ s \notin About(q, op, e) =>
              Cardinality(About(q, op, e)) = Cardinality(About(r, op, e)) - 1
         /\ (s \in About(r, op, e) <=> s \in About(q, op, e)) => About(q, op, e) = About(r, op, e)
<1>1. IsFiniteSet(About(r, op, e)) /\ IsFiniteSet(About(q, op, e))
  BY FS_Subset DEF About
<1>2. Cardinality(About(r, op, e)) \in Nat /\ Cardinality(About(q, op, e)) \in Nat
  BY <1>1, FS_CardinalityType
<1>3. ASSUME s \in About(q, op, e), s \notin About(r, op, e)
      PROVE  Cardinality(About(q, op, e)) = Cardinality(About(r, op, e)) + 1
  <2>1. About(q, op, e) = About(r, op, e) \cup {s} BY <1>3 DEF About
  <2> QED BY <2>1, <1>1, <1>3, FS_AddElement
<1>4. ASSUME s \in About(r, op, e), s \notin About(q, op, e)
      PROVE  Cardinality(About(q, op, e)) = Cardinality(About(r, op, e)) - 1
  <2>1. About(q, op, e) = About(r, op, e) \ {s} BY <1>4 DEF About
  <2> QED BY <2>1, <1>1, <1>4, FS_RemoveElement
<1>5. (s \in About(r, op, e) <=> s \in About(q, op, e)) => About(q, op, e) = About(r, op, e)
  BY DEF About
<1> QED BY <1>2, <1>3, <1>4, <1>5

\* The users whose like is being counted have a row each, where they are different.
LEMMA CountedHaveRows ==
  ASSUME IsFiniteSet(Slot), NEW r, NEW e, NEW rows, IsFiniteSet(rows),
         \A s \in About(r, "count", e) : r[s].u \in rows,
         \A s, t \in About(r, "count", e) : r[s].u = r[t].u => s = t
  PROVE  Cardinality(About(r, "count", e)) <= Cardinality(rows)
<1> DEFINE slots == About(r, "count", e)
           f == [s \in slots |-> r[s].u]
<1>1. f \in [slots -> rows] BY DEF slots
<1>2. \A s, t \in slots : f[s] = f[t] => s = t BY DEF slots
<1>3. f \in Injection(slots, rows) BY <1>1, <1>2 DEF Injection, IsInjective
<1> QED BY <1>3, FS_Injection

\* The statuses after a match are the last.
LEMMA AfterMatch ==
  ASSUME NEW from \in {"after_match", "done"}, NEW to, R!CanTransition("no_match", from, to)
  PROVE  to = "done"
<1>1. R!TransitionsFor("no_match") = R!NoMatchTransitions BY DEF R!TransitionsFor
<1>2. R!NoMatchTransitions["after_match"] = {"done"} /\ R!NoMatchTransitions["done"] = {}
  BY DEF R!NoMatchTransitions, R!MatchTransitions
<1>3. to \in R!NoMatchTransitions[from] BY <1>1 DEF R!CanTransition
<1> QED BY <1>2, <1>3

-----------------------------------------------------------------------------
(* Steps *)

LEMMA RatingInit ==
  ASSUME R!Init PROVE RatingInv
<1> USE DEF R!Init, R!Idle
<1>1. RatingShapes BY DEF RatingShapes
<1>2. \A e : \A op \in {"count", "uncount"} : About(rated, op, e) = {} BY DEF About
<1>3. IsFiniteSet({}) /\ Cardinality({}) = 0 BY FS_EmptySet
<1>4. ASSUME NEW e \in Event
      PROVE  /\ like[e] = {} /\ likeCount[e] = 0
             /\ About(rated, "count", e) = {} /\ About(rated, "uncount", e) = {}
  BY <1>2
<1>5. CountersCover BY ONLY <1>3, <1>4 DEF CountersCover
<1>6. CountersExact BY <1>3, <1>4 DEF CountersExact
<1>7. Earned
  <2>1. \A s \in Slot : rated[s].op = "idle" OBVIOUS
  <2> QED BY ONLY <2>1, rating = {} DEF Earned
<1>8. Remembered BY DEF Remembered
<1> QED BY <1>1, <1>5, <1>6, <1>7, <1>8 DEF RatingInv

\* What is remembered grows, and what is earned stays so.
LEMMA EarnsStays ==
  ASSUME NEW st, NEW th, NEW tg, NEW st2, NEW th2, NEW tg2, NEW u, NEW type, NEW target,
         Earns(st, th, tg, u, type, target),
         \A e \in Event : /\ st[e] \in {"after_match", "done"} => st2[e] \in {"after_match", "done"}
                         /\ th[e] \subseteq th2[e] /\ tg[e] \subseteq tg2[e]
  PROVE  Earns(st2, th2, tg2, u, type, target)
BY DEF Earns

\* What the steps about likes leave alone.
LEMMA EarnedKept ==
  ASSUME Remembered, Earned, NEW s \in Slot, \A t \in Slot : t # s => rated'[t] = rated[t],
         rated'[s].op \notin {"vet", "rate"}, rating' \subseteq rating,
         stage' = stage, attending' = attending, there' = there, together' = together
  PROVE  Remembered' /\ Earned'
<1>1. Remembered' BY DEF Remembered
<1>2. Earned' BY DEF Earned
<1> QED BY <1>1, <1>2

\* Nothing happens to the likes.
LEMMA LikesRest ==
  ASSUME CountersCover, CountersExact, rated' = rated, like' = like, likeCount' = likeCount,
         overlap' = overlap
  PROVE  CountersCover' /\ CountersExact'
<1>1. \A op, e : About(rated', op, e) = About(rated, op, e) OBVIOUS
<1>2. CountersCover' BY <1>1 DEF CountersCover
<1>3. CountersExact' BY <1>1 DEF CountersExact
<1> QED BY <1>2, <1>3

LEMMA CountersKept ==
  ASSUME RatingShapes, CountersCover, CountersExact, NEW s \in Slot,
         \A t \in Slot : t # s => rated'[t] = rated[t],
         rated[s].op \notin {"count", "uncount"}, rated'[s].op \notin {"count", "uncount"},
         like' = like, likeCount' = likeCount, overlap \subseteq overlap'
  PROVE  CountersCover' /\ CountersExact'
<1>1. \A e : \A op \in {"count", "uncount"} : About(rated', op, e) = About(rated, op, e)
  BY DEF About
<1>2. \A e : \A op \in {"count", "uncount"} : \A t \in About(rated, op, e) : rated'[t] = rated[t]
  BY DEF About
<1>3. CountersCover' BY <1>1 DEF CountersCover
<1>4. CountersExact' BY <1>1, <1>2 DEF CountersExact
<1> QED BY <1>3, <1>4

\* A step about the likes of event e.
LEMMA CounterStep ==
  ASSUME IsFiniteSet(Slot), CountersCover, CountersExact,
         NEW s \in Slot, NEW e \in Event,
         \A t \in Slot : t # s => rated'[t] = rated[t],
         rated[s].op \in {"count", "uncount"} => rated[s].e = e,
         rated'[s].op \in {"count", "uncount"} => rated'[s].e = e,
         \A f \in Event : f # e => like'[f] = like[f] /\ likeCount'[f] = likeCount[f],
         overlap \subseteq overlap',
         /\ IsFiniteSet(like'[e]) /\ likeCount'[e] \in Nat
         /\ likeCount'[e] + Cardinality(About(rated', "count", e))
              >= Cardinality(like'[e]) + Cardinality(About(rated', "uncount", e)),
         e \notin overlap' =>
           /\ likeCount'[e] + Cardinality(About(rated', "count", e))
                = Cardinality(like'[e]) + Cardinality(About(rated', "uncount", e))
           /\ \A t, q \in About(rated', "count", e) \cup About(rated', "uncount", e) :
                rated'[t].u = rated'[q].u => t = q
           /\ \A t \in About(rated', "count", e) : rated'[t].u \in like'[e]
           /\ \A t \in About(rated', "uncount", e) : rated'[t].u \notin like'[e]
  PROVE  CountersCover' /\ CountersExact'
<1>1. ASSUME NEW f \in Event, f # e, NEW op \in {"count", "uncount"}
      PROVE  /\ About(rated', op, f) = About(rated, op, f)
             /\ \A t \in About(rated, op, f) : rated'[t] = rated[t]
  BY <1>1 DEF About
<1>2. CountersCover' BY <1>1 DEF CountersCover
<1>3. ASSUME NEW f \in Event, f \notin overlap', f # e
      PROVE  /\ likeCount'[f] + Cardinality(About(rated', "count", f))
                  = Cardinality(like'[f]) + Cardinality(About(rated', "uncount", f))
             /\ \A t, q \in About(rated', "count", f) \cup About(rated', "uncount", f) :
                  rated'[t].u = rated'[q].u => t = q
             /\ \A t \in About(rated', "count", f) : rated'[t].u \in like'[f]
             /\ \A t \in About(rated', "uncount", f) : rated'[t].u \notin like'[f]
  <2>1. f \notin overlap BY <1>3
  <2> QED BY <1>1, <1>3, <2>1 DEF CountersExact
<1>4. CountersExact' BY <1>3 DEF CountersExact
<1> QED BY <1>2, <1>4

\* The counters of an event are numbers.
LEMMA Numbers ==
  ASSUME IsFiniteSet(Slot), CountersCover, NEW e \in Event
  PROVE  /\ likeCount[e] \in Nat /\ Cardinality(like[e]) \in Nat /\ IsFiniteSet(like[e])
         /\ \A op : Cardinality(About(rated, op, e)) \in Nat
<1>1. \A op : IsFiniteSet(About(rated, op, e)) BY FS_Subset DEF About
<1> QED BY <1>1, FS_CardinalityType DEF CountersCover

LEMMA LikeStep ==
  ASSUME IsFiniteSet(Slot), RatingInv, NEW s \in Slot, NEW u \in User, NEW e \in Event,
         R!Like(s, u, e)
  PROVE  RatingInv'
<1> USE DEF RatingInv
<1>0. /\ rated[s] = R!Idle /\ R!Overlap(u, e)
      /\ like' = [like EXCEPT ![e] = @ \cup {u}]
      /\ rated' = [rated EXCEPT ![s] = IF u \in like[e] THEN R!Idle
                                       ELSE [op |-> "count", u |-> u, e |-> e]]
      /\ stage' = stage /\ attending' = attending /\ there' = there /\ together' = together /\ likeCount' = likeCount
      /\ rating' = rating
  BY DEF R!Like, R!Hold, R!course
<1>1. \A t \in Slot : t # s => rated'[t] = rated[t] BY <1>0 DEF RatingShapes
<1>2. rated'[s] = IF u \in like[e] THEN R!Idle ELSE [op |-> "count", u |-> u, e |-> e]
  BY <1>0 DEF RatingShapes
<1>3. overlap \subseteq overlap' BY <1>0 DEF R!Overlap
<1>4. /\ rated[s].op = "idle" /\ rated'[s].op \in {"idle", "count"}
      /\ rated'[s].op = "idle" <=> u \in like[e]
      /\ rated'[s].op = "idle" => rated'[s] = [op |-> "idle"]
      /\ rated'[s].op = "count" => rated'[s].u = u /\ rated'[s].e = e
  BY <1>0, <1>2 DEF R!Idle
<1>5. RatingShapes'
  <2>1. /\ like' = [f \in Event |-> like'[f]] /\ rated' = [t \in Slot |-> rated'[t]]
    BY <1>0 DEF RatingShapes
  <2> QED BY <2>1, <1>0, <1>1, <1>4 DEF RatingShapes
<1>6. Remembered' /\ Earned' BY <1>0, <1>1, <1>4, EarnedKept
<1>7. CASE u \in like[e]
  <2>1. like' = like BY <1>0, <1>7 DEF RatingShapes
  <2> QED BY <2>1, <1>0, <1>1, <1>3, <1>4, <1>5, <1>6, <1>7, CountersKept
<1>8. CASE u \notin like[e]
  <2>1. like'[e] = like[e] \cup {u} /\ \A f \in Event : f # e => like'[f] = like[f]
    BY <1>0 DEF RatingShapes
  <2>2. IsFiniteSet(like'[e]) /\ Cardinality(like'[e]) = Cardinality(like[e]) + 1
    BY <2>1, <1>8, FS_AddElement, SMTT(30) DEF CountersCover
  <2>3. /\ s \notin About(rated, "count", e) /\ s \in About(rated', "count", e)
        /\ s \notin About(rated, "uncount", e) /\ s \notin About(rated', "uncount", e)
    BY <1>4, <1>8 DEF About
  <2>4. /\ Cardinality(About(rated', "count", e)) = Cardinality(About(rated, "count", e)) + 1
        /\ About(rated', "uncount", e) = About(rated, "uncount", e)
    BY <2>3, <1>1, AboutMoves
  <2>5. /\ likeCount[e] \in Nat /\ Cardinality(like[e]) \in Nat
        /\ Cardinality(About(rated, "count", e)) \in Nat
        /\ Cardinality(About(rated, "uncount", e)) \in Nat
    BY Numbers
  <2>6. /\ likeCount'[e] \in Nat
        /\ likeCount'[e] + Cardinality(About(rated', "count", e))
             >= Cardinality(like'[e]) + Cardinality(About(rated', "uncount", e))
    BY <2>2, <2>4, <2>5, <1>0 DEF CountersCover
  <2>7. ASSUME e \notin overlap'
        PROVE  /\ likeCount'[e] + Cardinality(About(rated', "count", e))
                    = Cardinality(like'[e]) + Cardinality(About(rated', "uncount", e))
               /\ \A t, q \in About(rated', "count", e) \cup About(rated', "uncount", e) :
                    rated'[t].u = rated'[q].u => t = q
               /\ \A t \in About(rated', "count", e) : rated'[t].u \in like'[e]
               /\ \A t \in About(rated', "uncount", e) : rated'[t].u \notin like'[e]
    <3>1. e \notin overlap BY <1>3, <2>7
    <3>2. \A t \in About(rated, "count", e) \cup About(rated, "uncount", e) : rated[t].u # u
      BY <1>0, <2>7 DEF R!Overlap, R!Counting, R!InFlight, About
    <3>3. /\ About(rated', "count", e) = About(rated, "count", e) \cup {s}
          /\ About(rated', "uncount", e) = About(rated, "uncount", e)
          /\ \A t \in About(rated, "count", e) \cup About(rated, "uncount", e) :
               t # s /\ rated'[t] = rated[t]
          /\ rated'[s].u = u
      BY <1>1, <1>4, <1>8, <2>3 DEF About
    <3>4. likeCount'[e] + Cardinality(About(rated', "count", e))
            = Cardinality(like'[e]) + Cardinality(About(rated', "uncount", e))
      BY <3>1, <2>2, <2>4, <2>5, <1>0 DEF CountersExact
    <3>5. /\ \A t, q \in About(rated, "count", e) \cup About(rated, "uncount", e) :
               rated[t].u = rated[q].u => t = q
          /\ \A t \in About(rated, "count", e) : rated[t].u \in like[e]
          /\ \A t \in About(rated, "uncount", e) : rated[t].u \notin like[e]
      BY <3>1 DEF CountersExact
    <3>6. \A t \in About(rated', "count", e) : rated'[t].u \in like'[e]
      BY <3>3, <3>5, <2>1
    <3>7. \A t \in About(rated', "uncount", e) : rated'[t].u \notin like'[e]
      BY <3>2, <3>3, <3>5, <2>1
    <3> QED BY <3>2, <3>3, <3>4, <3>5, <3>6, <3>7
  <2>8. CountersCover' /\ CountersExact'
    <3>1. /\ rated[s].op \in {"count", "uncount"} => rated[s].e = e
          /\ rated'[s].op \in {"count", "uncount"} => rated'[s].e = e
      BY <1>4
    <3>2. \A f \in Event : f # e => like'[f] = like[f] /\ likeCount'[f] = likeCount[f]
      BY <2>1, <1>0
    <3>3. CountersCover /\ CountersExact OBVIOUS
    <3> QED BY ONLY IsFiniteSet(Slot), s \in Slot, e \in Event, <3>1, <3>2, <3>3, <2>2, <2>6,
                    <2>7, <1>1, <1>3, CounterStep
  <2> QED BY <2>8, <1>5, <1>6
<1> QED BY <1>7, <1>8

LEMMA UnlikeStep ==
  ASSUME IsFiniteSet(Slot), RatingInv, NEW s \in Slot, NEW u \in User, NEW e \in Event,
         R!Unlike(s, u, e)
  PROVE  RatingInv'
<1> USE DEF RatingInv
<1>0. /\ rated[s] = R!Idle /\ u \in like[e] /\ R!Overlap(u, e)
      /\ like' = [like EXCEPT ![e] = @ \ {u}]
      /\ rated' = [rated EXCEPT ![s] = [op |-> "uncount", u |-> u, e |-> e]]
      /\ stage' = stage /\ attending' = attending /\ there' = there /\ together' = together /\ likeCount' = likeCount
      /\ rating' = rating
  BY DEF R!Unlike, R!HadLiked, R!Hold, R!course
<1>1. \A t \in Slot : t # s => rated'[t] = rated[t] BY <1>0 DEF RatingShapes
<1>2. rated'[s] = [op |-> "uncount", u |-> u, e |-> e] BY <1>0 DEF RatingShapes
<1>3. overlap \subseteq overlap' BY <1>0 DEF R!Overlap
<1>4. /\ rated[s].op = "idle" /\ rated'[s].op = "uncount"
      /\ rated'[s].u = u /\ rated'[s].e = e
  BY <1>0, <1>2 DEF R!Idle
<1>5. RatingShapes'
  <2>1. /\ like' = [f \in Event |-> like'[f]] /\ rated' = [t \in Slot |-> rated'[t]]
    BY <1>0 DEF RatingShapes
  <2> QED BY <2>1, <1>0, <1>1, <1>4 DEF RatingShapes
<1>6. Remembered' /\ Earned' BY <1>0, <1>1, <1>4, EarnedKept
<1>7. like'[e] = like[e] \ {u} /\ \A f \in Event : f # e => like'[f] = like[f]
  BY <1>0 DEF RatingShapes
<1>8. IsFiniteSet(like'[e]) /\ Cardinality(like'[e]) = Cardinality(like[e]) - 1
  BY <1>7, <1>0, FS_RemoveElement DEF CountersCover
<1>9. /\ s \notin About(rated, "count", e) /\ s \notin About(rated', "count", e)
      /\ s \notin About(rated, "uncount", e) /\ s \in About(rated', "uncount", e)
  BY <1>4 DEF About
<1>10. /\ Cardinality(About(rated', "uncount", e)) = Cardinality(About(rated, "uncount", e)) + 1
       /\ About(rated', "count", e) = About(rated, "count", e)
  BY <1>9, <1>1, AboutMoves
<1>11. /\ likeCount[e] \in Nat /\ Cardinality(like[e]) \in Nat
       /\ Cardinality(About(rated, "count", e)) \in Nat
       /\ Cardinality(About(rated, "uncount", e)) \in Nat
  BY Numbers
<1>12. /\ likeCount'[e] \in Nat
       /\ likeCount'[e] + Cardinality(About(rated', "count", e))
            >= Cardinality(like'[e]) + Cardinality(About(rated', "uncount", e))
  BY <1>8, <1>10, <1>11, <1>0 DEF CountersCover
<1>13. ASSUME e \notin overlap'
       PROVE  /\ likeCount'[e] + Cardinality(About(rated', "count", e))
                   = Cardinality(like'[e]) + Cardinality(About(rated', "uncount", e))
              /\ \A t, q \in About(rated', "count", e) \cup About(rated', "uncount", e) :
                   rated'[t].u = rated'[q].u => t = q
              /\ \A t \in About(rated', "count", e) : rated'[t].u \in like'[e]
              /\ \A t \in About(rated', "uncount", e) : rated'[t].u \notin like'[e]
  <2>1. e \notin overlap BY <1>3, <1>13
  <2>2. \A t \in About(rated, "count", e) \cup About(rated, "uncount", e) : rated[t].u # u
    BY <1>0, <1>13 DEF R!Overlap, R!Counting, R!InFlight, About
  <2>3. /\ About(rated', "uncount", e) = About(rated, "uncount", e) \cup {s}
        /\ About(rated', "count", e) = About(rated, "count", e)
        /\ \A t \in About(rated, "count", e) \cup About(rated, "uncount", e) :
             t # s /\ rated'[t] = rated[t]
        /\ rated'[s].u = u
    BY <1>1, <1>4, <1>9 DEF About
  <2>4. likeCount'[e] + Cardinality(About(rated', "count", e))
          = Cardinality(like'[e]) + Cardinality(About(rated', "uncount", e))
    BY <2>1, <1>8, <1>10, <1>11, <1>0 DEF CountersExact
  <2>5. /\ \A t, q \in About(rated, "count", e) \cup About(rated, "uncount", e) :
             rated[t].u = rated[q].u => t = q
        /\ \A t \in About(rated, "count", e) : rated[t].u \in like[e]
        /\ \A t \in About(rated, "uncount", e) : rated[t].u \notin like[e]
    BY <2>1 DEF CountersExact
  <2>6. \A t \in About(rated', "count", e) : rated'[t].u \in like'[e]
    BY <2>2, <2>3, <2>5, <1>7
  <2>7. \A t \in About(rated', "uncount", e) : rated'[t].u \notin like'[e]
    BY <2>3, <2>5, <1>7
  <2> QED BY <2>2, <2>3, <2>4, <2>5, <2>6, <2>7
<1>14. CountersCover' /\ CountersExact'
  <2>1. /\ rated[s].op \in {"count", "uncount"} => rated[s].e = e
        /\ rated'[s].op \in {"count", "uncount"} => rated'[s].e = e
    BY <1>4
  <2>2. \A f \in Event : f # e => like'[f] = like[f] /\ likeCount'[f] = likeCount[f]
    BY <1>7, <1>0
  <2>3. CountersCover /\ CountersExact OBVIOUS
  <2> QED BY ONLY IsFiniteSet(Slot), s \in Slot, e \in Event, <2>1, <2>2, <2>3, <1>8, <1>12,
                  <1>13, <1>1, <1>3, CounterStep
<1> QED BY <1>14, <1>5, <1>6

\* A count comes in.
LEMMA CountStep ==
  ASSUME IsFiniteSet(Slot), RatingInv, NEW s \in Slot, R!Count(s) \/ R!Uncount(s)
  PROVE  RatingInv'
<1> USE DEF RatingInv
<1> DEFINE e == rated[s].e
<1>0. /\ rated[s].op \in {"count", "uncount"} /\ e \in Event
      /\ rated' = [rated EXCEPT ![s] = R!Idle] /\ like' = like
      /\ likeCount' = [likeCount EXCEPT ![e] =
                         IF rated[s].op = "count" THEN @ + 1
                         ELSE IF @ > 0 THEN @ - 1 ELSE @]
      /\ stage' = stage /\ attending' = attending /\ there' = there /\ together' = together /\ rating' = rating /\ overlap' = overlap
  BY DEF R!Count, R!Uncount, R!Hold, R!course, RatingShapes
<1> HIDE DEF e
<1>1. \A t \in Slot : t # s => rated'[t] = rated[t] BY <1>0 DEF RatingShapes
<1>2. rated'[s] = [op |-> "idle"] /\ rated'[s].op = "idle"
  BY <1>0 DEF RatingShapes, R!Idle
<1>3. /\ likeCount'[e] = IF rated[s].op = "count" THEN likeCount[e] + 1
                         ELSE IF likeCount[e] > 0 THEN likeCount[e] - 1 ELSE likeCount[e]
      /\ \A f \in Event : f # e => likeCount'[f] = likeCount[f]
      /\ likeCount' = [f \in Event |-> likeCount'[f]]
  BY <1>0 DEF RatingShapes
<1>4. RatingShapes'
  <2>1. rated' = [t \in Slot |-> rated'[t]] BY <1>0 DEF RatingShapes
  <2> QED BY <2>1, <1>0, <1>1, <1>2, <1>3 DEF RatingShapes
<1>5. Remembered' /\ Earned' BY <1>0, <1>1, <1>2, EarnedKept
<1>6. /\ likeCount[e] \in Nat /\ Cardinality(like[e]) \in Nat /\ IsFiniteSet(like[e])
      /\ Cardinality(About(rated, "count", e)) \in Nat
      /\ Cardinality(About(rated, "uncount", e)) \in Nat
  BY <1>0, Numbers
<1>7. /\ rated[s].op = "count" => s \in About(rated, "count", e) /\ s \notin About(rated, "uncount", e)
      /\ rated[s].op = "uncount" => s \notin About(rated, "count", e) /\ s \in About(rated, "uncount", e)
      /\ s \notin About(rated', "count", e) /\ s \notin About(rated', "uncount", e)
  BY <1>2 DEF About, e
<1>8. /\ rated[s].op = "count" =>
           /\ Cardinality(About(rated', "count", e)) = Cardinality(About(rated, "count", e)) - 1
           /\ About(rated', "uncount", e) = About(rated, "uncount", e)
      /\ rated[s].op = "uncount" =>
           /\ Cardinality(About(rated', "uncount", e)) = Cardinality(About(rated, "uncount", e)) - 1
           /\ About(rated', "count", e) = About(rated, "count", e)
  <2>1. ASSUME NEW op \in {"count", "uncount"}
        PROVE  /\ s \in About(rated, op, e) /\ s \notin About(rated', op, e) =>
                    Cardinality(About(rated', op, e)) = Cardinality(About(rated, op, e)) - 1
               /\ (s \in About(rated, op, e) <=> s \in About(rated', op, e)) =>
                    About(rated', op, e) = About(rated, op, e)
    BY <1>1, AboutMoves
  <2> QED BY <2>1, <1>7
<1>9. likeCount[e] + Cardinality(About(rated, "count", e))
        >= Cardinality(like[e]) + Cardinality(About(rated, "uncount", e))
  BY <1>0 DEF CountersCover
<1>10. /\ likeCount'[e] \in Nat
       /\ likeCount'[e] + Cardinality(About(rated', "count", e))
            >= Cardinality(like[e]) + Cardinality(About(rated', "uncount", e))
  <2>1. CASE rated[s].op = "count"
    <3>1. likeCount'[e] = likeCount[e] + 1 BY <2>1, <1>3
    <3> QED BY <2>1, <3>1, <1>6, <1>8, <1>9
  <2>2. CASE rated[s].op = "uncount"
    <3>1. likeCount'[e] = IF likeCount[e] > 0 THEN likeCount[e] - 1 ELSE likeCount[e]
      BY <2>2, <1>3
    <3> QED BY <2>2, <3>1, <1>6, <1>8, <1>9
  <2> QED BY <2>1, <2>2, <1>0
<1>11. ASSUME e \notin overlap'
       PROVE  /\ likeCount'[e] + Cardinality(About(rated', "count", e))
                   = Cardinality(like[e]) + Cardinality(About(rated', "uncount", e))
              /\ \A t, q \in About(rated', "count", e) \cup About(rated', "uncount", e) :
                   rated'[t].u = rated'[q].u => t = q
              /\ \A t \in About(rated', "count", e) : rated'[t].u \in like[e]
              /\ \A t \in About(rated', "uncount", e) : rated'[t].u \notin like[e]
  <2>1. e \notin overlap BY <1>0, <1>11
  <2>2. /\ likeCount[e] + Cardinality(About(rated, "count", e))
             = Cardinality(like[e]) + Cardinality(About(rated, "uncount", e))
        /\ \A t, q \in About(rated, "count", e) \cup About(rated, "uncount", e) :
             rated[t].u = rated[q].u => t = q
        /\ \A t \in About(rated, "count", e) : rated[t].u \in like[e]
        /\ \A t \in About(rated, "uncount", e) : rated[t].u \notin like[e]
    BY <1>0, <2>1 DEF CountersExact
  <2>3. \A op \in {"count", "uncount"} : \A t \in About(rated', op, e) :
          t \in About(rated, op, e) /\ rated'[t] = rated[t]
    BY <1>1, <1>2 DEF About
  <2>4. Cardinality(About(rated, "count", e)) <= Cardinality(like[e])
    BY <2>2, <1>6, CountedHaveRows
  <2>5. CASE rated[s].op = "count"
    <3>1. likeCount'[e] = likeCount[e] + 1 BY <2>5, <1>3
    <3> QED BY <2>5, <3>1, <1>6, <1>8, <2>2, <2>3
  <2>6. CASE rated[s].op = "uncount"
    <3>1. Cardinality(About(rated', "uncount", e)) \in Nat BY <1>1, AboutMoves
    <3>2. likeCount[e] > 0 BY <2>2, <2>4, <2>6, <3>1, <1>6, <1>8
    <3>3. likeCount'[e] = likeCount[e] - 1 BY <2>6, <3>2, <1>3
    <3> QED BY <2>6, <3>3, <1>6, <1>8, <2>2, <2>3
  <2> QED BY <2>5, <2>6, <1>0
<1>12. CountersCover' /\ CountersExact'
  <2>1. /\ rated[s].op \in {"count", "uncount"} => rated[s].e = e
        /\ rated'[s].op \in {"count", "uncount"} => rated'[s].e = e
    BY <1>2 DEF e
  <2>2. \A f \in Event : f # e => like'[f] = like[f] /\ likeCount'[f] = likeCount[f]
    BY <1>0, <1>3
  <2>3. CountersCover /\ CountersExact /\ e \in Event /\ like'[e] = like[e] /\ overlap \subseteq overlap'
    BY <1>0
  <2>4. IsFiniteSet(like'[e]) BY <2>3, <1>6
  <2> QED BY ONLY IsFiniteSet(Slot), s \in Slot, <2>1, <2>2, <2>3, <2>4, <1>10, <1>11, <1>1,
                  CounterStep
<1> QED BY <1>12, <1>4, <1>5

LEMMA RatingStep ==
  ASSUME IsFiniteSet(Slot), RatingInv, NEW s \in Slot, R!Upsert(s)
  PROVE  RatingInv'
<1> USE DEF RatingInv
<1>1. /\ rated[s].op = "rate" /\ rating' = rating \cup {rated[s].row}
      /\ rated' = [rated EXCEPT ![s] = R!Idle]
      /\ stage' = stage /\ attending' = attending /\ there' = there /\ together' = together
      /\ like' = like /\ likeCount' = likeCount /\ overlap' = overlap
  BY DEF R!Upsert, R!Hold, R!course, R!likes
<1>2. \A t \in Slot : t # s => rated'[t] = rated[t] BY <1>1 DEF RatingShapes
<1>3. rated'[s] = [op |-> "idle"] /\ rated'[s].op = "idle" BY <1>1 DEF RatingShapes, R!Idle
<1>4. RatingShapes' BY <1>1, <1>2, <1>3 DEF RatingShapes
<1>5. CountersCover' /\ CountersExact' BY <1>1, <1>2, <1>3, CountersKept
<1>6. Earned' BY <1>1, <1>2, <1>3 DEF Earned
<1>7. Remembered' BY <1>1 DEF Remembered
<1> QED BY <1>4, <1>5, <1>6, <1>7

\* A request that rates begins, or has found the events of both.
LEMMA Rates ==
  ASSUME RatingInv, NEW s \in Slot, NEW r,
         rated' = [rated EXCEPT ![s] = r], rated[s].op \notin {"count", "uncount"},
         r.op = "idle" => r = [op |-> "idle"], r.op \in {"idle", "vet", "rate"},
         r.op = "rate" => Earns(stage, there, together, r.row[1], r.row[2], r.row[3]),
         r.op = "vet" => /\ r.row[2] = "player"
                         /\ \A e \in r.shared : /\ e \in Event
                                                /\ <<r.row[1], r.row[3]>> \in together[e],
         rating' = rating, UNCHANGED <<R!course, R!likes>>
  PROVE  RatingInv'
<1> USE DEF RatingInv
<1>1. /\ stage' = stage /\ attending' = attending /\ there' = there /\ together' = together
      /\ like' = like /\ likeCount' = likeCount /\ overlap' = overlap
  BY DEF R!course, R!likes
<1>2. (\A t \in Slot : t # s => rated'[t] = rated[t]) /\ rated'[s] = r
  BY DEF RatingShapes
<1>3. rated' = [t \in Slot |-> rated'[t]] BY DEF RatingShapes
<1>4. RatingShapes' BY <1>1, <1>2, <1>3 DEF RatingShapes
<1>5. CountersCover' /\ CountersExact'
  <2>1. rated'[s].op \notin {"count", "uncount"} BY <1>2
  <2> QED BY <2>1, <1>1, <1>2, CountersKept
<1>6. Earned' BY <1>1, <1>2 DEF Earned
<1>7. Remembered' BY <1>1 DEF Remembered
<1> QED BY <1>4, <1>5, <1>6, <1>7

LEMMA RateStep ==
  ASSUME RatingInv, NEW s \in Slot, NEW u \in User, NEW x,
         (x \in Event /\ R!RateEvent(s, u, x)) \/ R!RatePlayer(s, u, x)
  PROVE  RatingInv'
<1>1. CASE x \in Event /\ R!RateEvent(s, u, x)
  <2> DEFINE r == [op |-> "rate", row |-> <<u, "event", x>>]
  <2>1. /\ rated[s].op = "idle" /\ R!EligibleOf(u, x) /\ rated' = [rated EXCEPT ![s] = r]
        /\ rating' = rating /\ UNCHANGED <<R!course, R!likes>>
    BY <1>1 DEF R!RateEvent, R!MayRate, R!Idle, R!Hold
  <2>2. Earns(stage, there, together, u, "event", x)
    BY <1>1, <2>1 DEF Earns, R!EligibleOf, R!Finished, RatingInv, Remembered
  <2>3. /\ r.op = "rate" /\ r.row[1] = u /\ r.row[2] = "event" /\ r.row[3] = x OBVIOUS
  <2> HIDE DEF r
  <2> QED BY <2>1, <2>2, <2>3, Rates
<1>2. CASE R!RatePlayer(s, u, x)
  <2> DEFINE r == [op |-> "vet", row |-> <<u, "player", x>>, shared |-> R!Shared(u, x)]
  <2>1. /\ rated[s].op = "idle" /\ u # x /\ rated' = [rated EXCEPT ![s] = r]
        /\ rating' = rating /\ UNCHANGED <<R!course, R!likes>>
    BY <1>2 DEF R!RatePlayer, R!MayRate, R!Idle, R!Hold
  <2>2. \A e \in R!Shared(u, x) : e \in Event /\ <<u, x>> \in together[e]
    BY <2>1 DEF R!Shared, RatingInv, Remembered
  <2>3. /\ r.op = "vet" /\ r.row[1] = u /\ r.row[2] = "player" /\ r.row[3] = x
        /\ r.shared = R!Shared(u, x)
    OBVIOUS
  <2> HIDE DEF r
  <2> QED BY <2>1, <2>2, <2>3, Rates
<1> QED BY <1>1, <1>2

\* One of the events both were on has finished.
LEMMA VetStep ==
  ASSUME RatingInv, NEW s \in Slot, R!Vet(s)
  PROVE  RatingInv'
<1> DEFINE q == rated[s]
           found == R!PlayedTogether(q.shared)
           r == IF found THEN [op |-> "rate", row |-> q.row] ELSE R!Idle
<1>1. /\ q.op = "vet" /\ rated' = [rated EXCEPT ![s] = r]
      /\ rating' = rating /\ UNCHANGED <<R!course, R!likes>>
  BY DEF R!Vet, R!Hold
<1>2. found => Earns(stage, there, together, q.row[1], q.row[2], q.row[3])
  BY <1>1 DEF Earns, R!PlayedTogether, R!Finished, RatingInv, Earned
<1>3. /\ found => r.op = "rate" /\ r.row = q.row
      /\ ~found => r = [op |-> "idle"] /\ r.op = "idle"
  BY DEF R!Idle
<1> HIDE DEF r, found
<1> QED BY <1>1, <1>2, <1>3, Rates

\* Events run their course and people come and go, at any time; what was seen of them
\* is kept.
LEMMA CourseStep ==
  ASSUME RatingInv, NEW e \in Event,
         \/ \E to : R!SetStatus(e, to)
         \/ \E u \in User : R!ComeOrGo(e, u)
  PROVE  RatingInv'
<1> USE DEF RatingInv
<1>1. /\ rated' = rated /\ rating' = rating
      /\ like' = like /\ likeCount' = likeCount /\ overlap' = overlap
      /\ R!Remember
  BY DEF R!SetStatus, R!ComeOrGo, R!likes
<1>2. CountersCover' /\ CountersExact' BY <1>1, LikesRest
<1>3. /\ stage' = [f \in Event |-> stage'[f]] /\ attending' = [f \in Event |-> attending'[f]]
      /\ \A f \in Event : stage[f] \in {"after_match", "done"} =>
           stage'[f] \in {"after_match", "done"}
  <2>1. CASE \E to : R!SetStatus(e, to)
    <3>1. PICK to : R!SetStatus(e, to) BY <2>1
    <3>2. /\ R!CanTransition("no_match", stage[e], to)
          /\ stage' = [stage EXCEPT ![e] = to] /\ attending' = attending
      BY <3>1 DEF R!SetStatus
    <3>3. stage[e] \in {"after_match", "done"} => to = "done" BY <3>2, AfterMatch
    <3> QED BY <3>2, <3>3 DEF RatingShapes
  <2>2. CASE \E u \in User : R!ComeOrGo(e, u)
    <3>1. PICK u \in User : R!ComeOrGo(e, u) BY <2>2
    <3>2. /\ stage' = stage
          /\ attending' = [attending EXCEPT ![e] = IF u \in @ THEN @ \ {u} ELSE @ \cup {u}]
      BY <3>1 DEF R!ComeOrGo
    <3> QED BY <3>2 DEF RatingShapes
  <2> QED BY <2>1, <2>2
<1>4. /\ there' = [f \in Event |->
           IF stage'[f] \in {"after_match", "done"} THEN there[f] \cup attending'[f] ELSE there[f]]
      /\ together' = [f \in Event |->
           together[f] \cup {q \in attending'[f] \X attending'[f] : q[1] # q[2]}]
  BY <1>1 DEF R!Remember
<1>5. \A f \in Event :
        /\ there[f] \subseteq there'[f] /\ together[f] \subseteq together'[f]
        /\ stage'[f] \in {"after_match", "done"} => attending'[f] \subseteq there'[f]
  BY <1>4
<1>6. ASSUME NEW f \in Event, NEW u \in attending'[f], NEW v \in attending'[f], u # v
      PROVE  <<u, v>> \in together'[f]
  BY <1>4, <1>6
<1>7. Remembered' BY <1>5, <1>6 DEF Remembered
<1>8. RatingShapes'
  <2>1. there' = [f \in Event |-> there'[f]] /\ together' = [f \in Event |-> together'[f]]
    BY <1>4
  <2> QED BY <2>1, <1>1, <1>3 DEF RatingShapes
<1>9. \A u, type, target : Earns(stage, there, together, u, type, target)
                             => Earns(stage', there', together', u, type, target)
  BY <1>3, <1>5, EarnsStays
<1>10. Earned' BY <1>1, <1>5, <1>9 DEF Earned
<1> QED BY <1>2, <1>7, <1>8, <1>10

LEMMA RatingNext ==
  ASSUME IsFiniteSet(Slot), RatingInv, [R!Next]_R!vars
  PROVE  RatingInv'
<1>1. CASE UNCHANGED R!vars
  <2>1. /\ rating' = rating /\ rated' = rated
        /\ stage' = stage /\ attending' = attending /\ there' = there /\ together' = together
        /\ like' = like /\ likeCount' = likeCount /\ overlap' = overlap
    BY <1>1 DEF R!vars
  <2> QED BY <2>1, LikesRest DEF RatingInv, RatingShapes, Remembered, Earned
<1>2. ASSUME NEW s \in Slot, R!Count(s) \/ R!Uncount(s) PROVE RatingInv' BY <1>2, CountStep
<1>3. ASSUME NEW s \in Slot, R!Upsert(s) PROVE RatingInv' BY <1>3, RatingStep
<1>4. ASSUME NEW s \in Slot, NEW u \in User, NEW e \in Event,
             R!Like(s, u, e) \/ R!Unlike(s, u, e)
      PROVE  RatingInv'
  BY <1>4, LikeStep, UnlikeStep
<1>5. ASSUME NEW s \in Slot, NEW u \in User, NEW x,
             (x \in Event /\ R!RateEvent(s, u, x)) \/ R!RatePlayer(s, u, x)
      PROVE  RatingInv'
  BY <1>5, RateStep
<1>6. ASSUME NEW s \in Slot, R!Vet(s) PROVE RatingInv'
  BY <1>6, VetStep
<1>7. ASSUME NEW r \in rating, R!RemoveRating(r) PROVE RatingInv'
  <2>1. /\ rating' \subseteq rating /\ rated' = rated
        /\ stage' = stage /\ attending' = attending /\ there' = there /\ together' = together
        /\ like' = like /\ likeCount' = likeCount /\ overlap' = overlap
    BY <1>7 DEF R!RemoveRating, R!course, R!likes
  <2> QED BY <2>1, LikesRest DEF RatingInv, RatingShapes, Remembered, Earned
<1>8. ASSUME NEW e \in Event,
             \/ \E to : R!SetStatus(e, to)
             \/ \E u \in User : R!ComeOrGo(e, u)
      PROVE  RatingInv'
  BY <1>8, CourseStep
<1>9. CASE R!NextLike BY <1>9, <1>2, <1>4 DEF R!NextLike
<1>10. CASE R!NextRating BY <1>10, <1>3, <1>5, <1>6, <1>7, <1>8 DEF R!NextRating
<1> QED BY <1>1, <1>9, <1>10 DEF R!Next

\* Likes are counted, and ratings are by those who were there, whatever overlaps
\* and however long a check was ago.
THEOREM RatingsStaySound ==
  ASSUME IsFiniteSet(Slot)
  PROVE  R!Spec => []R!RatingsSound
<1>1. RatingInv => R!RatingsSound
  <2> SUFFICES ASSUME RatingInv PROVE R!RatingsSound OBVIOUS
  <2>0. \A S : R!Cardinality(S) = Cardinality(S) BY Zenon DEF R!Cardinality, Cardinality
  <2>1. ASSUME NEW e \in Event, R!Counting(e) = {}
        PROVE  /\ likeCount[e] >= Cardinality(like[e])
               /\ e \notin overlap => likeCount[e] = Cardinality(like[e])
    <3>1. About(rated, "count", e) = {} /\ About(rated, "uncount", e) = {}
      BY <2>1 DEF About, R!Counting, R!InFlight
    <3>2. Cardinality({}) = 0 BY FS_EmptySet
    <3>3. likeCount[e] \in Nat /\ Cardinality(like[e]) \in Nat BY Numbers DEF RatingInv
    <3>4. /\ likeCount[e] + 0 >= Cardinality(like[e]) + 0
          /\ e \notin overlap => likeCount[e] + 0 = Cardinality(like[e]) + 0
      BY <3>1, <3>2 DEF RatingInv, CountersCover, CountersExact
    <3> QED BY <3>3, <3>4
  <2>2. R!LikesCounted BY <2>0, <2>1 DEF R!LikesCounted
  <2>3. R!RatingsEarned
    BY DEF RatingInv, Earned, Earns, R!RatingsEarned, R!Earned, R!Finished
  <2> QED BY <2>2, <2>3 DEF R!RatingsSound
<1>2. R!Init => RatingInv BY RatingInit
<1>3. RatingInv /\ [R!Next]_R!vars => RatingInv' BY RatingNext
<1> QED BY <1>1, <1>2, <1>3, PTL DEF R!Spec

-----------------------------------------------------------------------------
(* Photos: what they rely on *)

\* The photos of a target, and those of any.
OfTarget(rows, t) == {p \in Photo : rows[p].on = t}
OfAny(rows) == {p \in Photo : rows[p].on # Null}

\* A request has what its step needs.
PhotoShapes ==
  /\ photo = [p \in Photo |-> photo[p]]
  /\ \A p \in Photo : photo[p] = [file |-> photo[p].file, on |-> photo[p].on]
  /\ uploading = [s \in Slot |-> uploading[s]]
  /\ \A s \in Slot :
       LET r == uploading[s]
       IN  \/ r.op = "idle" /\ r = [op |-> "idle"]
           \/ r.op = "upload" /\ r = [op |-> "upload", on |-> r.on]
           \/ r.op = "insert" /\ r = [op |-> "insert", on |-> r.on, p |-> r.p]
           \/ r.op = "events" /\ r = [op |-> "events"]
           \/ r.op = "purge" /\ r = [op |-> "purge", left |-> r.left]
           \/ r.op = "sweep" /\ r = [op |-> "sweep", left |-> r.left, then |-> r.then]

\* A row has its file.
RowsHaveFiles ==
  \A p \in Photo : photo[p].on # Null => photo[p].file = "there"

\* What is about to get its row has a file and is nobody else's.
Inserting ==
  \A s \in Slot : uploading[s].op \in {"upload", "insert"} =>
    /\ uploading[s].on \in P!Target
    /\ uploading[s].op = "insert" =>
         LET p == uploading[s].p
         IN  /\ p \in Photo /\ photo[p].file = "there" /\ photo[p].on = Null
             /\ \A t \in Slot : uploading[t].op = "insert" /\ uploading[t].p = p => t = s
             /\ \A t \in Slot : uploading[t].op \in {"purge", "sweep"} => p \notin uploading[t].left

\* What is about to lose its file has lost its row, or is about to.
Sweeping ==
  \A s \in Slot : uploading[s].op \in {"purge", "sweep"} =>
    \A p \in uploading[s].left :
      /\ p \in Photo /\ photo[p].file # "none"
      /\ photo[p].on = Null \/ (uploading[s].op = "purge" /\ photo[p].on = Club)

\* The caps, and the upload that was let through under them.
UnderTheCaps ==
  /\ IsFiniteSet(OfAny(photo))
  /\ "uploads" \in Exclusive =>
       /\ \A e \in Event : Cardinality(OfTarget(photo, e)) <= MaxPhotosPerTarget
       /\ Cardinality(OfAny(photo)) <= MaxGalleryPhotosPerGroup
       /\ \A s \in Slot : uploading[s].op \in {"upload", "insert"} =>
            /\ uploading[s].on # Club => Cardinality(OfTarget(photo, uploading[s].on)) < MaxPhotosPerTarget
            /\ Cardinality(OfAny(photo)) < MaxGalleryPhotosPerGroup
            /\ \A t \in Slot : uploading[t].op \in {"upload", "insert"} => t = s

\* A file without a row is somebody's: to be inserted, or to be swept.
Accounted ==
  "teardown" \in Exclusive =>
    /\ \A s, t \in Slot : uploading[s].op \in {"events", "purge"} => uploading[t].op \notin {"upload", "insert"}
    /\ \A s \in Slot : uploading[s].op = "purge" => OfTarget(photo, Club) \subseteq uploading[s].left
    /\ faulty \/ \A p \in Photo : photo[p].file = "there" /\ photo[p].on = Null =>
         \/ \E s \in Slot : uploading[s].op = "insert" /\ uploading[s].p = p
         \/ \E s \in Slot : uploading[s].op = "sweep" /\ p \in uploading[s].left

PhotoInv ==
  PhotoShapes /\ RowsHaveFiles /\ Inserting /\ Sweeping /\ UnderTheCaps /\ Accounted

\* An event is not its group, and both are something.
PhotoNames == Club \notin Event /\ Null \notin Event \cup {Club}

\* The caps are numbers.
PhotoCaps == MaxPhotosPerTarget \in Nat /\ MaxGalleryPhotosPerGroup \in Nat

-----------------------------------------------------------------------------
(* Photos: steps *)

LEMMA PhotoInit ==
  ASSUME PhotoNames, PhotoCaps, P!Init PROVE PhotoInv
<1> USE DEF P!Init, P!Idle
<1>1. PhotoShapes BY DEF PhotoShapes
<1>2. OfAny(photo) = {} /\ \A e \in Event : OfTarget(photo, e) = {}
  BY DEF OfAny, OfTarget, PhotoNames
<1>3. IsFiniteSet({}) /\ Cardinality({}) = 0 BY FS_EmptySet
<1>4. RowsHaveFiles BY DEF RowsHaveFiles
<1>5. Inserting BY DEF Inserting
<1>6. Sweeping BY DEF Sweeping
<1>7. UnderTheCaps
  <2>1. \A s \in Slot : uploading[s].op = "idle" OBVIOUS
  <2>2. 0 <= MaxPhotosPerTarget /\ 0 <= MaxGalleryPhotosPerGroup BY DEF PhotoCaps
  <2> HIDE DEF P!Init
  <2> QED BY <1>2, <1>3, <2>1, <2>2 DEF UnderTheCaps
<1>8. Accounted BY DEF Accounted
<1> QED BY <1>1, <1>4, <1>5, <1>6, <1>7, <1>8 DEF PhotoInv

\* Rows go, or stay: no target gets more.
LEMMA FewerRows ==
  ASSUME IsFiniteSet(OfAny(photo)), PhotoNames, \A p \in Photo : photo'[p].on \in {photo[p].on, Null}
  PROVE  /\ IsFiniteSet(OfAny(photo')) /\ Cardinality(OfAny(photo')) <= Cardinality(OfAny(photo))
         /\ Cardinality(OfAny(photo)) \in Nat /\ Cardinality(OfAny(photo')) \in Nat
         /\ \A t \in P!Target :
              /\ Cardinality(OfTarget(photo', t)) <= Cardinality(OfTarget(photo, t))
              /\ Cardinality(OfTarget(photo, t)) \in Nat /\ Cardinality(OfTarget(photo', t)) \in Nat
<1>1. OfAny(photo') \subseteq OfAny(photo) BY DEF OfAny
<1>2. IsFiniteSet(OfAny(photo')) BY <1>1, FS_Subset
<1>3. ASSUME NEW t \in P!Target
      PROVE  /\ OfTarget(photo', t) \subseteq OfTarget(photo, t)
             /\ OfTarget(photo, t) \subseteq OfAny(photo)
  BY <1>3 DEF OfTarget, OfAny, PhotoNames, P!Target
<1>4. ASSUME NEW t \in P!Target
      PROVE  IsFiniteSet(OfTarget(photo, t)) /\ IsFiniteSet(OfTarget(photo', t))
  BY <1>3, FS_Subset
<1>5. ASSUME NEW t \in P!Target
      PROVE  Cardinality(OfTarget(photo', t)) <= Cardinality(OfTarget(photo, t))
  BY <1>3, <1>4, FS_Subset
<1> QED BY <1>1, <1>2, <1>4, <1>5, FS_Subset, FS_CardinalityType

\* No target gets more, and nobody begins an upload: the caps hold on.
LEMMA CapsKept ==
  ASSUME UnderTheCaps, Inserting, PhotoNames, PhotoCaps,
         \A p \in Photo : photo'[p].on \in {photo[p].on, Null},
         \A s \in Slot : uploading'[s].op \in {"upload", "insert"} =>
           uploading[s].op \in {"upload", "insert"} /\ uploading'[s].on = uploading[s].on
  PROVE  UnderTheCaps'
<1>1. /\ IsFiniteSet(OfAny(photo')) /\ Cardinality(OfAny(photo')) <= Cardinality(OfAny(photo))
      /\ Cardinality(OfAny(photo)) \in Nat /\ Cardinality(OfAny(photo')) \in Nat
      /\ \A t \in P!Target :
           /\ Cardinality(OfTarget(photo', t)) <= Cardinality(OfTarget(photo, t))
           /\ Cardinality(OfTarget(photo, t)) \in Nat /\ Cardinality(OfTarget(photo', t)) \in Nat
  BY FewerRows DEF UnderTheCaps
<1>2. \A e \in Event : e \in P!Target BY DEF P!Target
<1>3. ASSUME "uploads" \in Exclusive
      PROVE  /\ \A e \in Event : Cardinality(OfTarget(photo', e)) <= MaxPhotosPerTarget
             /\ Cardinality(OfAny(photo')) <= MaxGalleryPhotosPerGroup
  BY <1>1, <1>2, <1>3 DEF UnderTheCaps, PhotoCaps
<1>4. ASSUME "uploads" \in Exclusive, NEW s \in Slot, uploading'[s].op \in {"upload", "insert"}
      PROVE  /\ uploading'[s].on # Club =>
                  Cardinality(OfTarget(photo', uploading'[s].on)) < MaxPhotosPerTarget
             /\ Cardinality(OfAny(photo')) < MaxGalleryPhotosPerGroup
             /\ \A t \in Slot : uploading'[t].op \in {"upload", "insert"} => t = s
  <2>1. uploading[s].op \in {"upload", "insert"} /\ uploading'[s].on = uploading[s].on BY <1>4
  <2>2. uploading[s].on \in P!Target BY <2>1 DEF Inserting
  <2>3. /\ uploading[s].on # Club =>
             Cardinality(OfTarget(photo, uploading[s].on)) < MaxPhotosPerTarget
        /\ Cardinality(OfAny(photo)) < MaxGalleryPhotosPerGroup
        /\ \A t \in Slot : uploading[t].op \in {"upload", "insert"} => t = s
    BY <1>4, <2>1 DEF UnderTheCaps
  <2> QED BY <1>1, <2>1, <2>2, <2>3 DEF PhotoCaps
<1> QED BY <1>1, <1>3, <1>4 DEF UnderTheCaps

\* One request goes on.
LEMMA PhotoRequest ==
  ASSUME PhotoShapes, NEW s \in Slot, NEW q, P!Hold(s, q)
  PROVE  /\ uploading' = [t \in Slot |-> uploading'[t]] /\ uploading'[s] = q
         /\ \A t \in Slot : t # s => uploading'[t] = uploading[t]
BY DEF PhotoShapes, P!Hold

\* The requests keep their shape, and so do the rows.
LEMMA PhotoShapesKept ==
  ASSUME PhotoShapes, NEW s \in Slot, NEW q, P!Hold(s, q),
         \/ q.op = "idle" /\ q = [op |-> "idle"]
         \/ q.op = "upload" /\ q = [op |-> "upload", on |-> q.on]
         \/ q.op = "insert" /\ q = [op |-> "insert", on |-> q.on, p |-> q.p]
         \/ q.op = "events" /\ q = [op |-> "events"]
         \/ q.op = "purge" /\ q = [op |-> "purge", left |-> q.left]
         \/ q.op = "sweep" /\ q = [op |-> "sweep", left |-> q.left, then |-> q.then],
         photo' = [p \in Photo |-> photo'[p]],
         \A p \in Photo : photo'[p] = [file |-> photo'[p].file, on |-> photo'[p].on]
  PROVE  PhotoShapes'
<1>1. /\ uploading' = [t \in Slot |-> uploading'[t]] /\ uploading'[s] = q
      /\ \A t \in Slot : t # s => uploading'[t] = uploading[t]
  BY PhotoRequest
<1>2. ASSUME NEW t \in Slot
      PROVE  LET r == uploading'[t]
             IN  \/ r.op = "idle" /\ r = [op |-> "idle"]
                 \/ r.op = "upload" /\ r = [op |-> "upload", on |-> r.on]
                 \/ r.op = "insert" /\ r = [op |-> "insert", on |-> r.on, p |-> r.p]
                 \/ r.op = "events" /\ r = [op |-> "events"]
                 \/ r.op = "purge" /\ r = [op |-> "purge", left |-> r.left]
                 \/ r.op = "sweep" /\ r = [op |-> "sweep", left |-> r.left, then |-> r.then]
  <2>1. CASE t = s BY <2>1, <1>1
  <2>2. CASE t # s
    <3>1. uploading'[t] = uploading[t] BY <2>2, <1>1
    <3> QED BY <3>1 DEF PhotoShapes
  <2> QED BY <2>1, <2>2
<1> QED BY <1>1, <1>2 DEF PhotoShapes

LEMMA AddStep ==
  ASSUME PhotoInv, PhotoNames, PhotoCaps, NEW s \in Slot, NEW t \in P!Target, P!Add(s, t)
  PROVE  PhotoInv'
<1> USE DEF PhotoInv
<1> DEFINE q == [op |-> "upload", on |-> t]
<1>1. /\ uploading[s] = P!Idle /\ P!Hold(s, q) /\ photo' = photo /\ faulty' = faulty
      /\ P!UnderCaps(t)
      /\ "uploads" \in Exclusive => P!InFlight({"upload", "insert"}) = {}
      /\ "teardown" \in Exclusive => P!InFlight({"events", "purge", "sweep"}) = {}
  BY DEF P!Add
<1>2. q.op = "upload" /\ q.on = t /\ q = [op |-> "upload", on |-> q.on] OBVIOUS
<1> HIDE DEF q
<1>3. /\ uploading'[s] = q /\ uploading[s].op = "idle"
      /\ \A o \in Slot : o # s => uploading'[o] = uploading[o]
  BY <1>1, PhotoRequest DEF P!Idle
<1>4. PhotoShapes' BY <1>1, <1>2, PhotoShapesKept DEF PhotoShapes
<1>5. RowsHaveFiles' BY <1>1 DEF RowsHaveFiles
<1>6. Inserting' BY <1>1, <1>2, <1>3 DEF Inserting
<1>7. Sweeping' BY <1>1, <1>2, <1>3 DEF Sweeping
<1>8. UnderTheCaps'
  <2>1. \A S : P!Cardinality(S) = Cardinality(S) BY Zenon DEF P!Cardinality, Cardinality
  <2>2. P!Of(t) = OfTarget(photo, t) /\ P!Gallery = OfAny(photo)
    BY DEF P!Of, P!Gallery, P!Listed, OfTarget, OfAny
  <2>3. /\ t # Club => Cardinality(OfTarget(photo, t)) < MaxPhotosPerTarget
        /\ Cardinality(OfAny(photo)) < MaxGalleryPhotosPerGroup
    BY <1>1, <2>1, <2>2 DEF P!UnderCaps
  <2>4. "uploads" \in Exclusive => \A o \in Slot : uploading[o].op \notin {"upload", "insert"}
    BY <1>1 DEF P!InFlight
  <2>5. ASSUME "uploads" \in Exclusive, NEW o \in Slot, uploading'[o].op \in {"upload", "insert"}
        PROVE  o = s
    BY <2>4, <2>5, <1>3
  <2> QED BY <1>1, <1>2, <1>3, <2>3, <2>5 DEF UnderTheCaps
<1>9. Accounted'
  <2>1. "teardown" \in Exclusive =>
          \A o \in Slot : uploading[o].op \notin {"events", "purge", "sweep"}
    BY <1>1 DEF P!InFlight
  <2> QED BY <2>1, <1>1, <1>2, <1>3 DEF Accounted
<1> QED BY <1>4, <1>5, <1>6, <1>7, <1>8, <1>9

\* An upload breaks off.
LEMMA UploadFails ==
  ASSUME PhotoInv, PhotoNames, PhotoCaps, NEW s \in Slot, P!Fails(s),
         uploading[s].op \in {"upload", "insert"}
  PROVE  PhotoInv'
<1> USE DEF PhotoInv
<1>1. P!Hold(s, P!Idle) /\ photo' = photo /\ faulty' = TRUE BY DEF P!Fails
<1>2. P!Idle = [op |-> "idle"] /\ P!Idle.op = "idle" BY DEF P!Idle
<1>3. /\ uploading'[s] = P!Idle
      /\ \A o \in Slot : o # s => uploading'[o] = uploading[o]
  BY <1>1, PhotoRequest
<1>4. PhotoShapes' BY <1>1, <1>2, PhotoShapesKept DEF PhotoShapes
<1>5. RowsHaveFiles' BY <1>1 DEF RowsHaveFiles
<1>6. Inserting' BY <1>1, <1>2, <1>3 DEF Inserting
<1>7. Sweeping' BY <1>1, <1>2, <1>3 DEF Sweeping
<1>8. UnderTheCaps' BY <1>1, <1>2, <1>3, CapsKept
<1>9. Accounted' BY <1>1, <1>2, <1>3 DEF Accounted
<1> QED BY <1>4, <1>5, <1>6, <1>7, <1>8, <1>9

LEMMA UploadStep ==
  ASSUME PhotoInv, PhotoNames, PhotoCaps, NEW s \in Slot, P!Upload(s)
  PROVE  PhotoInv'
<1> USE DEF PhotoInv
<1>0. CASE P!Fails(s) BY <1>0, UploadFails DEF P!Upload
<1>1. CASE ~P!Fails(s)
  <2>1. PICK p \in Photo :
          /\ photo[p].file = "none" /\ photo' = [photo EXCEPT ![p].file = "there"]
          /\ P!Hold(s, [op |-> "insert", on |-> uploading[s].on, p |-> p])
          /\ faulty' = faulty
    BY <1>1 DEF P!Upload
  <2> DEFINE q == [op |-> "insert", on |-> uploading[s].on, p |-> p]
  <2>2. /\ q.op = "insert" /\ q.on = uploading[s].on /\ q.p = p
        /\ q = [op |-> "insert", on |-> q.on, p |-> q.p] /\ P!Hold(s, q)
    BY <2>1
  <2> HIDE DEF q
  <2>3. /\ uploading'[s] = q /\ uploading[s].op = "upload"
        /\ \A o \in Slot : o # s => uploading'[o] = uploading[o]
    BY <2>2, PhotoRequest DEF P!Upload
  <2>4. /\ photo' = [x \in Photo |-> photo'[x]]
        /\ photo'[p] = [file |-> "there", on |-> photo[p].on]
        /\ \A x \in Photo : x # p => photo'[x] = photo[x]
    BY <2>1 DEF PhotoShapes
  <2>5. photo[p].on = Null BY <2>1 DEF RowsHaveFiles
  <2>6. photo'[p].file = "there" /\ photo'[p].on = Null BY <2>4, <2>5
  <2>7. \A x \in Photo : photo'[x] = [file |-> photo'[x].file, on |-> photo'[x].on]
    BY <2>4 DEF PhotoShapes
  <2>8. PhotoShapes' BY <2>2, <2>4, <2>7, PhotoShapesKept
  <2>9. RowsHaveFiles' BY <2>4, <2>6 DEF RowsHaveFiles
  <2>10. Inserting'
    <3>1. \A o \in Slot : uploading[o].op = "insert" => uploading[o].p # p
      BY <2>1 DEF Inserting
    <3>2. \A o \in Slot : uploading[o].op \in {"purge", "sweep"} => p \notin uploading[o].left
      BY <2>1 DEF Sweeping
    <3> QED BY <3>1, <3>2, <2>2, <2>3, <2>4, <2>6 DEF Inserting
  <2>11. Sweeping'
    <3>2. \A o \in Slot : uploading[o].op \in {"purge", "sweep"} => p \notin uploading[o].left
      BY <2>1 DEF Sweeping
    <3> QED BY <3>2, <2>2, <2>3, <2>4 DEF Sweeping
  <2>12. UnderTheCaps' BY <2>2, <2>3, <2>4, <2>5, <2>6, CapsKept
  <2>13. Accounted'
    <3>1. "teardown" \in Exclusive =>
            /\ \A o \in Slot : uploading[o].op \notin {"events", "purge"}
            /\ \A o \in Slot : uploading'[o].op \notin {"events", "purge"}
      BY <2>2, <2>3 DEF Accounted
    <3>2. ASSUME "teardown" \in Exclusive, ~faulty', NEW x \in Photo,
                 photo'[x].file = "there", photo'[x].on = Null
          PROVE  \/ \E o \in Slot : uploading'[o].op = "insert" /\ uploading'[o].p = x
                 \/ \E o \in Slot : uploading'[o].op = "sweep" /\ x \in uploading'[o].left
      <4>1. CASE x = p BY <4>1, <2>2, <2>3
      <4>2. CASE x # p
        <5>1. photo[x].file = "there" /\ photo[x].on = Null /\ ~faulty BY <4>2, <3>2, <2>1, <2>4
        <5>2. PICK o \in Slot :
                \/ uploading[o].op = "insert" /\ uploading[o].p = x
                \/ uploading[o].op = "sweep" /\ x \in uploading[o].left
          BY <5>1, <3>2 DEF Accounted
        <5>3. uploading'[o] = uploading[o] BY <5>2, <2>3
        <5> QED BY <5>2, <5>3
      <4> QED BY <4>1, <4>2
    <3> QED BY <3>1, <3>2 DEF Accounted
  <2> QED BY <2>8, <2>9, <2>10, <2>11, <2>12, <2>13
<1> QED BY <1>0, <1>1

LEMMA InsertStep ==
  ASSUME PhotoInv, PhotoNames, PhotoCaps, NEW s \in Slot, P!Insert(s)
  PROVE  PhotoInv'
<1> USE DEF PhotoInv
<1>0. CASE P!Fails(s) BY <1>0, UploadFails DEF P!Insert
<1>1. CASE ~P!Fails(s)
  <2> DEFINE p == uploading[s].p
             t == uploading[s].on
  <2>1. /\ uploading[s].op = "insert" /\ photo' = [photo EXCEPT ![p].on = t]
        /\ P!Hold(s, P!Idle) /\ faulty' = faulty
    BY <1>1 DEF P!Insert
  <2>2. /\ p \in Photo /\ t \in P!Target /\ photo[p].file = "there" /\ photo[p].on = Null
        /\ \A o \in Slot : uploading[o].op = "insert" /\ uploading[o].p = p => o = s
        /\ \A o \in Slot : uploading[o].op \in {"purge", "sweep"} => p \notin uploading[o].left
    BY <2>1 DEF Inserting
  <2> HIDE DEF p, t
  <2>3. P!Idle = [op |-> "idle"] /\ P!Idle.op = "idle" BY DEF P!Idle
  <2>4. /\ uploading'[s] = P!Idle
        /\ \A o \in Slot : o # s => uploading'[o] = uploading[o]
    BY <2>1, PhotoRequest
  <2>5. /\ photo' = [x \in Photo |-> photo'[x]]
        /\ photo'[p] = [file |-> photo[p].file, on |-> t]
        /\ \A x \in Photo : x # p => photo'[x] = photo[x]
    BY <2>1, <2>2 DEF PhotoShapes
  <2>6. photo'[p].file = "there" /\ photo'[p].on = t /\ t # Null
    BY <2>2, <2>5 DEF P!Target, PhotoNames
  <2>7. \A x \in Photo : photo'[x] = [file |-> photo'[x].file, on |-> photo'[x].on]
    BY <2>5 DEF PhotoShapes
  <2>8. PhotoShapes' BY <2>1, <2>3, <2>5, <2>7, PhotoShapesKept
  <2>9. RowsHaveFiles' BY <2>5, <2>6 DEF RowsHaveFiles
  <2>10. Inserting' BY <2>1, <2>2, <2>3, <2>4, <2>5 DEF Inserting
  <2>11. Sweeping' BY <2>2, <2>3, <2>4, <2>5 DEF Sweeping
  <2>12. UnderTheCaps'
    <3>1. OfAny(photo') = OfAny(photo) \cup {p} BY <2>2, <2>5, <2>6 DEF OfAny
    <3>2. IsFiniteSet(OfAny(photo)) /\ p \notin OfAny(photo) BY <2>2 DEF UnderTheCaps, OfAny
    <3>3. IsFiniteSet(OfAny(photo')) /\ Cardinality(OfAny(photo')) = Cardinality(OfAny(photo)) + 1
      BY <3>1, <3>2, FS_AddElement
    <3>4. OfTarget(photo', t) = OfTarget(photo, t) \cup {p} BY <2>2, <2>5, <2>6 DEF OfTarget
    <3>5. \A e \in P!Target : e # t => OfTarget(photo', e) = OfTarget(photo, e)
      BY <2>2, <2>5, <2>6 DEF OfTarget, P!Target, PhotoNames
    <3>6. IsFiniteSet(OfTarget(photo, t)) /\ p \notin OfTarget(photo, t)
      <4>1. OfTarget(photo, t) \subseteq OfAny(photo) BY <2>6 DEF OfTarget, OfAny
      <4> QED BY <4>1, <3>2, FS_Subset
    <3>7. Cardinality(OfTarget(photo', t)) = Cardinality(OfTarget(photo, t)) + 1
      BY <3>4, <3>6, FS_AddElement
    <3>8. Cardinality(OfAny(photo)) \in Nat /\ Cardinality(OfTarget(photo, t)) \in Nat
      BY <3>2, <3>6, FS_CardinalityType
    <3>9. ASSUME "uploads" \in Exclusive
          PROVE  /\ \A e \in Event : Cardinality(OfTarget(photo', e)) <= MaxPhotosPerTarget
                 /\ Cardinality(OfAny(photo')) <= MaxGalleryPhotosPerGroup
                 /\ \A o \in Slot : uploading'[o].op \notin {"upload", "insert"}
      <4>1. /\ \A e \in Event : Cardinality(OfTarget(photo, e)) <= MaxPhotosPerTarget
            /\ t # Club => Cardinality(OfTarget(photo, t)) < MaxPhotosPerTarget
            /\ Cardinality(OfAny(photo)) < MaxGalleryPhotosPerGroup
            /\ \A o \in Slot : uploading[o].op \in {"upload", "insert"} => o = s
        BY <3>9, <2>1 DEF UnderTheCaps, t
      <4>2. Cardinality(OfAny(photo')) <= MaxGalleryPhotosPerGroup
        BY <4>1, <3>3, <3>8 DEF PhotoCaps
      <4>3. ASSUME NEW e \in Event PROVE Cardinality(OfTarget(photo', e)) <= MaxPhotosPerTarget
        <5>1. CASE e = t BY <5>1, <4>1, <3>7, <3>8 DEF PhotoCaps, PhotoNames
        <5>2. CASE e # t BY <5>2, <4>1, <3>5 DEF P!Target
        <5> QED BY <5>1, <5>2
      <4>4. \A o \in Slot : uploading'[o].op \notin {"upload", "insert"}
        BY <4>1, <2>3, <2>4
      <4> QED BY <4>2, <4>3, <4>4
    <3> QED BY <3>3, <3>9 DEF UnderTheCaps
  <2>13. Accounted'
    <3>1. "teardown" \in Exclusive => \A o \in Slot : uploading[o].op \notin {"events", "purge"}
      BY <2>1 DEF Accounted
    <3>2. "teardown" \in Exclusive => \A o \in Slot : uploading'[o].op \notin {"events", "purge"}
      BY <3>1, <2>3, <2>4
    <3>3. ASSUME "teardown" \in Exclusive, ~faulty', NEW x \in Photo,
                 photo'[x].file = "there", photo'[x].on = Null
          PROVE  \/ \E o \in Slot : uploading'[o].op = "insert" /\ uploading'[o].p = x
                 \/ \E o \in Slot : uploading'[o].op = "sweep" /\ x \in uploading'[o].left
      <4>1. x # p BY <3>3, <2>6
      <4>2. photo[x].file = "there" /\ photo[x].on = Null /\ ~faulty BY <4>1, <3>3, <2>1, <2>5
      <4>3. PICK o \in Slot :
              \/ uploading[o].op = "insert" /\ uploading[o].p = x
              \/ uploading[o].op = "sweep" /\ x \in uploading[o].left
        BY <4>2, <3>3 DEF Accounted
      <4>4. o # s BY <4>1, <4>3, <2>1 DEF p
      <4> QED BY <4>3, <4>4, <2>4
    <3> QED BY <3>2, <3>3 DEF Accounted
  <2> QED BY <2>8, <2>9, <2>10, <2>11, <2>12, <2>13
<1> QED BY <1>0, <1>1

\* Rows are deleted, and what is to be swept is known.
LEMMA RowsGo ==
  ASSUME PhotoInv, PhotoNames, PhotoCaps, NEW s \in Slot, NEW q, P!Hold(s, q),
         q.op = "sweep", q = [op |-> "sweep", left |-> q.left, then |-> q.then],
         uploading[s].op \in {"idle", "purge"}, faulty' = faulty,
         NEW ps \in SUBSET Photo, photo' = P!RowsFirst(ps),
         \A p \in q.left : /\ p \in Photo /\ photo[p].file # "none"
                           /\ photo[p].on = Null \/ p \in ps
                           /\ \A o \in Slot : uploading[o].op = "insert" => uploading[o].p # p,
         \A p \in ps : photo[p].on # Null,
         "teardown" \in Exclusive => ps \subseteq q.left
  PROVE  PhotoInv'
<1> USE DEF PhotoInv
<1>1. /\ uploading'[s] = q
      /\ \A o \in Slot : o # s => uploading'[o] = uploading[o]
  BY PhotoRequest
<1>2. /\ photo' = [x \in Photo |-> photo'[x]]
      /\ \A x \in ps : photo'[x] = [file |-> photo[x].file, on |-> Null]
      /\ \A x \in Photo : x \notin ps => photo'[x] = photo[x]
  <2>1. /\ photo' = [x \in Photo |-> photo'[x]]
        /\ \A x \in ps : photo'[x] = [photo[x] EXCEPT !.on = Null]
        /\ \A x \in Photo : x \notin ps => photo'[x] = photo[x]
    BY DEF P!RowsFirst
  <2>2. \A x \in Photo : photo[x] = [file |-> photo[x].file, on |-> photo[x].on]
    BY DEF PhotoShapes
  <2>3. ASSUME NEW x \in ps PROVE photo'[x] = [file |-> photo[x].file, on |-> Null]
    <3>1. photo'[x] = [[file |-> photo[x].file, on |-> photo[x].on] EXCEPT !.on = Null]
      BY <2>1, <2>2
    <3> QED BY <3>1
  <2> QED BY <2>1, <2>3
<1>3. /\ \A x \in Photo : photo'[x].file = photo[x].file
      /\ \A x \in ps : photo'[x].on = Null
      /\ \A x \in Photo : x \notin ps => photo'[x].on = photo[x].on
  <2>1. ASSUME NEW x \in ps PROVE photo'[x].file = photo[x].file /\ photo'[x].on = Null
    <3>1. photo'[x] = [file |-> photo[x].file, on |-> Null] BY <1>2
    <3> QED BY <3>1
  <2>2. \A x \in Photo : x \notin ps => photo'[x] = photo[x] BY <1>2
  <2> QED BY <2>1, <2>2
<1>4. ASSUME NEW x \in Photo
      PROVE  photo'[x] = [file |-> photo'[x].file, on |-> photo'[x].on]
  <2>1. CASE x \in ps
    <3>1. photo'[x] = [file |-> photo[x].file, on |-> Null] BY <2>1, <1>2
    <3>2. photo'[x].file = photo[x].file /\ photo'[x].on = Null BY <2>1, <1>3
    <3> QED BY <3>1, <3>2
  <2>2. CASE x \notin ps BY <2>2, <1>2 DEF PhotoShapes
  <2> QED BY <2>1, <2>2
<1>5. PhotoShapes'
  <2>1. \A x \in Photo : photo'[x] = [file |-> photo'[x].file, on |-> photo'[x].on] BY <1>4
  <2> QED BY <2>1, <1>2, PhotoShapesKept
<1>6. RowsHaveFiles' BY <1>3 DEF RowsHaveFiles
<1>7. Inserting'
  <2>1. ASSUME NEW o \in Slot, uploading'[o].op \in {"upload", "insert"}
        PROVE  o # s /\ uploading'[o] = uploading[o] /\ uploading[o].on \in P!Target
    BY <1>1, <2>1 DEF Inserting
  <2>2. ASSUME NEW o \in Slot, uploading'[o].op = "insert"
        PROVE  LET p == uploading'[o].p
               IN  /\ p \in Photo /\ photo'[p].file = "there" /\ photo'[p].on = Null
                   /\ \A t \in Slot : uploading'[t].op = "insert" /\ uploading'[t].p = p => t = o
                   /\ \A t \in Slot : uploading'[t].op \in {"purge", "sweep"} => p \notin uploading'[t].left
    <3>1. uploading'[o] = uploading[o] BY <2>1, <2>2
    <3> DEFINE p == uploading[o].p
    <3>2. /\ p \in Photo /\ photo[p].file = "there" /\ photo[p].on = Null
          /\ \A t \in Slot : uploading[t].op = "insert" /\ uploading[t].p = p => t = o
          /\ \A t \in Slot : uploading[t].op \in {"purge", "sweep"} => p \notin uploading[t].left
      BY <2>2, <3>1 DEF Inserting
    <3>3. p \notin q.left BY <2>2, <3>1
    <3> HIDE DEF p
    <3>4. photo'[p].file = "there" /\ photo'[p].on = Null BY <3>2, <1>3
    <3>5. \A t \in Slot : uploading'[t].op = "insert" /\ uploading'[t].p = p => t = o
      BY <3>2, <1>1
    <3>6. \A t \in Slot : uploading'[t].op \in {"purge", "sweep"} => p \notin uploading'[t].left
      BY <3>2, <3>3, <1>1
    <3> QED BY <3>1, <3>2, <3>4, <3>5, <3>6 DEF p
  <2> QED BY <2>1, <2>2 DEF Inserting
<1>8. Sweeping'
  <2>1. ASSUME NEW o \in Slot, uploading'[o].op \in {"purge", "sweep"}, NEW p \in uploading'[o].left
        PROVE  /\ p \in Photo /\ photo'[p].file # "none"
               /\ photo'[p].on = Null \/ (uploading'[o].op = "purge" /\ photo'[p].on = Club)
    <3>1. CASE o = s BY <3>1, <2>1, <1>1, <1>3
    <3>2. CASE o # s
      <4>1. uploading'[o] = uploading[o] BY <3>2, <1>1
      <4>2. /\ p \in Photo /\ photo[p].file # "none"
            /\ photo[p].on = Null \/ (uploading[o].op = "purge" /\ photo[p].on = Club)
        BY <4>1, <2>1 DEF Sweeping
      <4> QED BY <4>1, <4>2, <1>3
    <3> QED BY <3>1, <3>2
  <2> QED BY <2>1 DEF Sweeping
<1>9. UnderTheCaps' 
  <2>1. \A p \in Photo : photo'[p].on \in {photo[p].on, Null} BY <1>3
  <2>2. \A o \in Slot : uploading'[o].op \in {"upload", "insert"} =>
          uploading[o].op \in {"upload", "insert"} /\ uploading'[o].on = uploading[o].on
    BY <1>1
  <2> QED BY <2>1, <2>2, CapsKept
<1>10. Accounted'
  <2>1. ASSUME "teardown" \in Exclusive, NEW o \in Slot, NEW t \in Slot, uploading'[o].op \in {"events", "purge"}
        PROVE  uploading'[t].op \notin {"upload", "insert"}
    BY <2>1, <1>1 DEF Accounted
  <2>2. ASSUME "teardown" \in Exclusive, NEW o \in Slot, uploading'[o].op = "purge"
        PROVE  OfTarget(photo', Club) \subseteq uploading'[o].left
    <3>1. o # s /\ uploading'[o] = uploading[o] BY <2>2, <1>1
    <3>2. OfTarget(photo, Club) \subseteq uploading[o].left BY <3>1, <2>2 DEF Accounted
    <3>3. OfTarget(photo', Club) \subseteq OfTarget(photo, Club)
      BY <1>3 DEF OfTarget, PhotoNames
    <3> QED BY <3>1, <3>2, <3>3
  <2>3. ASSUME "teardown" \in Exclusive, ~faulty', NEW x \in Photo,
               photo'[x].file = "there", photo'[x].on = Null
        PROVE  \/ \E o \in Slot : uploading'[o].op = "insert" /\ uploading'[o].p = x
               \/ \E o \in Slot : uploading'[o].op = "sweep" /\ x \in uploading'[o].left
    <3>1. CASE x \in ps BY <3>1, <2>3, <1>1
    <3>2. CASE x \notin ps
      <4>1. photo[x].file = "there" /\ photo[x].on = Null BY <3>2, <2>3, <1>3
      <4>2. PICK o \in Slot :
              \/ uploading[o].op = "insert" /\ uploading[o].p = x
              \/ uploading[o].op = "sweep" /\ x \in uploading[o].left
        BY <4>1, <2>3 DEF Accounted
      <4> QED BY <4>2, <1>1
    <3> QED BY <3>1, <3>2
  <2> QED BY <2>1, <2>2, <2>3 DEF Accounted
<1> QED BY <1>5, <1>6, <1>7, <1>8, <1>9, <1>10

LEMMA PhotoRemoveStep ==
  ASSUME PhotoInv, PhotoNames, PhotoCaps, NEW s \in Slot, NEW p \in Photo, P!Remove(s, p)
  PROVE  PhotoInv'
<1> DEFINE q == [op |-> "sweep", left |-> {p}, then |-> Null]
<1>1. /\ uploading[s].op = "idle" /\ photo[p].on # Null
      /\ photo' = P!RowsFirst({p}) /\ P!Hold(s, q) /\ faulty' = faulty
  BY DEF P!Remove, P!Idle, P!Listed
<1>2. q.op = "sweep" /\ q.left = {p} /\ q = [op |-> "sweep", left |-> q.left, then |-> q.then]
  OBVIOUS
<1> HIDE DEF q
<1>3. photo[p].file = "there" BY <1>1 DEF PhotoInv, RowsHaveFiles
<1>4. \A o \in Slot : uploading[o].op = "insert" => uploading[o].p # p
  BY <1>1 DEF PhotoInv, Inserting
<1>5. {p} \in SUBSET Photo OBVIOUS
<1> QED BY <1>1, <1>2, <1>3, <1>4, <1>5, RowsGo

LEMMA PurgeStep ==
  ASSUME PhotoInv, PhotoNames, PhotoCaps, NEW s \in Slot, P!Purge(s)
  PROVE  PhotoInv'
<1> DEFINE q == [op |-> "sweep", left |-> uploading[s].left, then |-> Club]
           ps == IF uploading[s].left = {} THEN {} ELSE OfTarget(photo, Club)
<1>1. /\ uploading[s].op = "purge" /\ P!Hold(s, q) /\ faulty' = faulty
      /\ photo' = IF uploading[s].left = {} THEN photo ELSE P!RowsFirst(P!Of(Club))
  BY DEF P!Purge
<1>2. /\ q.op = "sweep" /\ q.left = uploading[s].left
      /\ q = [op |-> "sweep", left |-> q.left, then |-> q.then]
  OBVIOUS
<1>3. ps \in SUBSET Photo /\ \A x \in ps : photo[x].on = Club BY DEF OfTarget
<1>4. photo' = P!RowsFirst(ps)
  <2>1. CASE uploading[s].left = {}
    <3>1. photo = [x \in Photo |-> photo[x]] BY DEF PhotoInv, PhotoShapes
    <3>2. P!RowsFirst({}) = [x \in Photo |-> photo[x]] BY DEF P!RowsFirst
    <3> QED BY <2>1, <3>1, <3>2, <1>1
  <2>2. CASE uploading[s].left # {}
    <3>1. P!Of(Club) = OfTarget(photo, Club) BY DEF P!Of, OfTarget
    <3> QED BY <2>2, <3>1, <1>1
  <2> QED BY <2>1, <2>2
<1>5. ASSUME NEW p \in q.left
      PROVE  /\ p \in Photo /\ photo[p].file # "none"
             /\ photo[p].on = Null \/ p \in ps
             /\ \A o \in Slot : uploading[o].op = "insert" => uploading[o].p # p
  <2>1. /\ p \in Photo /\ photo[p].file # "none"
        /\ photo[p].on = Null \/ photo[p].on = Club
        /\ uploading[s].left # {}
    BY <1>1, <1>5, <1>2 DEF PhotoInv, Sweeping
  <2>4. ps = OfTarget(photo, Club) BY <2>1
  <2>2. photo[p].on = Club => p \in ps
    <3> HIDE DEF ps
    <3> QED BY <2>1, <2>4 DEF OfTarget
  <2>3. \A o \in Slot : uploading[o].op = "insert" => uploading[o].p # p
    BY <1>1, <1>5, <1>2 DEF PhotoInv, Inserting
  <2> QED BY <2>1, <2>2, <2>3, <1>1, <1>5, <1>2 DEF PhotoInv, Sweeping
<1>6. "teardown" \in Exclusive => ps \subseteq q.left
  BY <1>1, <1>2 DEF PhotoInv, Accounted
<1>7. \A x \in ps : photo[x].on # Null BY <1>3 DEF PhotoNames
<1> HIDE DEF q, ps
<1> QED BY <1>1, <1>2, <1>3, <1>4, <1>5, <1>6, <1>7, RowsGo

LEMMA SweepStep ==
  ASSUME PhotoInv, PhotoNames, PhotoCaps, NEW s \in Slot, P!Sweep(s)
  PROVE  PhotoInv'
<1> USE DEF PhotoInv
<1>1. PICK p \in uploading[s].left :
        /\ \/ photo' = [photo EXCEPT ![p].file = "gone"] /\ faulty' = faulty
           \/ faulty' = TRUE /\ photo' = photo
        /\ P!Hold(s, [uploading[s] EXCEPT !.left = @ \ {p}])
  BY DEF P!Sweep
<1>2. uploading[s].op = "sweep" BY DEF P!Sweep
<1> DEFINE r == uploading[s]
           q == [op |-> "sweep", left |-> r.left \ {p}, then |-> r.then]
<1>3. [r EXCEPT !.left = @ \ {p}] = q
  <2>1. r = [op |-> "sweep", left |-> r.left, then |-> r.then] BY <1>2 DEF PhotoShapes
  <2> HIDE DEF r
  <2>2. [r EXCEPT !.left = @ \ {p}] = [[op |-> "sweep", left |-> r.left, then |-> r.then] EXCEPT !.left = r.left \ {p}]
    BY <2>1
  <2> QED BY <2>2
<1>4. /\ P!Hold(s, q) /\ q.op = "sweep" /\ q.left = uploading[s].left \ {p}
      /\ q = [op |-> "sweep", left |-> q.left, then |-> q.then]
  BY <1>1, <1>3
<1> HIDE DEF q, r
<1>5. /\ uploading'[s] = q
      /\ \A o \in Slot : o # s => uploading'[o] = uploading[o]
  BY <1>4, PhotoRequest
<1>6. p \in Photo /\ photo[p].file # "none" /\ photo[p].on = Null BY <1>1, <1>2 DEF Sweeping
<1>7. \A o \in Slot : uploading[o].op = "insert" => uploading[o].p # p
  BY <1>1, <1>2 DEF Inserting
<1>8. /\ photo' = [x \in Photo |-> photo'[x]]
      /\ photo'[p] = [file |-> photo'[p].file, on |-> Null]
      /\ photo'[p].file = "gone" \/ (faulty' = TRUE /\ photo'[p].file = photo[p].file)
      /\ photo'[p].on = Null
      /\ \A x \in Photo : x # p => photo'[x] = photo[x]
  <2>1. CASE photo' = photo /\ faulty' = TRUE BY <2>1, <1>6 DEF PhotoShapes
  <2>2. CASE photo' = [photo EXCEPT ![p].file = "gone"]
    <3>1. photo[p] = [file |-> photo[p].file, on |-> Null] BY <1>6 DEF PhotoShapes
    <3>2. /\ photo' = [x \in Photo |-> photo'[x]]
          /\ photo'[p] = [photo[p] EXCEPT !.file = "gone"]
          /\ \A x \in Photo : x # p => photo'[x] = photo[x]
      BY <2>2, <1>6 DEF PhotoShapes
    <3>3. photo'[p] = [[file |-> photo[p].file, on |-> Null] EXCEPT !.file = "gone"]
      BY <3>1, <3>2
    <3>4. photo'[p] = [file |-> "gone", on |-> Null] BY <3>3
    <3> QED BY <3>2, <3>4
  <2> QED BY <2>1, <2>2, <1>1
<1>9. faulty => faulty' BY <1>1
<1>10. \A x \in Photo : photo'[x] = [file |-> photo'[x].file, on |-> photo'[x].on]
  BY <1>8 DEF PhotoShapes
<1>11. PhotoShapes' BY <1>4, <1>8, <1>10, PhotoShapesKept
<1>12. RowsHaveFiles' BY <1>8 DEF RowsHaveFiles
<1>13. Inserting'
  <2>1. ASSUME NEW o \in Slot, uploading'[o].op \in {"upload", "insert"}
        PROVE  uploading'[o].on \in P!Target
    BY <2>1, <1>4, <1>5 DEF Inserting
  <2>2. ASSUME NEW o \in Slot, uploading'[o].op = "insert"
        PROVE  LET x == uploading'[o].p
               IN  /\ x \in Photo /\ photo'[x].file = "there" /\ photo'[x].on = Null
                   /\ \A t \in Slot : uploading'[t].op = "insert" /\ uploading'[t].p = x => t = o
                   /\ \A t \in Slot : uploading'[t].op \in {"purge", "sweep"} => x \notin uploading'[t].left
    <3>1. o # s /\ uploading'[o] = uploading[o] BY <2>2, <1>4, <1>5
    <3> DEFINE x == uploading[o].p
    <3>2. /\ x \in Photo /\ photo[x].file = "there" /\ photo[x].on = Null
          /\ \A t \in Slot : uploading[t].op = "insert" /\ uploading[t].p = x => t = o
          /\ \A t \in Slot : uploading[t].op \in {"purge", "sweep"} => x \notin uploading[t].left
      BY <2>2, <3>1 DEF Inserting
    <3>3. x # p BY <2>2, <3>1, <1>7
    <3> HIDE DEF x
    <3>4. photo'[x] = photo[x] BY <3>2, <3>3, <1>8
    <3>5. \A t \in Slot : uploading'[t].op = "insert" /\ uploading'[t].p = x => t = o
      BY <3>2, <1>4, <1>5
    <3>6. \A t \in Slot : uploading'[t].op \in {"purge", "sweep"} => x \notin uploading'[t].left
      BY <3>2, <1>2, <1>4, <1>5
    <3> QED BY <3>1, <3>2, <3>4, <3>5, <3>6 DEF x
  <2> QED BY <2>1, <2>2 DEF Inserting
<1>14. Sweeping'
  <2>1. ASSUME NEW o \in Slot, uploading'[o].op \in {"purge", "sweep"}, NEW x \in uploading'[o].left
        PROVE  /\ x \in Photo /\ photo'[x].file # "none"
               /\ photo'[x].on = Null \/ (uploading'[o].op = "purge" /\ photo'[x].on = Club)
    <3>1. uploading[o].op = uploading'[o].op /\ x \in uploading[o].left
      BY <2>1, <1>2, <1>4, <1>5
    <3>2. /\ x \in Photo /\ photo[x].file # "none"
          /\ photo[x].on = Null \/ (uploading[o].op = "purge" /\ photo[x].on = Club)
      BY <3>1, <2>1 DEF Sweeping
    <3>3. CASE x = p BY <3>3, <1>6, <1>8
    <3>4. CASE x # p BY <3>4, <3>1, <3>2, <1>8
    <3> QED BY <3>3, <3>4
  <2> QED BY <2>1 DEF Sweeping
<1>15. UnderTheCaps'
  <2>1. \A x \in Photo : photo'[x].on \in {photo[x].on, Null} BY <1>8
  <2>2. \A o \in Slot : uploading'[o].op \in {"upload", "insert"} =>
          uploading[o].op \in {"upload", "insert"} /\ uploading'[o].on = uploading[o].on
    BY <1>4, <1>5
  <2> QED BY <2>1, <2>2, CapsKept
<1>16. Accounted'
  <2>1. ASSUME "teardown" \in Exclusive, NEW o \in Slot, NEW t \in Slot, uploading'[o].op \in {"events", "purge"}
        PROVE  uploading'[t].op \notin {"upload", "insert"}
    BY <2>1, <1>4, <1>5 DEF Accounted
  <2>2. ASSUME "teardown" \in Exclusive, NEW o \in Slot, uploading'[o].op = "purge"
        PROVE  OfTarget(photo', Club) \subseteq uploading'[o].left
    <3>1. o # s /\ uploading'[o] = uploading[o] BY <2>2, <1>4, <1>5
    <3>2. OfTarget(photo, Club) \subseteq uploading[o].left BY <3>1, <2>2 DEF Accounted
    <3>3. OfTarget(photo', Club) \subseteq OfTarget(photo, Club)
      BY <1>8, <1>6 DEF OfTarget, PhotoNames
    <3> QED BY <3>1, <3>2, <3>3
  <2>3. ASSUME "teardown" \in Exclusive, ~faulty', NEW x \in Photo,
               photo'[x].file = "there", photo'[x].on = Null
        PROVE  \/ \E o \in Slot : uploading'[o].op = "insert" /\ uploading'[o].p = x
               \/ \E o \in Slot : uploading'[o].op = "sweep" /\ x \in uploading'[o].left
    <3>1. x # p BY <2>3, <1>8
    <3>2. photo[x].file = "there" /\ photo[x].on = Null BY <3>1, <2>3, <1>8
    <3>3. PICK o \in Slot :
            \/ uploading[o].op = "insert" /\ uploading[o].p = x
            \/ uploading[o].op = "sweep" /\ x \in uploading[o].left
      BY <3>2, <2>3, <1>9 DEF Accounted
    <3> QED BY <3>1, <3>3, <1>2, <1>4, <1>5
  <2> QED BY <2>1, <2>2, <2>3 DEF Accounted
<1> QED BY <1>11, <1>12, <1>13, <1>14, <1>15, <1>16

\* A request goes on, and no photo changes.
LEMMA TeardownStep ==
  ASSUME PhotoInv, PhotoNames, PhotoCaps, NEW s \in Slot, NEW q, P!Hold(s, q),
         photo' = photo, faulty' = faulty,
         \/ q.op = "idle" /\ q = [op |-> "idle"]
         \/ q.op = "events" /\ q = [op |-> "events"]
         \/ q.op = "purge" /\ q = [op |-> "purge", left |-> q.left],
         uploading[s].op # "insert",
         uploading[s].op = "sweep" => uploading[s].left = {},
         q.op = "purge" => q.left = OfTarget(photo, Club),
         "teardown" \in Exclusive /\ q.op # "idle" =>
           \A o \in Slot : uploading[o].op \notin {"upload", "insert"}
  PROVE  PhotoInv'
<1> USE DEF PhotoInv
<1>1. /\ uploading'[s] = q
      /\ \A o \in Slot : o # s => uploading'[o] = uploading[o]
  BY PhotoRequest
<1>2. PhotoShapes' BY PhotoShapesKept DEF PhotoShapes
<1>3. RowsHaveFiles' BY DEF RowsHaveFiles
<1>4. \A o \in Slot : uploading'[o].op \in {"upload", "insert", "sweep"} =>
        o # s /\ uploading'[o] = uploading[o]
  BY <1>1
<1>5. \A x \in OfTarget(photo, Club) :
        /\ x \in Photo /\ photo[x].file = "there" /\ photo[x].on = Club /\ photo[x].on # Null
        /\ \A o \in Slot : uploading[o].op = "insert" => uploading[o].p # x
  <2>1. \A x \in OfTarget(photo, Club) : x \in Photo /\ photo[x].on = Club /\ photo[x].on # Null
    BY DEF OfTarget, PhotoNames
  <2> QED BY <2>1 DEF RowsHaveFiles, Inserting
<1>6. Inserting'
  <2>1. ASSUME NEW o \in Slot, uploading'[o].op \in {"upload", "insert"}
        PROVE  uploading'[o].on \in P!Target
    BY <2>1, <1>4 DEF Inserting
  <2>2. ASSUME NEW o \in Slot, uploading'[o].op = "insert"
        PROVE  LET x == uploading'[o].p
               IN  /\ x \in Photo /\ photo'[x].file = "there" /\ photo'[x].on = Null
                   /\ \A t \in Slot : uploading'[t].op = "insert" /\ uploading'[t].p = x => t = o
                   /\ \A t \in Slot : uploading'[t].op \in {"purge", "sweep"} => x \notin uploading'[t].left
    <3>1. o # s /\ uploading'[o] = uploading[o] BY <2>2, <1>4
    <3> DEFINE x == uploading[o].p
    <3>2. /\ x \in Photo /\ photo[x].file = "there" /\ photo[x].on = Null
          /\ \A t \in Slot : uploading[t].op = "insert" /\ uploading[t].p = x => t = o
          /\ \A t \in Slot : uploading[t].op \in {"purge", "sweep"} => x \notin uploading[t].left
      BY <2>2, <3>1 DEF Inserting
    <3>3. x \notin OfTarget(photo, Club) BY <2>2, <3>1, <1>5
    <3> HIDE DEF x
    <3>4. \A t \in Slot : uploading'[t].op = "insert" /\ uploading'[t].p = x => t = o
      BY <3>2, <1>4
    <3>5. \A t \in Slot : uploading'[t].op \in {"purge", "sweep"} => x \notin uploading'[t].left
      BY <3>2, <3>3, <1>1
    <3> QED BY <3>1, <3>2, <3>4, <3>5 DEF x
  <2> QED BY <2>1, <2>2 DEF Inserting
<1>7. Sweeping'
  <2>1. ASSUME NEW o \in Slot, uploading'[o].op \in {"purge", "sweep"}, NEW x \in uploading'[o].left
        PROVE  /\ x \in Photo /\ photo'[x].file # "none"
               /\ photo'[x].on = Null \/ (uploading'[o].op = "purge" /\ photo'[x].on = Club)
    <3>1. CASE o = s BY <3>1, <2>1, <1>1, <1>5
    <3>2. CASE o # s
      <4>1. uploading'[o] = uploading[o] BY <3>2, <1>1
      <4> QED BY <4>1, <2>1 DEF Sweeping
    <3> QED BY <3>1, <3>2
  <2> QED BY <2>1 DEF Sweeping
<1>8. UnderTheCaps'
  <2>1. \A o \in Slot : uploading'[o].op \in {"upload", "insert"} =>
          uploading[o].op \in {"upload", "insert"} /\ uploading'[o].on = uploading[o].on
    BY <1>4
  <2> QED BY <2>1, CapsKept
<1>9. Accounted'
  <2>1. ASSUME "teardown" \in Exclusive, NEW o \in Slot, NEW t \in Slot, uploading'[o].op \in {"events", "purge"}
        PROVE  uploading'[t].op \notin {"upload", "insert"}
    <3>1. CASE o = s BY <3>1, <2>1, <1>1, <1>4
    <3>2. CASE o # s
      <4>1. uploading[o].op \in {"events", "purge"} BY <3>2, <2>1, <1>1
      <4> QED BY <4>1, <2>1, <1>4 DEF Accounted
    <3> QED BY <3>1, <3>2
  <2>2. ASSUME "teardown" \in Exclusive, NEW o \in Slot, uploading'[o].op = "purge"
        PROVE  OfTarget(photo', Club) \subseteq uploading'[o].left
    <3>1. CASE o = s BY <3>1, <2>2, <1>1
    <3>2. CASE o # s BY <3>2, <2>2, <1>1 DEF Accounted
    <3> QED BY <3>1, <3>2
  <2>3. ASSUME "teardown" \in Exclusive, ~faulty', NEW x \in Photo,
               photo'[x].file = "there", photo'[x].on = Null
        PROVE  \/ \E o \in Slot : uploading'[o].op = "insert" /\ uploading'[o].p = x
               \/ \E o \in Slot : uploading'[o].op = "sweep" /\ x \in uploading'[o].left
    <3>1. PICK o \in Slot :
            \/ uploading[o].op = "insert" /\ uploading[o].p = x
            \/ uploading[o].op = "sweep" /\ x \in uploading[o].left
      BY <2>3 DEF Accounted
    <3>2. o # s BY <3>1
    <3> QED BY <3>1, <3>2, <1>1
  <2> QED BY <2>1, <2>2, <2>3 DEF Accounted
<1> QED BY <1>2, <1>3, <1>6, <1>7, <1>8, <1>9

LEMMA SweptStep ==
  ASSUME PhotoInv, PhotoNames, PhotoCaps, NEW s \in Slot, P!Swept(s)
  PROVE  PhotoInv'
<1>1. /\ uploading[s].op = "sweep" /\ uploading[s].left = {} /\ P!Hold(s, P!Idle)
      /\ photo' = photo /\ faulty' = faulty
  BY DEF P!Swept
<1>2. P!Idle = [op |-> "idle"] /\ P!Idle.op = "idle" BY DEF P!Idle
<1> QED BY <1>1, <1>2, TeardownStep

LEMMA RemoveGroupStep ==
  ASSUME PhotoInv, PhotoNames, PhotoCaps, NEW s \in Slot, P!RemoveGroup(s)
  PROVE  PhotoInv'
<1> DEFINE q == [op |-> "events"]
<1>1. /\ uploading[s].op = "idle" /\ P!Hold(s, q) /\ photo' = photo /\ faulty' = faulty
  BY DEF P!RemoveGroup, P!Idle
<1>2. "teardown" \in Exclusive => \A o \in Slot : uploading[o].op \notin {"upload", "insert"}
  BY DEF P!RemoveGroup, P!InFlight
<1>3. q.op = "events" /\ q = [op |-> "events"] OBVIOUS
<1> HIDE DEF q
<1> QED BY <1>1, <1>2, <1>3, TeardownStep

LEMMA RemoveAllForGroupStep ==
  ASSUME PhotoInv, PhotoNames, PhotoCaps, NEW s \in Slot, P!RemoveAllForGroup(s)
  PROVE  PhotoInv'
<1> DEFINE q == [op |-> "purge", left |-> P!Of(Club)]
<1>1. /\ uploading[s].op = "events" /\ P!Hold(s, q) /\ photo' = photo /\ faulty' = faulty
  BY DEF P!RemoveAllForGroup
<1>2. "teardown" \in Exclusive => \A o \in Slot : uploading[o].op \notin {"upload", "insert"}
  BY <1>1 DEF PhotoInv, Accounted
<1>3. q.op = "purge" /\ q.left = OfTarget(photo, Club) /\ q = [op |-> "purge", left |-> q.left]
  BY DEF P!Of, OfTarget
<1> HIDE DEF q
<1> QED BY <1>1, <1>2, <1>3, TeardownStep

\* A step about events only, or none of the photos' own.
LEMMA PhotoKept ==
  ASSUME PhotoInv, UNCHANGED <<photo, faulty, uploading>> PROVE PhotoInv'
<1> USE DEF PhotoInv
<1>1. PhotoShapes' BY DEF PhotoShapes
<1>2. RowsHaveFiles' BY DEF RowsHaveFiles
<1>3. Inserting' BY DEF Inserting
<1>4. Sweeping' BY DEF Sweeping
<1>5. UnderTheCaps' BY DEF UnderTheCaps
<1>6. Accounted' BY DEF Accounted
<1> QED BY <1>1, <1>2, <1>3, <1>4, <1>5, <1>6

LEMMA PhotoNext ==
  ASSUME PhotoInv, PhotoNames, PhotoCaps, [P!Next]_(P!vars) PROVE PhotoInv'
<1>1. CASE UNCHANGED P!vars BY <1>1, PhotoKept DEF P!vars
<1>2. CASE \E s \in Slot : \E t \in P!Target : P!Add(s, t) BY <1>2, AddStep
<1>3. CASE \E s \in Slot : \E p \in Photo : P!Remove(s, p) BY <1>3, PhotoRemoveStep
<1>4. CASE \E s \in Slot : P!Upload(s) BY <1>4, UploadStep
<1>5. CASE \E s \in Slot : P!Insert(s) BY <1>5, InsertStep
<1>6. CASE \E s \in Slot : P!Sweep(s) BY <1>6, SweepStep
<1>7. CASE \E s \in Slot : P!Swept(s) BY <1>7, SweptStep
<1>8. CASE \E s \in Slot : P!RemoveGroup(s) BY <1>8, RemoveGroupStep
<1>9. CASE \E s \in Slot : P!RemoveAllForGroup(s) BY <1>9, RemoveAllForGroupStep
<1>10. CASE \E s \in Slot : P!Purge(s) BY <1>10, PurgeStep
<1>11. CASE \E e \in Event : P!RemoveEvent(e) BY <1>11, PhotoKept DEF P!RemoveEvent
<1>12. CASE \E e \in Event : \E to \in P!Status : P!SetStatus(e, to)
  BY <1>12, PhotoKept DEF P!SetStatus
<1> QED
  BY <1>1, <1>2, <1>3, <1>4, <1>5, <1>6, <1>7, <1>8, <1>9, <1>10, <1>11, <1>12 DEF P!Next

-----------------------------------------------------------------------------
(* Photos: a group that goes takes its own along *)

\* A row is of an event or of the group, and of the group only while it is there: no
\* upload to it is in flight from the time its rows are deleted.
Torn ==
  /\ \A p \in Photo : photo[p].on \in P!Target \cup {Null}
  /\ "teardown" \in Exclusive =>
       /\ club # "there" => OfTarget(photo, Club) = {}
       /\ \A s \in Slot : uploading[s].op \in {"upload", "insert"} =>
            /\ uploading[s].on = Club => club = "there"
            /\ \A o \in Slot : uploading[o].op = "sweep" => uploading[o].then # Club
       /\ \A s \in Slot : uploading[s].op = "sweep" /\ uploading[s].then = Club =>
            OfTarget(photo, Club) = {}

LEMMA TornInit ==
  ASSUME PhotoNames, P!Init PROVE Torn
<1>1. /\ \A p \in Photo : photo[p].on = Null
      /\ \A s \in Slot : uploading[s].op = "idle"
      /\ club = "there"
  BY DEF P!Init, P!Idle
<1> QED BY ONLY <1>1 DEF Torn

\* Rows go, or stay: the group gets none.
LEMMA NoneAdded ==
  ASSUME PhotoNames, \A p \in Photo : photo'[p].on \in {photo[p].on, Null}
  PROVE  OfTarget(photo', Club) \subseteq OfTarget(photo, Club)
BY DEF OfTarget, PhotoNames

\* A step that adds no row, and begins neither an upload nor the end of the group.
LEMMA TornKept ==
  ASSUME PhotoInv, Torn, PhotoNames, NEW s \in Slot, NEW q, P!Hold(s, q), club' = club,
         \A p \in Photo : photo'[p].on \in {photo[p].on, Null},
         q.op \in {"upload", "insert"} =>
           uploading[s].op \in {"upload", "insert"} /\ q.on = uploading[s].on,
         q.op = "sweep" /\ q.then = Club => uploading[s].op = "sweep" /\ uploading[s].then = Club
  PROVE  Torn'
<1>1. /\ uploading'[s] = q
      /\ \A o \in Slot : o # s => uploading'[o] = uploading[o]
  BY PhotoRequest DEF PhotoInv
<1>2. OfTarget(photo', Club) \subseteq OfTarget(photo, Club) BY NoneAdded
<1>3. \A p \in Photo : photo'[p].on \in P!Target' \cup {Null} BY DEF Torn, P!Target
<1>4. \A o \in Slot : uploading'[o].op \in {"upload", "insert"} =>
        uploading[o].op \in {"upload", "insert"} /\ uploading'[o].on = uploading[o].on
  BY <1>1
<1>5. \A o \in Slot : uploading'[o].op = "sweep" /\ uploading'[o].then = Club =>
        uploading[o].op = "sweep" /\ uploading[o].then = Club
  BY <1>1
<1> QED BY <1>2, <1>3, <1>4, <1>5 DEF Torn

LEMMA TornAdd ==
  ASSUME PhotoInv, Torn, PhotoNames, NEW s \in Slot, NEW t \in P!Target, P!Add(s, t)
  PROVE  Torn'
<1> DEFINE q == [op |-> "upload", on |-> t]
<1>1. /\ P!Hold(s, q) /\ photo' = photo /\ club' = club
      /\ t = Club => club = "there"
      /\ "teardown" \in Exclusive => \A o \in Slot : uploading[o].op # "sweep"
  BY DEF P!Add, P!MayAdd, P!InFlight
<1>2. q.op = "upload" /\ q.on = t OBVIOUS
<1> HIDE DEF q
<1>3. /\ uploading'[s] = q
      /\ \A o \in Slot : o # s => uploading'[o] = uploading[o]
  BY <1>1, PhotoRequest DEF PhotoInv
<1>4. "teardown" \in Exclusive => \A o \in Slot : uploading'[o].op # "sweep"
  BY <1>1, <1>2, <1>3
<1>5. ASSUME "teardown" \in Exclusive, NEW o \in Slot,
             uploading'[o].op \in {"upload", "insert"}, uploading'[o].on = Club
      PROVE  club' = "there"
  <2>1. CASE o = s BY <2>1, <1>1, <1>2, <1>3, <1>5
  <2>2. CASE o # s BY <2>2, <1>1, <1>3, <1>5 DEF Torn
  <2> QED BY <2>1, <2>2
<1>6. \A p \in Photo : photo'[p].on \in P!Target' \cup {Null} BY <1>1 DEF Torn, P!Target
<1>7. "teardown" \in Exclusive /\ club' # "there" => OfTarget(photo', Club) = {}
  BY <1>1 DEF Torn
<1> QED BY ONLY <1>4, <1>5, <1>6, <1>7 DEF Torn

LEMMA TornUpload ==
  ASSUME PhotoInv, Torn, PhotoNames, NEW s \in Slot, P!Upload(s)
  PROVE  Torn'
<1> DEFINE q(p) == [op |-> "insert", on |-> uploading[s].on, p |-> p]
<1>1. uploading[s].op = "upload" /\ club' = club BY DEF P!Upload
<1>2. CASE P!Hold(s, P!Idle) /\ photo' = photo
  <2>1. P!Idle.op = "idle" BY DEF P!Idle
  <2> QED BY <1>1, <1>2, <2>1, TornKept
<1>3. ASSUME NEW p \in Photo, photo' = [photo EXCEPT ![p].file = "there"], P!Hold(s, q(p))
      PROVE  Torn'
  <2>1. q(p).op = "insert" /\ q(p).on = uploading[s].on OBVIOUS
  <2>2. \A x \in Photo : photo'[x].on \in {photo[x].on, Null}
    <3>1. photo[p] = [file |-> photo[p].file, on |-> photo[p].on] BY DEF PhotoInv, PhotoShapes
    <3>2. /\ photo'[p] = [photo[p] EXCEPT !.file = "there"]
          /\ \A x \in Photo : x # p => photo'[x] = photo[x]
      BY <1>3 DEF PhotoInv, PhotoShapes
    <3>3. photo'[p].on = photo[p].on BY <3>1, <3>2
    <3> QED BY <3>2, <3>3
  <2> HIDE DEF q
  <2> QED BY <1>1, <1>3, <2>1, <2>2, TornKept
<1> QED BY <1>2, <1>3 DEF P!Upload, P!Fails

LEMMA TornInsert ==
  ASSUME PhotoInv, Torn, PhotoNames, NEW s \in Slot, P!Insert(s)
  PROVE  Torn'
<1>1. uploading[s].op = "insert" /\ club' = club /\ P!Hold(s, P!Idle)
  BY DEF P!Insert, P!Fails
<1>2. P!Idle.op = "idle" BY DEF P!Idle
<1>3. CASE photo' = photo BY <1>1, <1>2, <1>3, TornKept
<1>4. CASE photo' = [photo EXCEPT ![uploading[s].p].on = uploading[s].on]
  <2> DEFINE p == uploading[s].p
             t == uploading[s].on
  <2>1. p \in Photo /\ t \in P!Target BY <1>1 DEF PhotoInv, Inserting
  <2>2. /\ photo'[p].on = t
        /\ \A x \in Photo : x # p => photo'[x] = photo[x]
    <3>1. photo[p] = [file |-> photo[p].file, on |-> photo[p].on]
      BY <2>1 DEF PhotoInv, PhotoShapes
    <3>2. /\ photo'[p] = [photo[p] EXCEPT !.on = t]
          /\ \A x \in Photo : x # p => photo'[x] = photo[x]
      BY <1>4, <2>1 DEF PhotoInv, PhotoShapes
    <3>3. photo'[p].on = t BY <3>1, <3>2
    <3> QED BY <3>2, <3>3
  <2>3. /\ uploading'[s] = P!Idle
        /\ \A o \in Slot : o # s => uploading'[o] = uploading[o]
    BY <1>1, PhotoRequest DEF PhotoInv
  <2>4. "teardown" \in Exclusive =>
          /\ t = Club => club = "there"
          /\ \A o \in Slot : uploading[o].op = "sweep" => uploading[o].then # Club
    BY <1>1 DEF Torn
  <2> HIDE DEF p, t
  <2>5. \A x \in Photo : photo'[x].on \in P!Target' \cup {Null}
    BY <2>1, <2>2 DEF Torn, P!Target
  <2>6. "teardown" \in Exclusive /\ club' # "there" => OfTarget(photo', Club) = {}
    <3> SUFFICES ASSUME "teardown" \in Exclusive, club' # "there" PROVE OfTarget(photo', Club) = {}
      OBVIOUS
    <3>1. t # Club /\ OfTarget(photo, Club) = {} BY <1>1, <2>4 DEF Torn
    <3> QED BY <2>2, <3>1 DEF OfTarget
  <2>7. "teardown" \in Exclusive =>
          \A o \in Slot : uploading'[o].op = "sweep" => uploading'[o].then # Club
    BY <1>2, <2>3, <2>4
  <2>8. "teardown" \in Exclusive =>
          \A o \in Slot : uploading'[o].op \in {"upload", "insert"} /\ uploading'[o].on = Club
                             => club' = "there"
    BY <1>1, <1>2, <2>3 DEF Torn
  <2> QED BY ONLY <2>5, <2>6, <2>7, <2>8 DEF Torn
<1> QED BY <1>3, <1>4 DEF P!Insert, P!Fails

LEMMA TornSweep ==
  ASSUME PhotoInv, Torn, PhotoNames, NEW s \in Slot, P!Sweep(s)
  PROVE  Torn'
<1>1. PICK p \in uploading[s].left :
        /\ photo' = [photo EXCEPT ![p].file = "gone"] \/ photo' = photo
        /\ P!Hold(s, [uploading[s] EXCEPT !.left = @ \ {p}])
  BY DEF P!Sweep
<1>2. uploading[s].op = "sweep" /\ club' = club BY DEF P!Sweep
<1> DEFINE r == uploading[s]
           q == [r EXCEPT !.left = @ \ {p}]
<1>3. r = [op |-> "sweep", left |-> r.left, then |-> r.then]
  BY <1>2 DEF PhotoInv, PhotoShapes
<1>4. q.op = "sweep" /\ q.then = r.then
  <2> HIDE DEF r
  <2> QED BY <1>3
<1>5. p \in Photo BY <1>1, <1>2 DEF PhotoInv, Sweeping
<1>6. \A x \in Photo : photo'[x].on \in {photo[x].on, Null}
  <2>1. photo[p] = [file |-> photo[p].file, on |-> photo[p].on]
    BY <1>5 DEF PhotoInv, PhotoShapes
  <2>2. CASE photo' = [photo EXCEPT ![p].file = "gone"]
    <3>1. /\ photo'[p] = [photo[p] EXCEPT !.file = "gone"]
          /\ \A x \in Photo : x # p => photo'[x] = photo[x]
      BY <1>5, <2>2 DEF PhotoInv, PhotoShapes
    <3>2. photo'[p].on = photo[p].on BY <2>1, <3>1
    <3> QED BY <3>1, <3>2
  <2> QED BY <1>1, <2>2
<1>7. P!Hold(s, q) BY <1>1
<1>8. r = uploading[s] OBVIOUS
<1> HIDE DEF q, r
<1> QED BY <1>2, <1>4, <1>6, <1>7, <1>8, TornKept

\* The group goes last: its rows went before.
LEMMA TornSwept ==
  ASSUME PhotoInv, Torn, PhotoNames, NEW s \in Slot, P!Swept(s)
  PROVE  Torn'
<1>1. /\ uploading[s].op = "sweep" /\ P!Hold(s, P!Idle) /\ photo' = photo
      /\ club' = IF uploading[s].then = Club THEN "deleted" ELSE club
  BY DEF P!Swept
<1>2. P!Idle.op = "idle" BY DEF P!Idle
<1>3. CASE uploading[s].then # Club BY <1>1, <1>2, <1>3, TornKept
<1>4. CASE uploading[s].then = Club
  <2>1. /\ uploading'[s] = P!Idle
        /\ \A o \in Slot : o # s => uploading'[o] = uploading[o]
    BY <1>1, PhotoRequest DEF PhotoInv
  <2>2. "teardown" \in Exclusive =>
          /\ OfTarget(photo, Club) = {}
          /\ \A o \in Slot : uploading[o].op \notin {"upload", "insert"}
    BY <1>1, <1>4 DEF Torn
  <2>3. "teardown" \in Exclusive =>
          /\ OfTarget(photo', Club) = {}
          /\ \A o \in Slot : uploading'[o].op \notin {"upload", "insert"}
    BY <1>1, <1>2, <2>1, <2>2
  <2>4. \A x \in Photo : photo'[x].on \in P!Target' \cup {Null}
    BY <1>1 DEF Torn, P!Target
  <2> QED BY ONLY <2>3, <2>4 DEF Torn
<1> QED BY <1>3, <1>4

\* The group's rows go all at once, those the find did not return with them.
LEMMA TornPurge ==
  ASSUME PhotoInv, Torn, PhotoNames, NEW s \in Slot, P!Purge(s)
  PROVE  Torn'
<1> DEFINE q == [op |-> "sweep", left |-> uploading[s].left, then |-> Club]
<1>1. /\ uploading[s].op = "purge" /\ P!Hold(s, q) /\ club' = club
      /\ photo' = IF uploading[s].left = {} THEN photo ELSE P!RowsFirst(P!Of(Club))
  BY DEF P!Purge
<1>2. q.op = "sweep" OBVIOUS
<1> HIDE DEF q
<1>3. /\ uploading'[s] = q
      /\ \A o \in Slot : o # s => uploading'[o] = uploading[o]
  BY <1>1, PhotoRequest DEF PhotoInv
<1>4. \A x \in Photo : photo'[x].on \in {photo[x].on, Null}
  <2>1. CASE uploading[s].left = {} BY <1>1, <2>1
  <2>2. CASE uploading[s].left # {}
    <3>1. photo' = [x \in Photo |-> IF x \in P!Of(Club) THEN [photo[x] EXCEPT !.on = Null] ELSE photo[x]]
      BY <1>1, <2>2 DEF P!RowsFirst
    <3>2. ASSUME NEW x \in Photo PROVE [photo[x] EXCEPT !.on = Null].on = Null
      <4>1. photo[x] = [file |-> photo[x].file, on |-> photo[x].on] BY DEF PhotoInv, PhotoShapes
      <4> QED BY <4>1
    <3> QED BY <3>1, <3>2
  <2> QED BY <2>1, <2>2
<1>5. "teardown" \in Exclusive => OfTarget(photo', Club) = {}
  <2> SUFFICES ASSUME "teardown" \in Exclusive PROVE OfTarget(photo', Club) = {} OBVIOUS
  <2>1. CASE uploading[s].left = {}
    <3>1. OfTarget(photo, Club) = {} BY <1>1, <2>1 DEF PhotoInv, Accounted
    <3> QED BY <1>1, <2>1, <3>1
  <2>2. CASE uploading[s].left # {}
    <3>1. photo' = [x \in Photo |-> IF photo[x].on = Club THEN [photo[x] EXCEPT !.on = Null] ELSE photo[x]]
      BY <1>1, <2>2 DEF P!RowsFirst, P!Of
    <3>2. ASSUME NEW x \in Photo PROVE [photo[x] EXCEPT !.on = Null].on = Null
      <4>1. photo[x] = [file |-> photo[x].file, on |-> photo[x].on] BY DEF PhotoInv, PhotoShapes
      <4> QED BY <4>1
    <3>3. \A x \in Photo : photo'[x].on # Club BY <3>1, <3>2 DEF PhotoNames
    <3> QED BY <3>3 DEF OfTarget
  <2> QED BY <2>1, <2>2
<1>6. "teardown" \in Exclusive => \A o \in Slot : uploading'[o].op \notin {"upload", "insert"}
  BY <1>1, <1>2, <1>3 DEF PhotoInv, Accounted
<1>7. \A x \in Photo : photo'[x].on \in P!Target' \cup {Null} BY <1>4 DEF Torn, P!Target
<1> QED BY ONLY <1>5, <1>6, <1>7 DEF Torn

LEMMA TornRest ==
  ASSUME PhotoInv, Torn, PhotoNames, NEW s \in Slot,
         \/ \E p \in Photo : P!Remove(s, p)
         \/ P!RemoveGroup(s) \/ P!RemoveAllForGroup(s)
  PROVE  Torn'
<1>1. ASSUME NEW p \in Photo, P!Remove(s, p) PROVE Torn'
  <2> DEFINE q == [op |-> "sweep", left |-> {p}, then |-> Null]
  <2>1. P!Hold(s, q) /\ club' = club /\ photo' = P!RowsFirst({p}) BY <1>1 DEF P!Remove
  <2>2. q.op = "sweep" /\ q.then = Null OBVIOUS
  <2>3. \A x \in Photo : photo'[x].on \in {photo[x].on, Null}
    <3>1. photo' = [x \in Photo |-> IF x \in {p} THEN [photo[x] EXCEPT !.on = Null] ELSE photo[x]]
      BY <2>1 DEF P!RowsFirst
    <3>2. [photo[p] EXCEPT !.on = Null].on = Null
      <4>1. photo[p] = [file |-> photo[p].file, on |-> photo[p].on] BY DEF PhotoInv, PhotoShapes
      <4> QED BY <4>1
    <3> QED BY <3>1, <3>2
  <2> HIDE DEF q
  <2> QED BY <2>1, <2>2, <2>3, TornKept DEF PhotoNames
<1>2. CASE P!RemoveGroup(s)
  <2> DEFINE q == [op |-> "events"]
  <2>1. P!Hold(s, q) /\ club' = club /\ photo' = photo BY <1>2 DEF P!RemoveGroup
  <2>2. q.op = "events" OBVIOUS
  <2> HIDE DEF q
  <2> QED BY <2>1, <2>2, TornKept
<1>3. CASE P!RemoveAllForGroup(s)
  <2> DEFINE q == [op |-> "purge", left |-> P!Of(Club)]
  <2>1. P!Hold(s, q) /\ club' = club /\ photo' = photo BY <1>3 DEF P!RemoveAllForGroup
  <2>2. q.op = "purge" OBVIOUS
  <2> HIDE DEF q
  <2> QED BY <2>1, <2>2, TornKept
<1> QED BY <1>1, <1>2, <1>3

LEMMA TornNext ==
  ASSUME PhotoInv, Torn, PhotoNames, [P!Next]_(P!vars) PROVE Torn'
<1>1. ASSUME UNCHANGED <<club, photo, uploading>> PROVE Torn'
  BY <1>1 DEF Torn, OfTarget, P!Target
<1>2. CASE UNCHANGED P!vars BY <1>1, <1>2 DEF P!vars
<1>3. CASE \E s \in Slot : \E t \in P!Target : P!Add(s, t) BY <1>3, TornAdd
<1>4. CASE \E s \in Slot : P!Upload(s) BY <1>4, TornUpload
<1>5. CASE \E s \in Slot : P!Insert(s) BY <1>5, TornInsert
<1>6. CASE \E s \in Slot : P!Sweep(s) BY <1>6, TornSweep
<1>7. CASE \E s \in Slot : P!Swept(s) BY <1>7, TornSwept
<1>8. CASE \E s \in Slot : P!Purge(s) BY <1>8, TornPurge
<1>9. CASE \E s \in Slot : \/ \E p \in Photo : P!Remove(s, p)
                           \/ P!RemoveGroup(s) \/ P!RemoveAllForGroup(s)
  BY <1>9, TornRest
<1>10. CASE \E e \in Event : P!RemoveEvent(e) \/ \E to \in P!Status : P!SetStatus(e, to)
  BY <1>1, <1>10 DEF P!RemoveEvent, P!SetStatus
<1> QED BY <1>2, <1>3, <1>4, <1>5, <1>6, <1>7, <1>8, <1>9, <1>10 DEF P!Next

-----------------------------------------------------------------------------
LEMMA PhotoPromise ==
  ASSUME PhotoInv, Torn, PhotoNames PROVE P!PhotosSound
<1> USE DEF PhotoInv
<1>1. P!NoBrokenPhoto BY DEF P!NoBrokenPhoto, P!Listed, P!Files, RowsHaveFiles
<1>2. P!CapsHold
  <2>1. \A S : P!Cardinality(S) = Cardinality(S) BY Zenon DEF P!Cardinality, Cardinality
  <2>2. \A t : P!Of(t) = OfTarget(photo, t) BY DEF P!Of, OfTarget
  <2>3. P!Listed = OfAny(photo) BY DEF P!Listed, OfAny
  <2> QED BY <2>1, <2>2, <2>3 DEF P!CapsHold, UnderTheCaps
<1>3. P!NothingLeaked
  <2>1. P!Rest => \A s \in Slot : uploading[s].op = "idle" BY DEF P!Rest, P!Idle
  <2> QED BY <2>1 DEF P!NothingLeaked, P!Files, P!Listed, Accounted
<1>4. P!GroupLeavesNone
  <2> SUFFICES ASSUME "teardown" \in Exclusive, NEW p \in P!Stranded PROVE photo[p].on \in Event
    BY DEF P!GroupLeavesNone
  <2>1. p \in Photo /\ photo[p].on # Null /\ ~P!Exists(photo[p].on)
    BY DEF P!Stranded, P!Listed
  <2>2. photo[p].on \in Event \cup {Club} BY <2>1 DEF Torn, P!Target
  <2>3. photo[p].on # Club BY <2>1 DEF Torn, P!Exists, OfTarget
  <2> QED BY <2>2, <2>3
<1> QED BY <1>1, <1>2, <1>3, <1>4 DEF P!PhotosSound

\* A photo that is shown has its file, whatever fails and however requests
\* overlap; the caps hold as long as uploads do not overlap; and as long as nobody
\* uploads during a deletion, no file is left behind until something fails, and a
\* group that is deleted leaves no photo of its own, but those of its events
\* (photos.service.ts).
THEOREM PhotosStaySound ==
  ASSUME PhotoNames, PhotoCaps PROVE P!Spec => []P!PhotosSound
<1>1. P!Init => PhotoInv /\ Torn BY PhotoInit, TornInit
<1>2. PhotoInv /\ Torn /\ [P!Next]_(P!vars) => (PhotoInv /\ Torn)' BY PhotoNext, TornNext
<1>3. PhotoInv /\ Torn => P!PhotosSound BY PhotoPromise
<1> QED BY <1>1, <1>2, <1>3, PTL DEF P!Spec

-----------------------------------------------------------------------------

-----------------------------------------------------------------------------
(* Aftermath: what it relies on *)

\* A record with these fields.
Whole(r, fields) == r = [x \in fields |-> r[x]]

\* The requests about the MVP, in the two orders of their writes, and those that
\* enter a score.
Naming == {"name", "give", "delete", "create", "keep"}
Entering == {"fixture", "score"}
Writing == {"score", "name", "give", "delete", "create", "take", "keep", "clear"}

ClosingShape(r) ==
  \/ r.op = "idle"
  \/ r.op \in Entering
  \/ r.op \in Naming /\ Whole(r, {"op", "player", "replace", "result"})
  \/ r.op \in {"take", "clear"} /\ Whole(r, {"op", "result"})
  \/ r.op \in {"status", "win"} /\ Whole(r, {"op", "to", "score"})

ResultShape(res) == res = [mvp |-> res.mvp, counts |-> res.counts, score |-> res.score]

ClosingShapes ==
  /\ ResultShape(result)
  /\ closing = [s \in Slot |-> closing[s]]
  /\ \A s \in Slot : ClosingShape(closing[s])

\* One result is written at a time, and one move of the event is made.
OneAtATime ==
  \A s, t \in Slot :
    /\ closing[s].op \in Writing /\ closing[t].op \in Writing => s = t
    /\ closing[s].op = "status" /\ closing[t].op = "status" => s = t
    /\ closing[s].op = "win" /\ closing[t].op = "win" => s = t

\* The result a request writes, against the one it will replace.
Carries(r, res) ==
  /\ ResultShape(r.result) /\ r.result.counts \in {r.result.mvp, Null}
  /\ r.op = "score" => r.result.mvp = res.mvp
  /\ r.op # "score" => r.result.score = res.score
  /\ r.op \in Naming => r.result.mvp = r.player
  /\ r.op \in {"take", "clear"} => r.result.mvp = Null

\* How far a request is with the result and the award m.
Reached(r, res, m) ==
  /\ r.op \in {"give", "delete", "create"} /\ r.replace => res.mvp = r.player
  /\ r.op \in {"name", "delete"} => r.replace
  /\ r.op = "create" => m = Null
  /\ r.op = "keep" => m = r.player
  /\ r.op = "clear" => m = Null

\* A request is between its two writes.
Midway(r) ==
  \/ r.op \in {"delete", "create", "keep", "clear"}
  \/ r.op = "give" /\ r.replace

InStep ==
  /\ result.counts \in {result.mvp, Null}
  /\ \A s \in Slot : closing[s].op \in Writing =>
       Carries(closing[s], result) /\ Reached(closing[s], result, mvp)
  /\ owed \/ result.mvp = mvp \/ \E s \in Slot : Midway(closing[s])

\* A move of the event, and the award that follows it, go by a score that no
\* request is about to change.
Deciding ==
  /\ \A s \in Slot : closing[s].op = "status" =>
       /\ A!CanTransition("challenge", status, closing[s].to)
       /\ closing[s].to = "done" =>
            /\ closing[s].score = result.score
            /\ \A t \in Slot : closing[t].op \notin Writing \cup {"fixture"}
  /\ status = "done" => \A s \in Slot : closing[s].op \notin Entering
  /\ \A s \in Slot : closing[s].op = "win" =>
       status = "done" /\ closing[s].score = result.score /\ won = A!NoAward

\* The winner by a result and the fixture's score.
Top(res, score) == A!Winner(IF res.score = Null THEN score ELSE res.score)

Winning ==
  /\ won # A!NoAward => status = "done" /\ won.group = Top(result, fixture)
  /\ status = "done" =>
       missed \/ won.group = Top(result, fixture) \/ \E s \in Slot : closing[s].op = "win"
  /\ missed => status = "done" /\ won = A!NoAward /\ \A s \in Slot : closing[s].op # "win"
  /\ memory \subseteq won.eligible /\ \A p \in won.eligible : Side[p] = won.group

AftermathInv == ClosingShapes /\ OneAtATime /\ InStep /\ Deciding /\ Winning

\* Writes of the result do not overlap, nor do moves of the event with each other or
\* with a write of a score.
InOrder == "results" \in Exclusive /\ "archive" \in Exclusive

-----------------------------------------------------------------------------
(* Aftermath: steps *)

LEMMA AftermathInit ==
  ASSUME A!Init PROVE AftermathInv
<1> USE DEF A!Init
<1>1. \A s \in Slot : closing[s].op = "idle" BY DEF A!Idle
<1>2. result.mvp = Null /\ result.counts = Null /\ result.score = Null BY DEF A!NoResult
<1>3. ClosingShapes
  <2>1. ResultShape(result) BY <1>2 DEF ResultShape, A!NoResult
  <2> QED BY <1>1, <2>1 DEF ClosingShapes, ClosingShape
<1>4. OneAtATime BY <1>1 DEF OneAtATime, Writing
<1>5. InStep BY <1>1, <1>2 DEF InStep, Writing
<1>6. Deciding BY <1>1 DEF Deciding, Entering
<1>7. Winning
  <2>1. won.eligible = {} BY DEF A!NoAward
  <2> QED BY <2>1 DEF Winning
<1> QED BY <1>3, <1>4, <1>5, <1>6, <1>7 DEF AftermathInv

\* One request goes on.
LEMMA ClosingRequest ==
  ASSUME ClosingShapes, NEW s \in Slot, NEW q, A!Proceed(s, q)
  PROVE  /\ closing' = [t \in Slot |-> closing'[t]] /\ closing'[s] = q
         /\ \A t \in Slot : t # s => closing'[t] = closing[t]
BY DEF ClosingShapes, A!Proceed

\* A record goes on to its next step.
LEMMA Advanced ==
  ASSUME NEW r, NEW fields, "op" \in fields, Whole(r, fields), NEW op
  PROVE  LET q == [r EXCEPT !.op = op]
         IN  q.op = op /\ Whole(q, fields) /\ \A x \in fields : x # "op" => q[x] = r[x]
BY DEF Whole

\* What is left to show of a request that goes on.
LEMMA ClosingKept ==
  ASSUME AftermathInv, NEW s \in Slot, NEW q, A!Proceed(s, q), ClosingShape(q),
         ResultShape(result'), result'.counts \in {result'.mvp, Null},
         q.op \in Writing => closing[s].op \in Writing \/ \A t \in Slot : closing[t].op \notin Writing,
         q.op = "status" => \A t \in Slot : closing[t].op # "status",
         q.op = "win" => \A t \in Slot : closing[t].op # "win",
         q.op \in Writing => Carries(q, result') /\ Reached(q, result', mvp'),
         closing[s].op \in Writing \/ (result' = result /\ mvp' = mvp),
         \/ owed' \/ result'.mvp = mvp' \/ Midway(q)
         \/ (result'.mvp = mvp' <=> result.mvp = mvp) /\ (owed => owed') /\ ~Midway(closing[s])
  PROVE  ClosingShapes' /\ OneAtATime' /\ InStep'
<1> USE DEF AftermathInv
<1>1. /\ closing' = [t \in Slot |-> closing'[t]] /\ closing'[s] = q
      /\ \A t \in Slot : t # s => closing'[t] = closing[t]
  BY ClosingRequest
<1>2. ClosingShapes'
  <2>1. ASSUME NEW t \in Slot PROVE ClosingShape(closing'[t])
    <3>1. CASE t = s BY <3>1, <1>1
    <3>2. CASE t # s
      <4>1. closing'[t] = closing[t] BY <3>2, <1>1
      <4>2. ClosingShape(closing[t]) BY DEF ClosingShapes
      <4> QED BY <4>1, <4>2
    <3> QED BY <3>1, <3>2
  <2> QED BY <1>1, <2>1 DEF ClosingShapes
<1>3. OneAtATime' BY <1>1 DEF OneAtATime
<1>4. ASSUME NEW t \in Slot, closing'[t].op \in Writing
      PROVE  Carries(closing'[t], result') /\ Reached(closing'[t], result', mvp')
  <2>1. CASE t = s BY <2>1, <1>1, <1>4
  <2>2. CASE t # s
    <3>1. closing'[t] = closing[t] BY <2>2, <1>1
    <3>2. closing[s].op \notin Writing BY <2>2, <3>1, <1>4 DEF OneAtATime
    <3>3. result' = result /\ mvp' = mvp BY <3>2
    <3>4. Carries(closing[t], result) /\ Reached(closing[t], result, mvp)
      BY <3>1, <1>4 DEF InStep
    <3> QED BY <3>1, <3>3, <3>4
  <2> QED BY <2>1, <2>2
<1>5. owed' \/ result'.mvp = mvp' \/ \E t \in Slot : Midway(closing'[t])
  <2>1. CASE Midway(q) BY <2>1, <1>1
  <2>2. CASE /\ result'.mvp = mvp' <=> result.mvp = mvp
             /\ owed => owed'
             /\ ~Midway(closing[s])
    <3>1. CASE \E t \in Slot : Midway(closing[t])
      <4>1. PICK t \in Slot : Midway(closing[t]) BY <3>1
      <4>2. t # s BY <4>1, <2>2
      <4>3. closing'[t] = closing[t] BY <4>2, <1>1
      <4> QED BY <4>1, <4>3
    <3>2. CASE ~\E t \in Slot : Midway(closing[t]) BY <3>2, <2>2 DEF InStep
    <3> QED BY <3>1, <3>2
  <2> QED BY <2>1, <2>2
<1>6. InStep' BY <1>4, <1>5 DEF InStep
<1> QED BY <1>2, <1>3, <1>6

\* A request goes on that neither moves the event nor gives the group's award: the
\* score stays the one the award goes by.
LEMMA DecidedKept ==
  ASSUME AftermathInv, NEW s \in Slot, NEW q, A!Proceed(s, q),
         status' = status, won' = won, memory' = memory, missed' <=> missed,
         q.op \notin {"status", "win"}, closing[s].op # "win",
         q.op \in Writing \cup {"fixture"} =>
           closing[s].op \in Writing \cup {"fixture"} \/ \A t \in Slot : closing[t].op # "status",
         q.op \in Entering => status # "done",
         result'.score = result.score \/ closing[s].op = "score",
         fixture' = fixture \/ closing[s].op = "fixture"
  PROVE  Deciding' /\ Winning'
<1> USE DEF AftermathInv
<1>1. /\ closing'[s] = q
      /\ \A t \in Slot : t # s => closing'[t] = closing[t]
  BY ClosingRequest
<1>2. \A t \in Slot : closing'[t].op \in {"status", "win"} => t # s /\ closing'[t] = closing[t]
  BY <1>1
<1>3. ASSUME status = "done" \/ \E t \in Slot : closing[t].op = "status" /\ closing[t].to = "done"
      PROVE  result'.score = result.score /\ fixture' = fixture
  BY <1>3 DEF Deciding, Entering, Writing
<1>4. Deciding'
  <2>1. ASSUME NEW t \in Slot, closing'[t].op = "status"
        PROVE  /\ A!CanTransition("challenge", status, closing'[t].to)
               /\ closing'[t].to = "done" =>
                    /\ closing'[t].score = result'.score
                    /\ \A o \in Slot : closing'[o].op \notin Writing \cup {"fixture"}
    <3>1. t # s /\ closing'[t] = closing[t] /\ closing[t].op = "status" BY <2>1, <1>2
    <3>2. A!CanTransition("challenge", status, closing[t].to) BY <3>1 DEF Deciding
    <3>3. ASSUME closing[t].to = "done"
          PROVE  /\ closing[t].score = result'.score
                 /\ \A o \in Slot : closing'[o].op \notin Writing \cup {"fixture"}
      <4>1. /\ closing[t].score = result.score
            /\ \A o \in Slot : closing[o].op \notin Writing \cup {"fixture"}
        BY <3>1, <3>3 DEF Deciding
      <4>2. result'.score = result.score BY <3>1, <3>3, <1>3
      <4>3. q.op \notin Writing \cup {"fixture"} BY <4>1, <3>1
      <4> QED BY <4>1, <4>2, <4>3, <1>1
    <3> QED BY <3>1, <3>2, <3>3
  <2>2. status = "done" => \A t \in Slot : closing'[t].op \notin Entering
    BY <1>1 DEF Deciding
  <2>3. ASSUME NEW t \in Slot, closing'[t].op = "win"
        PROVE  status = "done" /\ closing'[t].score = result'.score /\ won = A!NoAward
    <3>1. closing'[t] = closing[t] /\ closing[t].op = "win" BY <2>3, <1>2
    <3>2. status = "done" /\ closing[t].score = result.score /\ won = A!NoAward
      BY <3>1 DEF Deciding
    <3> QED BY <3>1, <3>2, <1>3
  <2> QED BY <2>1, <2>2, <2>3 DEF Deciding
<1>5. Winning'
  <2>1. status = "done" => Top(result', fixture') = Top(result, fixture) BY <1>3 DEF Top
  <2>2. ASSUME NEW t \in Slot, closing[t].op = "win" PROVE closing'[t].op = "win"
    BY <2>2, <1>1
  <2>3. ASSUME missed' PROVE status' = "done" /\ won' = A!NoAward /\ \A t \in Slot : closing'[t].op # "win"
    <3>1. missed BY <2>3
    <3>2. status = "done" /\ won = A!NoAward /\ \A t \in Slot : closing[t].op # "win"
      BY <3>1 DEF Winning
    <3> QED BY <3>2, <1>2
  <2> QED BY <2>1, <2>2, <2>3 DEF Winning
<1> QED BY <1>4, <1>5

LEMMA Begun ==
  ASSUME AftermathInv, NEW s \in Slot, NEW q, A!Begin(s, q), ClosingShape(q),
         q.op \notin {"status", "win"},
         q.op \in Writing => \A t \in Slot : closing[t].op \notin Writing,
         q.op \in Writing => Carries(q, result) /\ Reached(q, result, mvp),
         q.op \in Writing \cup {"fixture"} => \A t \in Slot : closing[t].op # "status",
         q.op \in Entering => status # "done"
  PROVE  AftermathInv'
<1>1. /\ closing[s].op = "idle" /\ A!Proceed(s, q)
      /\ status' = status /\ result' = result /\ fixture' = fixture /\ joined' = joined
      /\ members' = members /\ mvp' = mvp /\ won' = won /\ memory' = memory /\ missed' = missed /\ owed' = owed
  BY DEF A!Begin, A!Idle, A!store, A!broken
<1>2. ~Midway(closing[s]) BY <1>1 DEF Midway
<1>3. ResultShape(result') /\ result'.counts \in {result'.mvp, Null}
  BY <1>1 DEF AftermathInv, ClosingShapes, InStep
<1>4. q.op \in Writing => Carries(q, result') /\ Reached(q, result', mvp') BY <1>1
<1>5. ClosingShapes' /\ OneAtATime' /\ InStep' BY <1>1, <1>2, <1>3, <1>4, ClosingKept
<1>6. Deciding' /\ Winning' BY <1>1, DecidedKept
<1> QED BY <1>5, <1>6 DEF AftermathInv

\* What the handlers check before they begin.
LEMMA Free ==
  ASSUME InOrder, A!FreeToResult
  PROVE  \A t \in Slot : closing[t].op \notin Writing /\ closing[t].op # "status"
BY DEF InOrder, A!FreeToResult, A!InFlight, A!Resulting, Writing

LEMMA ScoreFixtureStep ==
  ASSUME AftermathInv, InOrder, NEW s \in Slot, NEW score, A!ScoreFixture(s, score)
  PROVE  AftermathInv'
<1> DEFINE q == [op |-> "fixture", score |-> score]
<1>1. /\ A!Begin(s, q) /\ status # "done"
      /\ \A t \in Slot : closing[t].op # "status"
  BY DEF A!ScoreFixture, A!CanEnterScore, InOrder, A!InFlight
<1>2. q.op = "fixture" OBVIOUS
<1> HIDE DEF q
<1>3. ClosingShape(q) BY <1>2 DEF ClosingShape, Entering
<1>4. q.op \notin Writing BY <1>2 DEF Writing
<1> QED BY <1>1, <1>2, <1>3, <1>4, Begun

LEMMA SubmitResultStep ==
  ASSUME AftermathInv, InOrder, NEW s \in Slot, NEW score, A!SubmitResult(s, score)
  PROVE  AftermathInv'
<1> DEFINE q == [op |-> "score", result |-> A!Rescored(result, score)]
<1>1. A!Begin(s, q) /\ status # "done" /\ A!FreeToResult
  BY DEF A!SubmitResult, A!CanSubmitResult
<1>2. q.op = "score" /\ q.result = A!Rescored(result, score) OBVIOUS
<1> HIDE DEF q
<1>3. ClosingShape(q) BY <1>2 DEF ClosingShape, Entering
<1>4. ResultShape(result) /\ result.counts \in {result.mvp, Null}
  BY DEF AftermathInv, ClosingShapes, InStep
<1>5. q.result = [mvp |-> result.mvp, counts |-> result.counts, score |-> score]
  <2>1. result = [mvp |-> result.mvp, counts |-> result.counts, score |-> result.score]
    BY <1>4 DEF ResultShape
  <2>2. A!Rescored(result, score) = [result EXCEPT !.score = score] BY DEF A!Rescored
  <2>3. [[mvp |-> result.mvp, counts |-> result.counts, score |-> result.score] EXCEPT !.score = score]
          = [mvp |-> result.mvp, counts |-> result.counts, score |-> score]
    OBVIOUS
  <2> QED BY <1>2, <2>1, <2>2, <2>3
<1>6. Carries(q, result) BY <1>2, <1>4, <1>5 DEF Carries, ResultShape, Naming
<1>7. Reached(q, result, mvp) BY <1>2 DEF Reached
<1> QED BY <1>1, <1>2, <1>3, <1>6, <1>7, Free, Begun

\* The result with an MVP named.
LEMMA NamedResult ==
  ASSUME AftermathInv, NEW p, NEW counts
  PROVE  A!Named(p, counts) = [mvp |-> p, counts |-> counts, score |-> result.score]
<1>1. result = [mvp |-> result.mvp, counts |-> result.counts, score |-> result.score]
  BY DEF AftermathInv, ClosingShapes, ResultShape
<1> DEFINE once == [result EXCEPT !.mvp = p]
           twice == [result EXCEPT !.mvp = p, !.counts = counts]
<1>2. once = [mvp |-> p, counts |-> result.counts, score |-> result.score] BY <1>1
<1>3. twice = [once EXCEPT !.counts = counts] OBVIOUS
<1> HIDE DEF once, twice
<1>4. twice = [mvp |-> p, counts |-> counts, score |-> result.score] BY <1>2, <1>3
<1> QED BY <1>4 DEF twice, A!Named

\* A request about the MVP begins.
LEMMA NamingBegun ==
  ASSUME AftermathInv, InOrder, A!FreeToResult, NEW s \in Slot, NEW p, NEW counts \in {p, Null},
         NEW q, A!Begin(s, q), q.op \in {"name", "give"}, q.player = p,
         Whole(q, {"op", "player", "replace", "result"}),
         q.op = "give" => ~q.replace, q.op = "name" => q.replace, q.result = A!Named(p, counts)
  PROVE  AftermathInv'
<1>1. q.result = [mvp |-> p, counts |-> counts, score |-> result.score] BY NamedResult
<1>2. q.result.mvp = p /\ q.result.counts = counts /\ q.result.score = result.score BY <1>1
<1>3. Carries(q, result) BY <1>1, <1>2 DEF Carries, ResultShape
<1>4. Reached(q, result, mvp) BY DEF Reached
<1>5. ClosingShape(q) BY DEF ClosingShape, Naming
<1>6. q.op \notin Entering BY DEF Entering
<1> QED BY <1>3, <1>4, <1>5, <1>6, Free, Begun

LEMMA SubmitMvpStep ==
  ASSUME AftermathInv, InOrder, NEW s \in Slot, NEW p, A!SubmitMvp(s, p)
  PROVE  AftermathInv'
<1> DEFINE q == [op |-> "name", player |-> p, replace |-> TRUE, result |-> A!Named(p, p)]
<1>1. A!Begin(s, q) /\ A!FreeToResult BY DEF A!SubmitMvp
<1>2. /\ q.op = "name" /\ q.player = p /\ q.result = A!Named(p, p)
      /\ Whole(q, {"op", "player", "replace", "result"})
  BY DEF Whole
<1>3. q.replace OBVIOUS
<1> HIDE DEF q
<1> QED BY <1>1, <1>2, <1>3, NamingBegun

LEMMA AwardMvpStep ==
  ASSUME AftermathInv, InOrder, NEW s \in Slot, NEW p, A!AwardMvp(s, p)
  PROVE  AftermathInv'
<1> DEFINE counts == IF result.mvp = p THEN result.counts ELSE Null
           q == [op |-> "give", player |-> p, replace |-> FALSE, result |-> A!Named(p, counts)]
<1>1. A!Begin(s, q) /\ A!FreeToResult BY DEF A!AwardMvp
<1>2. counts \in {p, Null} BY DEF AftermathInv, InStep
<1> HIDE DEF counts
<1>3. /\ q.op = "give" /\ q.player = p /\ q.result = A!Named(p, counts)
      /\ Whole(q, {"op", "player", "replace", "result"})
  BY DEF Whole
<1>4. ~q.replace OBVIOUS
<1> HIDE DEF q
<1> QED BY <1>1, <1>2, <1>3, <1>4, NamingBegun

LEMMA RevokeMvpStep ==
  ASSUME AftermathInv, InOrder, NEW s \in Slot, A!RevokeMvp(s)
  PROVE  AftermathInv'
<1> DEFINE q == [op |-> "take", result |-> A!Named(Null, Null)]
<1>1. A!Begin(s, q) /\ A!FreeToResult BY DEF A!RevokeMvp
<1>2. q.op = "take" /\ q.result = A!Named(Null, Null) /\ Whole(q, {"op", "result"}) BY DEF Whole
<1> HIDE DEF q
<1>3. q.result = [mvp |-> Null, counts |-> Null, score |-> result.score] BY <1>2, NamedResult
<1>4. q.result.mvp = Null /\ q.result.counts = Null /\ q.result.score = result.score BY <1>3
<1>5. Carries(q, result) BY <1>2, <1>3, <1>4 DEF Carries, ResultShape, Naming
<1>6. Reached(q, result, mvp) BY <1>2 DEF Reached
<1>7. ClosingShape(q) BY <1>2 DEF ClosingShape
<1>8. q.op \notin Entering BY <1>2 DEF Entering
<1> QED BY <1>1, <1>2, <1>5, <1>6, <1>7, <1>8, Free, Begun

-----------------------------------------------------------------------------
(* Aftermath: the writes *)

\* A write of the result, or of the award, by the request that holds it.
LEMMA Wrote ==
  ASSUME AftermathInv, NEW s \in Slot, NEW q, A!Proceed(s, q), ClosingShape(q),
         closing[s].op \in Writing, q.op \in Writing \cup {"idle"}, q.op # "score",
         status' = status, fixture' = fixture, won' = won, memory' = memory, missed' = missed,
         ResultShape(result'), result'.counts \in {result'.mvp, Null},
         result'.score = result.score \/ closing[s].op = "score",
         q.op \in Writing => Carries(q, result') /\ Reached(q, result', mvp'),
         \/ owed' \/ result'.mvp = mvp' \/ Midway(q)
         \/ (result'.mvp = mvp' <=> result.mvp = mvp) /\ (owed => owed') /\ ~Midway(closing[s])
  PROVE  AftermathInv'
<1>1. q.op \notin {"status", "win", "fixture", "score"} BY DEF Writing
<1>2. closing[s].op # "win" BY DEF Writing
<1>3. ClosingShapes' /\ OneAtATime' /\ InStep' BY <1>1, ClosingKept
<1>4. Deciding' /\ Winning' BY <1>1, <1>2, DecidedKept DEF Entering
<1> QED BY <1>3, <1>4 DEF AftermathInv

\* What a request holds that is writing.
LEMMA Writer ==
  ASSUME AftermathInv, NEW s \in Slot, closing[s].op \in Writing
  PROVE  /\ Carries(closing[s], result) /\ Reached(closing[s], result, mvp)
         /\ ResultShape(closing[s].result)
         /\ closing[s].result.counts \in {closing[s].result.mvp, Null}
         /\ ResultShape(result) /\ result.counts \in {result.mvp, Null}
BY DEF AftermathInv, ClosingShapes, InStep, Carries

LEMMA AIdle == A!Idle.op = "idle" /\ ClosingShape(A!Idle) /\ ~Midway(A!Idle)
<1>1. A!Idle.op = "idle" BY DEF A!Idle
<1> QED BY <1>1 DEF ClosingShape, Midway

\* A request about the MVP goes on.
LEMMA NamingOn ==
  ASSUME AftermathInv, NEW s \in Slot, closing[s].op \in Naming,
         NEW op \in Naming, NEW q, q = [closing[s] EXCEPT !.op = op]
  PROVE  /\ q.op = op /\ ClosingShape(q) /\ q.player = closing[s].player
         /\ q.replace = closing[s].replace /\ q.result = closing[s].result
<1> DEFINE fields == {"op", "player", "replace", "result"}
           r == closing[s]
<1>1. Whole(r, fields)
  BY DEF AftermathInv, ClosingShapes, ClosingShape, Naming, Entering
<1>2. "op" \in fields /\ "player" \in fields /\ "replace" \in fields /\ "result" \in fields
  OBVIOUS
<1> HIDE DEF fields, r
<1>3. q = [r EXCEPT !.op = op] BY DEF r
<1>4. q.op = op /\ Whole(q, fields) /\ \A x \in fields : x # "op" => q[x] = r[x]
  BY <1>1, <1>2, <1>3, Advanced
<1>5. q["player"] = r["player"] /\ q["replace"] = r["replace"] /\ q["result"] = r["result"]
  BY <1>2, <1>4
<1>6. ClosingShape(q) BY <1>4 DEF ClosingShape, fields
<1> QED BY <1>4, <1>5, <1>6 DEF r

LEMMA SaveScoreStep ==
  ASSUME AftermathInv, NEW s \in Slot, A!SaveScore(s)
  PROVE  AftermathInv'
<1>1. /\ closing[s].op = "score" /\ result' = closing[s].result /\ A!Proceed(s, A!Idle)
      /\ status' = status /\ fixture' = fixture /\ mvp' = mvp /\ won' = won /\ memory' = memory /\ missed' = missed
      /\ owed' = owed
  BY DEF A!SaveScore, A!SaveResult, A!At, A!Finish, A!broken
<1>2. closing[s].op \in Writing /\ ~Midway(closing[s]) BY <1>1 DEF Writing, Midway
<1>3. closing[s].result.mvp = result.mvp BY <1>1, <1>2, Writer DEF Carries
<1>4. A!Idle.op \notin Writing BY AIdle DEF Writing
<1> QED BY <1>1, <1>2, <1>3, <1>4, Writer, AIdle, Wrote

LEMMA SaveNamedStep ==
  ASSUME AftermathInv, NEW s \in Slot, A!SaveNamed(s)
  PROVE  AftermathInv'
<1> DEFINE q == [closing[s] EXCEPT !.op = "give"]
<1>1. /\ closing[s].op = "name" /\ result' = closing[s].result /\ A!Proceed(s, q)
      /\ status' = status /\ fixture' = fixture /\ mvp' = mvp /\ won' = won /\ memory' = memory /\ missed' = missed
      /\ owed' = owed
  BY DEF A!SaveNamed, A!SaveResult, A!At, A!Advance, A!broken
<1>2. closing[s].op \in Writing /\ closing[s].op \in Naming /\ "give" \in Naming
  BY <1>1 DEF Writing, Naming
<1>3. /\ q.op = "give" /\ ClosingShape(q) /\ q.player = closing[s].player
      /\ q.replace = closing[s].replace /\ q.result = closing[s].result
  BY <1>2, NamingOn
<1> HIDE DEF q
<1>4. /\ ResultShape(closing[s].result) /\ closing[s].result.mvp = closing[s].player
      /\ closing[s].result.counts \in {closing[s].result.mvp, Null}
      /\ closing[s].result.score = result.score
  BY <1>1, <1>2, Writer DEF Carries
<1>5. Carries(q, result') BY <1>1, <1>3, <1>4 DEF Carries
<1>6. Reached(q, result', mvp') BY <1>1, <1>3, <1>4 DEF Reached
<1>7. q.op \in Writing BY <1>3 DEF Writing
<1>8. \/ owed' \/ result'.mvp = mvp' \/ Midway(q)
      \/ (result'.mvp = mvp' <=> result.mvp = mvp) /\ (owed => owed') /\ ~Midway(closing[s])
  <2>1. closing[s].replace BY <1>1, <1>2, Writer DEF Reached
  <2>2. Midway(q) BY <1>3, <2>1 DEF Midway
  <2> QED BY <2>2
<1> QED BY <1>1, <1>2, <1>3, <1>4, <1>5, <1>6, <1>7, <1>8, Wrote

\* The request that goes on has the result it had, and writes the award.
LEMMA NamingGoesOn ==
  ASSUME AftermathInv, NEW s \in Slot, closing[s].op \in {"give", "delete", "create"},
         NEW op \in {"delete", "create", "keep"}, A!Advance(s, op),
         status' = status, result' = result, fixture' = fixture, won' = won, memory' = memory, missed' = missed,
         op = "create" => mvp' = Null,
         op = "keep" => mvp' = closing[s].player,
         op = "delete" => closing[s].replace
  PROVE  AftermathInv'
<1> DEFINE q == [closing[s] EXCEPT !.op = op]
<1>1. A!Proceed(s, q) BY DEF A!Advance
<1>2. closing[s].op \in Writing /\ closing[s].op \in Naming /\ op \in Naming
  BY DEF Writing, Naming
<1>3. /\ q.op = op /\ ClosingShape(q) /\ q.player = closing[s].player
      /\ q.replace = closing[s].replace /\ q.result = closing[s].result
  BY <1>2, NamingOn
<1> HIDE DEF q
<1>4. Carries(closing[s], result) /\ Reached(closing[s], result, mvp)
  BY <1>2, Writer
<1>5. Carries(q, result') BY <1>2, <1>3, <1>4 DEF Carries
<1>6. Reached(q, result', mvp')
  <2>1. closing[s].replace => result.mvp = closing[s].player BY <1>4 DEF Reached
  <2>2. op = "delete" => q.replace BY <1>3
  <2>3. q.replace => result'.mvp = q.player BY <1>3, <2>1
  <2> QED BY <1>3, <2>2, <2>3 DEF Reached
<1>7. q.op \in Writing /\ Midway(q) BY <1>3 DEF Writing, Midway
<1>8. ResultShape(result') /\ result'.counts \in {result'.mvp, Null} BY <1>2, Writer
<1> QED BY <1>1, <1>2, <1>3, <1>5, <1>6, <1>7, <1>8, Wrote DEF Writing

\* The last step of a request that writes.
LEMMA Finished ==
  ASSUME AftermathInv, NEW s \in Slot, closing[s].op \in Writing, A!Finish(s),
         status' = status, fixture' = fixture, won' = won, memory' = memory, missed' = missed,
         ResultShape(result'), result'.counts \in {result'.mvp, Null},
         result'.score = result.score \/ closing[s].op = "score",
         \/ owed' \/ result'.mvp = mvp'
         \/ (result'.mvp = mvp' <=> result.mvp = mvp) /\ (owed => owed') /\ ~Midway(closing[s])
  PROVE  AftermathInv'
<1>1. A!Proceed(s, A!Idle) BY DEF A!Finish
<1>2. A!Idle.op \notin Writing BY AIdle DEF Writing
<1> QED BY <1>1, <1>2, AIdle, Wrote

\* What follows the giving of the award.
LEMMA GivenStep ==
  ASSUME AftermathInv, NEW s \in Slot, closing[s].op \in {"give", "create"}, A!Given(s),
         status' = status, result' = result, fixture' = fixture, won' = won, memory' = memory, missed' = missed,
         mvp' = closing[s].player
  PROVE  AftermathInv'
<1>1. closing[s].op \in Writing BY DEF Writing
<1>2. ResultShape(result) /\ result.counts \in {result.mvp, Null} BY <1>1, Writer
<1>3. CASE closing[s].replace
  <2>1. A!Finish(s) BY <1>3 DEF A!Given
  <2>2. result.mvp = closing[s].player BY <1>1, <1>3, Writer DEF Reached
  <2> QED BY <1>1, <1>2, <2>1, <2>2, Finished
<1>4. CASE ~closing[s].replace
  <2>1. A!Advance(s, "keep") BY <1>4 DEF A!Given
  <2> QED BY <2>1, NamingGoesOn
<1> QED BY <1>3, <1>4

LEMMA GiveStep ==
  ASSUME AftermathInv, NEW s \in Slot, A!Give(s)
  PROVE  AftermathInv'
<1>1. /\ closing[s].op = "give" /\ status' = status /\ result' = result /\ fixture' = fixture
      /\ won' = won /\ memory' = memory /\ missed' = missed /\ mvp' = mvp
  BY DEF A!Give, A!At, A!store, A!broken
<1>2. CASE mvp = closing[s].player /\ A!Given(s) BY <1>1, <1>2, GivenStep
<1>3. CASE mvp \notin {closing[s].player, Null} /\ closing[s].replace /\ A!Advance(s, "delete")
  BY <1>1, <1>3, NamingGoesOn
<1>4. CASE ~closing[s].replace /\ A!Finish(s) /\ owed' = owed
  <2>1. closing[s].op \in Writing /\ ~Midway(closing[s]) BY <1>1, <1>4 DEF Writing, Midway
  <2>2. ResultShape(result) /\ result.counts \in {result.mvp, Null} BY <2>1, Writer
  <2> QED BY <1>1, <1>4, <2>1, <2>2, Finished
<1>5. CASE mvp = Null /\ A!Advance(s, "create") BY <1>1, <1>5, NamingGoesOn
<1> QED BY <1>2, <1>3, <1>4, <1>5 DEF A!Give, A!Replaces

LEMMA DeleteStep ==
  ASSUME AftermathInv, NEW s \in Slot, A!Delete(s)
  PROVE  AftermathInv'
BY NamingGoesOn DEF A!Delete, A!At, A!broken

LEMMA CreateMvpStep ==
  ASSUME AftermathInv, NEW s \in Slot, A!CreateMvp(s)
  PROVE  AftermathInv'
<1>1. /\ closing[s].op = "create" /\ status' = status /\ result' = result /\ fixture' = fixture
      /\ won' = won /\ memory' = memory /\ missed' = missed
  BY DEF A!CreateMvp, A!At
<1>2. closing[s].op \in Writing BY <1>1 DEF Writing
<1>3. mvp = Null BY <1>1, <1>2, Writer DEF Reached
<1>4. mvp' = closing[s].player /\ A!Given(s) BY <1>3 DEF A!CreateMvp
<1> QED BY <1>1, <1>4, GivenStep

LEMMA SaveKeptStep ==
  ASSUME AftermathInv, NEW s \in Slot, A!SaveKept(s)
  PROVE  AftermathInv'
<1>1. /\ closing[s].op = "keep" /\ result' = closing[s].result /\ A!Finish(s)
      /\ status' = status /\ fixture' = fixture /\ mvp' = mvp /\ won' = won /\ memory' = memory /\ missed' = missed
  BY DEF A!SaveKept, A!SaveResult, A!At
<1>2. closing[s].op \in Writing /\ closing[s].op \in Naming BY <1>1 DEF Writing, Naming
<1>3. /\ ResultShape(closing[s].result) /\ closing[s].result.mvp = closing[s].player
      /\ closing[s].result.counts \in {closing[s].result.mvp, Null}
      /\ closing[s].result.score = result.score /\ mvp = closing[s].player
  BY <1>1, <1>2, Writer DEF Carries, Reached
<1> QED BY <1>1, <1>2, <1>3, Finished

LEMMA TakeStep ==
  ASSUME AftermathInv, NEW s \in Slot, A!Take(s)
  PROVE  AftermathInv'
<1> DEFINE fields == {"op", "result"}
           r == closing[s]
           q == [r EXCEPT !.op = "clear"]
<1>1. /\ closing[s].op = "take" /\ mvp' = Null /\ result' = result
      /\ status' = status /\ fixture' = fixture /\ won' = won /\ memory' = memory /\ missed' = missed /\ owed' = owed
  BY DEF A!Take, A!At, A!broken
<1>2. closing[s].op \in Writing /\ ~Midway(closing[s]) BY <1>1 DEF Writing, Midway
<1>3. ResultShape(result') /\ result'.counts \in {result'.mvp, Null} BY <1>1, <1>2, Writer
<1>4. CASE mvp = Null
  <2>1. A!Finish(s) BY <1>4 DEF A!Take
  <2> QED BY <1>1, <1>2, <1>3, <1>4, <2>1, Finished
<1>5. CASE mvp # Null
  <2>1. A!Proceed(s, q) BY <1>5 DEF A!Take, A!Advance
  <2>2. Whole(r, fields)
    BY <1>1 DEF AftermathInv, ClosingShapes, ClosingShape, Naming, Entering
  <2>3. "op" \in fields /\ "result" \in fields OBVIOUS
  <2>4. r.result = closing[s].result /\ q = [r EXCEPT !.op = "clear"] OBVIOUS
  <2> HIDE DEF fields, r, q
  <2>5. q.op = "clear" /\ Whole(q, fields) /\ \A x \in fields : x # "op" => q[x] = r[x]
    BY ONLY <2>2, <2>3, <2>4, Advanced
  <2>6. q["result"] = r["result"] BY <2>3, <2>5
  <2>7. q.result = closing[s].result BY <2>4, <2>6
  <2>8. ClosingShape(q) BY <2>5 DEF ClosingShape, fields
  <2>9. Carries(closing[s], result) BY <1>2, Writer
  <2>10. Carries(q, result') BY <1>1, <2>5, <2>7, <2>9 DEF Carries, Naming
  <2>11. Reached(q, result', mvp') BY <1>1, <2>5 DEF Reached
  <2>12. q.op \in Writing /\ Midway(q) BY <2>5 DEF Writing, Midway
  <2> QED BY <1>1, <1>2, <1>3, <2>1, <2>5, <2>8, <2>10, <2>11, <2>12, Wrote
<1> QED BY <1>4, <1>5

LEMMA ClearStep ==
  ASSUME AftermathInv, NEW s \in Slot, A!Clear(s)
  PROVE  AftermathInv'
<1>1. /\ closing[s].op = "clear" /\ result' = closing[s].result /\ A!Finish(s)
      /\ status' = status /\ fixture' = fixture /\ mvp' = mvp /\ won' = won /\ memory' = memory /\ missed' = missed
  BY DEF A!Clear, A!TakeOffResult, A!SaveResult, A!At
<1>2. closing[s].op \in Writing BY <1>1 DEF Writing
<1>3. /\ ResultShape(closing[s].result) /\ closing[s].result.mvp = Null
      /\ closing[s].result.counts \in {closing[s].result.mvp, Null}
      /\ closing[s].result.score = result.score /\ mvp = Null
  BY <1>1, <1>2, Writer DEF Carries, Reached
<1> QED BY <1>1, <1>2, <1>3, Finished

LEMMA SaveFixtureStep ==
  ASSUME AftermathInv, NEW s \in Slot, A!SaveFixture(s)
  PROVE  AftermathInv'
<1>1. /\ closing[s].op = "fixture" /\ A!Proceed(s, A!Idle) /\ result' = result
      /\ status' = status /\ mvp' = mvp /\ won' = won /\ memory' = memory /\ missed' = missed /\ owed' = owed
  BY DEF A!SaveFixture, A!At, A!Finish, A!broken
<1>2. ~Midway(closing[s]) BY <1>1 DEF Midway
<1>3. ResultShape(result') /\ result'.counts \in {result'.mvp, Null}
  BY <1>1 DEF AftermathInv, ClosingShapes, InStep
<1>4. A!Idle.op \notin Writing \cup {"status", "win", "fixture", "score"} BY AIdle DEF Writing
<1>5. ClosingShapes' /\ OneAtATime' /\ InStep' BY <1>1, <1>2, <1>3, <1>4, AIdle, ClosingKept
<1>6. Deciding' /\ Winning' BY <1>1, <1>4, DecidedKept DEF Entering
<1> QED BY <1>5, <1>6 DEF AftermathInv

LEMMA NotFromDone ==
  ASSUME NEW from, NEW to, A!CanTransition("challenge", from, to) PROVE from # "done"
<1>1. A!TransitionsFor("challenge") = A!ChallengeTransitions BY DEF A!TransitionsFor
<1>2. A!ChallengeTransitions["done"] = {} BY DEF A!ChallengeTransitions, A!MatchTransitions
<1> QED BY <1>1, <1>2 DEF A!CanTransition

\* A request that breaks off leaves what was written; a winner's award is then missing.
LEMMA BreakOffStep ==
  ASSUME AftermathInv, NEW s \in Slot, A!BreakOff(s)
  PROVE  AftermathInv'
<1>1. /\ A!Proceed(s, A!Idle) /\ result' = result /\ fixture' = fixture
      /\ status' = status /\ mvp' = mvp /\ won' = won /\ memory' = memory
      /\ owed' = (owed \/ closing[s].op \in {"give", "delete", "create", "keep", "clear"})
      /\ missed' = (missed \/ closing[s].op = "win")
  BY DEF A!BreakOff, A!At, A!Finish, A!store
<1>2. Midway(closing[s]) => owed' BY <1>1 DEF Midway
<1>3. ResultShape(result') /\ result'.counts \in {result'.mvp, Null}
  BY <1>1 DEF AftermathInv, ClosingShapes, InStep
<1>4. A!Idle.op \notin Writing \cup {"status", "win", "fixture", "score"} BY AIdle DEF Writing
<1>5. \/ owed' \/ result'.mvp = mvp' \/ Midway(A!Idle)
      \/ (result'.mvp = mvp' <=> result.mvp = mvp) /\ (owed => owed') /\ ~Midway(closing[s])
  BY <1>1, <1>2
<1>6. ClosingShapes' /\ OneAtATime' /\ InStep' BY <1>1, <1>3, <1>4, <1>5, AIdle, ClosingKept
<1>7. /\ closing'[s] = A!Idle
      /\ \A t \in Slot : t # s => closing'[t] = closing[t]
  BY <1>1, ClosingRequest DEF AftermathInv
<1>8. Deciding' /\ Winning'
  <2>1. CASE closing[s].op # "win"
    <3>1. missed' <=> missed BY <1>1, <2>1
    <3> QED BY <1>1, <1>4, <2>1, <3>1, DecidedKept DEF Entering
  <2>2. CASE closing[s].op = "win"
    <3>1. /\ status = "done" /\ won = A!NoAward /\ missed'
          /\ \A t \in Slot : closing[t].op = "win" => t = s
      BY <1>1, <2>2 DEF AftermathInv, Deciding, OneAtATime
    <3>2. \A t \in Slot : closing'[t].op # "win" BY <1>4, <1>7, <3>1
    <3>3. \A t \in Slot : closing[t].op # "status"
      BY <3>1, NotFromDone DEF AftermathInv, Deciding
    <3>4. \A t \in Slot : closing'[t].op \notin Entering \cup {"status"}
      BY <1>4, <1>7, <3>1, <3>3 DEF AftermathInv, Deciding, Entering
    <3>5. Deciding' BY <3>2, <3>4 DEF Deciding
    <3>6. Winning' BY <1>1, <3>1, <3>2 DEF AftermathInv, Winning
    <3> QED BY <3>5, <3>6
  <2> QED BY <2>1, <2>2
<1> QED BY <1>6, <1>8 DEF AftermathInv

-----------------------------------------------------------------------------
(* Aftermath: the event is archived, and what follows *)

LEMMA SetStatusStep ==
  ASSUME AftermathInv, InOrder, NEW s \in Slot, NEW to, A!SetStatus(s, to)
  PROVE  AftermathInv'
<1> DEFINE q == [op |-> "status", to |-> to, score |-> result.score]
<1>1. /\ closing[s].op = "idle" /\ A!Proceed(s, q) /\ A!CanTransition("challenge", status, to)
      /\ status' = status /\ result' = result /\ fixture' = fixture
      /\ mvp' = mvp /\ won' = won /\ memory' = memory /\ missed' = missed /\ owed' = owed
  BY DEF A!SetStatus, A!Begin, A!Idle, A!store, A!broken
<1>2. /\ \A t \in Slot : closing[t].op # "status"
      /\ to = "done" => \A t \in Slot : closing[t].op \notin Writing \cup {"fixture"}
  BY DEF A!SetStatus, InOrder, A!InFlight, A!Scoring, A!Resulting, Writing
<1>3. /\ q.op = "status" /\ q.to = to /\ q.score = result.score /\ Whole(q, {"op", "to", "score"})
  BY DEF Whole
<1> HIDE DEF q
<1>4. /\ closing'[s] = q
      /\ \A t \in Slot : t # s => closing'[t] = closing[t]
  BY <1>1, ClosingRequest DEF AftermathInv
<1>5. ClosingShapes' /\ OneAtATime' /\ InStep'
  <2>1. ClosingShape(q) BY <1>3 DEF ClosingShape
  <2>2. q.op \notin Writing BY <1>3 DEF Writing
  <2>3. ~Midway(closing[s]) BY <1>1 DEF Midway
  <2>4. ResultShape(result') /\ result'.counts \in {result'.mvp, Null}
    BY <1>1 DEF AftermathInv, ClosingShapes, InStep
  <2> QED BY <1>1, <1>2, <1>3, <2>1, <2>2, <2>3, <2>4, ClosingKept
<1>6. Deciding'
  <2>1. \A t \in Slot : closing'[t].op = "status" => t = s BY <1>2, <1>4
  <2>2. to = "done" => \A t \in Slot : closing'[t].op \notin Writing \cup {"fixture"}
    BY <1>2, <1>3, <1>4 DEF Writing
  <2>3. \A t \in Slot : closing'[t].op \in Entering \cup {"win"} => closing'[t] = closing[t]
    BY <1>3, <1>4 DEF Entering
  <2> QED BY <1>1, <1>3, <1>4, <2>1, <2>2, <2>3 DEF AftermathInv, Deciding
<1>7. Winning'
  <2>1. \A t \in Slot : closing[t].op = "win" => closing'[t].op = "win" BY <1>1, <1>4
  <2>2. Top(result', fixture') = Top(result, fixture) BY <1>1
  <2>3. \A t \in Slot : closing'[t].op = "win" => closing[t].op = "win" BY <1>3, <1>4
  <2> QED BY <1>1, <2>1, <2>2, <2>3 DEF AftermathInv, Winning
<1> QED BY <1>5, <1>6, <1>7 DEF AftermathInv

LEMMA SaveStatusStep ==
  ASSUME AftermathInv, NEW s \in Slot, A!SaveStatus(s)
  PROVE  AftermathInv'
<1> DEFINE r == closing[s]
           q == IF r.to = "done" THEN [r EXCEPT !.op = "win"] ELSE A!Idle
           fields == {"op", "to", "score"}
<1>1. /\ closing[s].op = "status" /\ A!Proceed(s, q) /\ status' = closing[s].to
      /\ result' = result /\ fixture' = fixture
      /\ mvp' = mvp /\ won' = won /\ memory' = memory /\ missed' = missed /\ owed' = owed
  BY DEF A!SaveStatus, A!At, A!Advance, A!Finish, A!broken
<1>2. Whole(r, fields)
  BY <1>1 DEF AftermathInv, ClosingShapes, ClosingShape, Naming, Entering
<1>3. "op" \in fields /\ "score" \in fields OBVIOUS
<1>4. r = closing[s] /\ q = (IF r.to = "done" THEN [r EXCEPT !.op = "win"] ELSE A!Idle) OBVIOUS
<1>5. status # "done" BY <1>1, NotFromDone DEF AftermathInv, Deciding
<1>6. /\ \A t \in Slot : closing[t].op = "status" => t = s
      /\ \A t \in Slot : closing[t].op # "win"
      /\ won = A!NoAward /\ ~missed
  BY <1>1, <1>5 DEF AftermathInv, OneAtATime, Deciding, Winning
<1> HIDE DEF r, q, fields
<1>7. CASE r.to = "done"
  <2>1. q = [r EXCEPT !.op = "win"] BY <1>4, <1>7
  <2>2. q.op = "win" /\ Whole(q, fields) /\ \A x \in fields : x # "op" => q[x] = r[x]
    BY ONLY <2>1, <1>2, <1>3, Advanced
  <2>3. q["score"] = r["score"] BY <1>3, <2>2
  <2>4. q.score = closing[s].score BY <1>4, <2>3
  <2>5. /\ closing[s].score = result.score
        /\ \A t \in Slot : closing[t].op \notin Writing \cup {"fixture"}
    BY <1>1, <1>4, <1>7 DEF AftermathInv, Deciding
  <2>6. /\ closing'[s] = q
        /\ \A t \in Slot : t # s => closing'[t] = closing[t]
    BY <1>1, ClosingRequest DEF AftermathInv
  <2>7. ClosingShapes' /\ OneAtATime' /\ InStep'
    <3>1. ClosingShape(q) BY <2>2 DEF ClosingShape, fields
    <3>2. q.op \notin Writing BY <2>2 DEF Writing
    <3>3. ~Midway(closing[s]) BY <1>1 DEF Midway
    <3>4. ResultShape(result') /\ result'.counts \in {result'.mvp, Null}
      BY <1>1 DEF AftermathInv, ClosingShapes, InStep
    <3> QED BY <1>1, <1>6, <2>2, <3>1, <3>2, <3>3, <3>4, ClosingKept
  <2>8. Deciding'
    <3>1. \A t \in Slot : closing'[t].op # "status" BY <1>6, <2>2, <2>6
    <3>2. \A t \in Slot : closing'[t].op \notin Entering BY <2>2, <2>5, <2>6 DEF Entering, Writing
    <3>3. \A t \in Slot : closing'[t].op = "win" => t = s BY <1>6, <2>6
    <3>4. status' = "done" /\ closing'[s].score = result'.score /\ won' = A!NoAward
      BY <1>1, <1>4, <1>6, <1>7, <2>4, <2>5, <2>6
    <3> QED BY <3>1, <3>2, <3>3, <3>4 DEF Deciding
  <2>9. Winning'
    <3>1. closing'[s].op = "win" BY <2>2, <2>6
    <3> QED BY <1>1, <1>6, <3>1 DEF AftermathInv, Winning
  <2> QED BY <2>7, <2>8, <2>9 DEF AftermathInv
<1>8. CASE r.to # "done"
  <2>1. q = A!Idle BY <1>4, <1>8
  <2>2. status' # "done" BY <1>1, <1>4, <1>8
  <2>3. /\ closing'[s] = A!Idle
        /\ \A t \in Slot : t # s => closing'[t] = closing[t]
    BY <1>1, <2>1, ClosingRequest DEF AftermathInv
  <2>4. ClosingShapes' /\ OneAtATime' /\ InStep'
    <3>1. q.op \notin Writing \cup {"status", "win"} BY <2>1, AIdle DEF Writing
    <3>2. ~Midway(closing[s]) BY <1>1 DEF Midway
    <3>3. ResultShape(result') /\ result'.counts \in {result'.mvp, Null}
      BY <1>1 DEF AftermathInv, ClosingShapes, InStep
    <3>4. ClosingShape(q) BY <2>1, AIdle
    <3> QED BY <1>1, <3>1, <3>2, <3>3, <3>4, ClosingKept
  <2>5. \A t \in Slot : closing'[t].op \notin {"status", "win"} BY <1>6, <2>3, AIdle
  <2>6. Deciding' BY <2>2, <2>5 DEF Deciding
  <2>7. Winning' BY <1>1, <1>6, <2>2 DEF AftermathInv, Winning
  <2> QED BY <2>4, <2>6, <2>7 DEF AftermathInv
<1> QED BY <1>7, <1>8

LEMMA AwardWinnerStep ==
  ASSUME AftermathInv, NEW s \in Slot, A!AwardWinner(s)
  PROVE  AftermathInv'
<1> DEFINE group == A!Awarded(closing[s].score)
<1>1. /\ closing[s].op = "win" /\ A!Proceed(s, A!Idle) /\ status' = status
      /\ result' = result /\ fixture' = fixture /\ mvp' = mvp /\ memory' = memory /\ missed' = missed /\ owed' = owed
      /\ won' = IF won = A!NoAward /\ group # Null
                THEN [group |-> group, eligible |-> A!Eligible(group)] ELSE won
  BY DEF A!AwardWinner, A!At, A!Finish, A!broken
<1>2. status = "done" /\ closing[s].score = result.score /\ won = A!NoAward
  BY <1>1 DEF AftermathInv, Deciding
<1>3. group = Top(result, fixture) BY <1>2 DEF A!Awarded, A!Decisive, Top
<1>4. \A p \in A!Eligible(group) : Side[p] = group BY DEF A!Eligible
<1> HIDE DEF group
<1>5. /\ won'.group = group
      /\ won'.eligible = {} \/ won'.eligible = A!Eligible(group)
  <2>1. CASE group = Null BY <2>1, <1>1, <1>2 DEF A!NoAward
  <2>2. CASE group # Null BY <2>2, <1>1, <1>2
  <2> QED BY <2>1, <2>2
<1>6. memory = {}
  <2>1. won.eligible = {} BY <1>2 DEF A!NoAward
  <2> QED BY <2>1 DEF AftermathInv, Winning
<1>7. /\ closing'[s] = A!Idle
      /\ \A t \in Slot : t # s => closing'[t] = closing[t]
  BY <1>1, ClosingRequest DEF AftermathInv
<1>8. A!Idle.op \notin Writing \cup {"status", "win"} BY AIdle DEF Writing
<1>9. ClosingShapes' /\ OneAtATime' /\ InStep'
  <2>1. ~Midway(closing[s]) BY <1>1 DEF Midway
  <2>2. ResultShape(result') /\ result'.counts \in {result'.mvp, Null}
    BY <1>1 DEF AftermathInv, ClosingShapes, InStep
  <2> QED BY <1>1, <1>8, <2>1, <2>2, AIdle, ClosingKept
<1>10. Deciding'
  <2>1. \A t \in Slot : closing'[t].op # "status"
    BY <1>2, <1>7, AIdle, NotFromDone DEF AftermathInv, Deciding
  <2>2. \A t \in Slot : closing'[t].op # "win" BY <1>1, <1>7, AIdle DEF AftermathInv, OneAtATime
  <2>3. \A t \in Slot : closing'[t].op \notin Entering
    BY <1>2, <1>7, AIdle DEF AftermathInv, Deciding, Entering
  <2> QED BY <2>1, <2>2, <2>3 DEF Deciding
<1>11. Winning'
  <2>1. won'.group = Top(result', fixture') BY <1>1, <1>3, <1>5
  <2>2. memory' \subseteq won'.eligible BY <1>1, <1>6
  <2>3. \A p \in won'.eligible : Side[p] = won'.group BY <1>4, <1>5
  <2>4. ~missed' BY <1>1 DEF AftermathInv, Winning
  <2> QED BY <1>1, <1>2, <2>1, <2>2, <2>3, <2>4 DEF Winning
<1> QED BY <1>9, <1>10, <1>11 DEF AftermathInv

\* What the others do meanwhile touches no result and no award.
LEMMA MeanwhileStep ==
  ASSUME AftermathInv, UNCHANGED <<status, result, fixture, mvp, won, owed, missed, closing>>,
         memory' \subseteq memory \cup won.eligible
  PROVE  AftermathInv'
<1> USE DEF AftermathInv
<1>1. ClosingShapes' BY DEF ClosingShapes
<1>2. OneAtATime' BY DEF OneAtATime
<1>3. InStep' BY DEF InStep
<1>4. Deciding' BY DEF Deciding
<1>5. Winning' BY DEF Winning
<1> QED BY <1>1, <1>2, <1>3, <1>4, <1>5

LEMMA AftermathNext ==
  ASSUME AftermathInv, InOrder, [A!Next]_(A!vars) PROVE AftermathInv'
<1>1. CASE UNCHANGED A!vars BY <1>1, MeanwhileStep DEF A!vars, A!store, A!broken
<1>2. ASSUME NEW s \in Slot,
             \/ A!SaveFixture(s) \/ A!SaveScore(s) \/ A!SaveNamed(s) \/ A!Give(s) \/ A!Delete(s)
             \/ A!CreateMvp(s) \/ A!SaveKept(s)
      PROVE  AftermathInv'
  BY <1>2, SaveFixtureStep, SaveScoreStep, SaveNamedStep, GiveStep, DeleteStep, CreateMvpStep,
     SaveKeptStep
<1>3. ASSUME NEW s \in Slot,
             \/ A!RevokeMvp(s) \/ A!Take(s) \/ A!Clear(s) \/ A!BreakOff(s)
             \/ A!SaveStatus(s) \/ A!AwardWinner(s)
      PROVE  AftermathInv'
  BY <1>3, RevokeMvpStep, TakeStep, ClearStep, BreakOffStep, SaveStatusStep, AwardWinnerStep
<1>4. ASSUME NEW s \in Slot,
             \/ \E score \in Score : A!ScoreFixture(s, score)
             \/ \E score \in Score \cup {Null} : A!SubmitResult(s, score)
             \/ \E p \in Candidate : A!SubmitMvp(s, p) \/ A!AwardMvp(s, p)
             \/ \E to \in {"after_match", "done"} : A!SetStatus(s, to)
      PROVE  AftermathInv'
  BY <1>4, ScoreFixtureStep, SubmitResultStep, SubmitMvpStep, AwardMvpStep, SetStatusStep
<1>5. ASSUME NEW p \in Candidate, A!AddMemory(p) \/ A!RemoveMemory(p) \/ A!ChangeMembers(p) \/ A!Unassign(p)
      PROVE  AftermathInv'
  <2>1. UNCHANGED <<status, result, fixture, mvp, won, owed, missed, closing>>
    BY <1>5 DEF A!AddMemory, A!RemoveMemory, A!ChangeMembers, A!Unassign, A!broken
  <2>2. memory' \subseteq memory \cup won.eligible
    BY <1>5 DEF A!AddMemory, A!RemoveMemory, A!ChangeMembers, A!Unassign
  <2> QED BY <2>1, <2>2, MeanwhileStep
<1> QED BY <1>1, <1>2, <1>3, <1>4, <1>5 DEF A!Next

LEMMA AftermathPromise ==
  ASSUME AftermathInv PROVE A!AftermathSound
<1> USE DEF AftermathInv
<1>1. A!MvpInStep
  <2>1. (\E s \in Slot : Midway(closing[s])) =>
          A!InFlight({"give", "delete", "create", "keep", "clear"})
    BY DEF Midway, A!InFlight
  <2> QED BY <2>1 DEF A!MvpInStep, InStep
<1>2. A!WinnerHolds
  BY DEF A!WinnerHolds, Winning, Top, A!InFlight
<1> QED BY <1>1, <1>2 DEF A!AftermathSound

\* As long as the writes of the result do not overlap, and no move of the event
\* overlaps another or a write of a score: the MVP on the result holds the award,
\* unless a request broke off between its two writes; and the award of the winning
\* group is that of the score the archived event shows, whoever comes or goes, or
\* missing where the request that archived the event broke off before giving it.
THEOREM AftermathStaysSound ==
  ASSUME InOrder PROVE A!Spec => []A!AftermathSound
<1>1. A!Init => AftermathInv BY AftermathInit
<1>2. AftermathInv /\ [A!Next]_(A!vars) => AftermathInv' BY AftermathNext
<1>3. AftermathInv => A!AftermathSound BY AftermathPromise
<1> QED BY <1>1, <1>2, <1>3, PTL DEF A!Spec

-----------------------------------------------------------------------------
(* Teams: what they rely on *)

\* The least number of colours that names all the teams there can be.
ColoursFor == Min({4, Max({2, Cardinality(Person)})})

TeamBounds ==
  /\ IsFiniteSet(Player) /\ IsFiniteSet(Guest) /\ Player \cap Guest = {}
  /\ Kinds \subseteq Kind
  /\ TeamColours \in Seq(Name) /\ IsInjective(TeamColours)
  /\ Len(TeamColours) \in ColoursFor..6
  /\ \A c \in Custom : c \in Seq(Name) /\ IsInjective(c)
  /\ ChallengeNames \in Seq(Name) /\ Len(ChallengeNames) = 2 /\ IsInjective(ChallengeNames)
  /\ Rename = {}
  /\ Length \subseteq Nat \ {0} /\ Size \subseteq Nat \ {0} /\ EventDuration \in Nat
  /\ LegsWithinTeams /\ ColoursSuffice

Team == [name : Name, players : SUBSET Player, guests : SUBSET Guest,
         captains : SUBSET Player, size : Nat]

RosterRow == [standing : {"none", "invited", "in", "out"}, side : {1, 2, Null},
              team : Name \cup {Null}]

Fixture == [a : Name, b : Name, length : Nat \ {0}, scored : BOOLEAN]

Everyone(t) == t.players \cup t.guests

\* Rows rw tell of the teams tm, each of a name of its own.
RowsTell(rw, tm) ==
  /\ \A i, j \in DOMAIN tm : tm[i].name = tm[j].name => i = j
  /\ \A i \in DOMAIN tm : \A p \in Everyone(tm[i]) : rw[p].team = tm[i].name
  /\ \A p \in Person : rw[p].team # Null => \E i \in DOMAIN tm : p \in Everyone(tm[i])

Manned(tm) ==
  \A i \in DOMAIN tm : /\ Cardinality(Everyone(tm[i])) <= tm[i].size
                       /\ tm[i].captains \subseteq tm[i].players

NamesOf(tm) == {tm[i].name : i \in DOMAIN tm}

-----------------------------------------------------------------------------
LEMMA MaxOfTwo ==
  ASSUME NEW a \in Int, NEW b \in Int
  PROVE  Max({a, b}) \in {a, b} /\ Max({a, b}) >= a /\ Max({a, b}) >= b
<1>1. \E x \in {a, b} : \A y \in {a, b} : x >= y OBVIOUS
<1> QED BY <1>1 DEF Max

LEMMA MinOfTwo ==
  ASSUME NEW a \in Int, NEW b \in Int
  PROVE  Min({a, b}) \in {a, b} /\ Min({a, b}) <= a /\ Min({a, b}) <= b
<1>1. \E x \in {a, b} : \A y \in {a, b} : x <= y OBVIOUS
<1> QED BY <1>1 DEF Min

\* Shares rounded up are numbers, and enough for all.
LEMMA CeilDivides ==
  ASSUME NEW a \in Nat, NEW n \in Nat \ {0}
  PROVE  CeilDiv(a, n) \in Nat /\ n * CeilDiv(a, n) >= a
<1> DEFINE q == (a + n - 1) \div n
           r == (a + n - 1) % n
<1>1. q \in Int /\ r \in 0..n - 1 /\ a + n - 1 = n * q + r OBVIOUS
<1>2. n * q >= a BY <1>1
<1>3. q >= 0
  <2>1. SUFFICES ASSUME q <= -1 PROVE FALSE BY <1>1
  <2>2. n * q <= -n BY <2>1, <1>1
  <2> QED BY <2>2, <1>2
<1> QED BY <1>1, <1>2, <1>3 DEF CeilDiv

\* Another squad for a team of the same name and size.
Squadded(t, u, ps, gs) ==
  /\ u.name = t.name /\ u.size = t.size
  /\ u.players = ps /\ u.guests = gs /\ u.captains = t.captains \cap ps

\* The rows nrw are rw with the team's name cleared, then stamped on a squad.
Stamped(rw, nrw, name, squad) ==
  \A p \in Person :
    /\ nrw[p].standing = rw[p].standing /\ nrw[p].side = rw[p].side
    /\ nrw[p].team = IF p \in squad THEN name
                     ELSE IF rw[p].team = name THEN Null ELSE rw[p].team

\* Moving one squad keeps teams and rows in step.
LEMMA SquadKeepsStep ==
  ASSUME TeamBounds, team \in Seq(Team), RowsTell(row, team), Manned(team),
         NEW i \in DOMAIN team, NEW ps \in SUBSET Player, NEW gs \in SUBSET Guest,
         Cardinality(ps) + Cardinality(gs) <= team[i].size,
         \A j \in DOMAIN team \ {i} : ps \cap team[j].players = {} /\ gs \cap team[j].guests = {},
         NEW t \in Team, Squadded(team[i], t, ps, gs),
         team' = [team EXCEPT ![i] = t], Stamped(row, row', team[i].name, ps \cup gs)
  PROVE  /\ team' \in Seq(Team) /\ DOMAIN team' = DOMAIN team /\ Len(team') = Len(team)
         /\ team'[i].players = ps /\ team'[i].guests = gs
         /\ \A j \in DOMAIN team : team'[j].name = team[j].name /\ team'[j].size = team[j].size
         /\ \A j \in DOMAIN team \ {i} : team'[j] = team[j]
         /\ RowsTell(row', team') /\ Manned(team')
<1>5. \A p \in Person :
        row'[p].team = IF p \in ps \cup gs THEN team[i].name
                      ELSE IF row[p].team = team[i].name THEN Null ELSE row[p].team
  BY DEF Stamped
<1>6. t.name = team[i].name /\ t.players = ps /\ t.guests = gs /\ t.size = team[i].size
      /\ t.captains = team[i].captains \cap ps
  BY DEF Squadded
<1>7. /\ team' \in Seq(Team) /\ DOMAIN team' = DOMAIN team /\ Len(team') = Len(team)
      /\ team'[i] = t /\ \A j \in DOMAIN team \ {i} : team'[j] = team[j]
  OBVIOUS
<1>8. \A j \in DOMAIN team : team'[j].name = team[j].name /\ team'[j].size = team[j].size
  BY <1>6, <1>7
<1>9. \A j \in DOMAIN team : team[j].players \subseteq Player /\ team[j].guests \subseteq Guest
  <2>1. \A j \in DOMAIN team : team[j] \in Team OBVIOUS
  <2> QED BY <2>1 DEF Team
<1>10. \A j \in DOMAIN team \ {i} : Everyone(team[j]) \cap (ps \cup gs) = {}
  BY <1>9 DEF Everyone, TeamBounds
<1>11. Everyone(t) = ps \cup gs BY <1>6 DEF Everyone
<1>12. RowsTell(row', team')
  <2>1. \A k, j \in DOMAIN team' : team'[k].name = team'[j].name => k = j
    BY <1>7, <1>8 DEF RowsTell
  <2>2. ASSUME NEW j \in DOMAIN team', NEW p \in Everyone(team'[j]) PROVE row'[p].team = team'[j].name
    <3>1. p \in Person
      BY <1>7, <1>9, <1>11 DEF Everyone, Person
    <3>2. CASE j = i
      BY <3>1, <3>2, <1>7, <1>11, <1>5, <1>8
    <3>3. CASE j # i
      <4>1. p \in Everyone(team[j]) /\ p \notin ps \cup gs BY <3>3, <1>7, <1>10
      <4>2. row[p].team = team[j].name BY <4>1, <1>7 DEF RowsTell
      <4>3. team[j].name # team[i].name BY <3>3, <1>7 DEF RowsTell
      <4> QED BY <4>1, <4>2, <4>3, <3>1, <1>5, <1>8, <1>7
    <3> QED BY <3>2, <3>3
  <2>3. ASSUME NEW p \in Person, row'[p].team # Null
        PROVE  \E j \in DOMAIN team' : p \in Everyone(team'[j])
    <3>1. CASE p \in ps \cup gs BY <3>1, <1>7, <1>11
    <3>2. CASE p \notin ps \cup gs
      <4>1. row[p].team # Null /\ row[p].team # team[i].name BY <3>2, <2>3, <1>5
      <4>2. PICK j \in DOMAIN team : p \in Everyone(team[j]) BY <4>1 DEF RowsTell
      <4>3. row[p].team = team[j].name BY <4>2 DEF RowsTell
      <4> QED BY <4>1, <4>2, <4>3, <1>7
    <3> QED BY <3>1, <3>2
  <2> QED BY <2>1, <2>2, <2>3 DEF RowsTell
<1>13. Manned(team')
  <2>1. IsFiniteSet(ps) /\ IsFiniteSet(gs) BY FS_Subset DEF TeamBounds
  <2>2. ps \cap gs = {} BY DEF TeamBounds
  <2>3. Cardinality(ps \cup gs) = Cardinality(ps) + Cardinality(gs)
    <3>1. Cardinality({}) = 0 BY FS_EmptySet
    <3>2. Cardinality(ps) \in Nat /\ Cardinality(gs) \in Nat BY <2>1, FS_CardinalityType
    <3>3. Cardinality(ps \cup gs) = Cardinality(ps) + Cardinality(gs) - Cardinality(ps \cap gs)
      BY <2>1, FS_Union
    <3>4. Cardinality(ps \cap gs) = 0 BY <2>2, <3>1
    <3> QED BY <3>2, <3>3, <3>4
  <2>4. Cardinality(Everyone(team'[i])) <= team'[i].size
        /\ team'[i].captains \subseteq team'[i].players
    BY <2>3, <1>6, <1>7, <1>11
  <2>5. \A j \in DOMAIN team \ {i} :
          /\ Cardinality(Everyone(team'[j])) <= team'[j].size
          /\ team'[j].captains \subseteq team'[j].players
    BY <1>7 DEF Manned
  <2> QED BY <2>4, <2>5, <1>7 DEF Manned
<1> QED BY <1>6, <1>7, <1>8, <1>12, <1>13

\* What Field writes, entry by entry.
LEMMA FieldWrites ==
  ASSUME row \in [Person -> RosterRow], team \in Seq(Team), NEW i \in DOMAIN team,
         NEW ps \in SUBSET Player, NEW gs \in SUBSET Guest,
         NEW name \in Name, name = team[i].name, Field(i, ps, gs, name)
  PROVE  /\ \E t \in Team : Squadded(team[i], t, ps, gs) /\ team' = [team EXCEPT ![i] = t]
         /\ row' \in [Person -> RosterRow]
         /\ Stamped(row, row', name, ps \cup gs)
<1>1. PICK r : r = team[i] OBVIOUS
<1>2. r \in Team BY <1>1
<1> DEFINE c == r.captains \cap ps
           t == [name |-> name, players |-> ps, guests |-> gs, captains |-> c, size |-> r.size]
<1>3. r = [name |-> r.name, players |-> r.players, guests |-> r.guests,
           captains |-> r.captains, size |-> r.size]
  BY <1>2 DEF Team
<1>4. t \in Team BY <1>2 DEF Team
<1>5. Squadded(r, t, ps, gs) BY <1>1 DEF Squadded
<1> DEFINE r1 == [r EXCEPT !.name = name]
           r2 == [r1 EXCEPT !.players = ps]
           r3 == [r2 EXCEPT !.guests = gs]
           r4 == [r3 EXCEPT !.captains = @ \cap ps]
<1>6. r4 = t
  <2>1. r1 = [name |-> name, players |-> r.players, guests |-> r.guests,
              captains |-> r.captains, size |-> r.size] BY <1>3
  <2> HIDE DEF r1
  <2>2. r2 = [name |-> name, players |-> ps, guests |-> r.guests,
              captains |-> r.captains, size |-> r.size] BY <2>1
  <2> HIDE DEF r2
  <2>3. r3 = [name |-> name, players |-> ps, guests |-> gs,
              captains |-> r.captains, size |-> r.size] BY <2>2
  <2> HIDE DEF r3
  <2>4. r3.captains = r.captains BY <2>3
  <2>5. r4 = [r3 EXCEPT !.captains = c] BY <2>4
  <2> HIDE DEF c, r4
  <2> QED BY <2>3, <2>5
<1>7. team' = [team EXCEPT ![i] = r4]
  <2>1. team' = [team EXCEPT ![i].name = name, ![i].players = ps, ![i].guests = gs,
                            ![i].captains = @ \cap ps]
    BY DEF Field
  <2> QED BY <2>1, <1>1
<1>8. team' = [team EXCEPT ![i] = t] BY <1>6, <1>7
<1> DEFINE own(p) == IF p \in ps \cup gs THEN name
                     ELSE IF row[p].team = name THEN Null ELSE row[p].team
<1>9. \A p \in Person :
        row'[p] = [standing |-> row[p].standing, side |-> row[p].side, team |-> own(p)]
  <2> TAKE p \in Person
  <2>0. PICK w : w = row[p] OBVIOUS
  <2>1. w \in RosterRow BY <2>0
  <2>2. row'[p] = [w EXCEPT !.team = own(p)] BY <2>0 DEF Field
  <2>3. [w EXCEPT !.team = own(p)] = [standing |-> w.standing, side |-> w.side, team |-> own(p)]
    BY <2>1 DEF RosterRow
  <2> QED BY <2>0, <2>2, <2>3
<1>10. \A p \in Person : own(p) \in Name \cup {Null} BY DEF RosterRow
<1>11. \A p \in Person : row[p].standing \in {"none", "invited", "in", "out"}
                           /\ row[p].side \in {1, 2, Null}
  BY DEF RosterRow
<1> HIDE DEF own
<1>12. \A p \in Person : row'[p] \in RosterRow
  <2> TAKE p \in Person
  <2>1. PICK o : o = own(p) OBVIOUS
  <2>2. PICK w : w = row[p] OBVIOUS
  <2>3. [standing |-> w.standing, side |-> w.side, team |-> o] \in RosterRow
    BY <2>1, <2>2, <1>10, <1>11 DEF RosterRow
  <2> QED BY <2>1, <2>2, <2>3, <1>9
<1>13. row' \in [Person -> RosterRow]
  <2>1. row' = [p \in Person |-> row'[p]] BY DEF Field
  <2> QED BY <2>1, <1>12
<1>14. Stamped(row, row', name, ps \cup gs)
  <2>1. \A p \in Person : /\ row'[p].standing = row[p].standing /\ row'[p].side = row[p].side
                            /\ row'[p].team = own(p)
    <3> TAKE p \in Person
    <3>1. PICK o : o = own(p) OBVIOUS
    <3>2. PICK w : w = row'[p] OBVIOUS
    <3>3. w = [standing |-> row[p].standing, side |-> row[p].side, team |-> o]
      BY <3>1, <3>2, <1>9
    <3>4. w.standing = row[p].standing /\ w.side = row[p].side /\ w.team = o BY <3>3
    <3> QED BY <3>1, <3>2, <3>4
  <2> QED BY <2>1 DEF Stamped, own
<1> QED BY <1>1, <1>4, <1>5, <1>8, <1>13, <1>14

-----------------------------------------------------------------------------
(* Fixtures and names *)

\* Between the teams named, whatever the number of matches asked for.
LEMMA FixturesBetween ==
  ASSUME LegsWithinTeams, NEW n \in 2..6, NEW names \in [1..n -> Name],
         NEW count \in Int
  PROVE  LET all == GenerateFixturesFilling(names, count)
             on == {names[k] : k \in 1..n}
         IN  all \in Seq([a : on, b : on])
<1> DEFINE leg == RoundRobinPairs(n)
           on == {names[k] : k \in 1..n}
           base == GenerateFixtures(names)
           all == GenerateFixturesFilling(names, count)
           L == Len(leg)
<1>1. leg \in Seq((0..n - 1) \X (0..n - 1)) /\ leg # <<>>
  BY DEF LegsWithinTeams, MinTeams
<1>2. Len(names) = n OBVIOUS
<1> DEFINE first(i) == names[(IF i > L THEN leg[((i - 1) % L) + 1][2]
                              ELSE leg[((i - 1) % L) + 1][1]) + 1]
           second(i) == names[(IF i > L THEN leg[((i - 1) % L) + 1][1]
                               ELSE leg[((i - 1) % L) + 1][2]) + 1]
<1>3. base = [i \in 1..2 * L |-> [a |-> first(i), b |-> second(i)]]
  BY <1>2 DEF GenerateFixtures
<1> HIDE DEF leg, base
<1>4. L \in Nat /\ L > 0 BY <1>1
<1>5. \A k \in 1..L : leg[k][1] \in 0..n - 1 /\ leg[k][2] \in 0..n - 1 BY <1>1
<1>6. \A i \in 1..2 * L : ((i - 1) % L) + 1 \in 1..L
  <2>1. \A m \in Nat : m % L \in 0..L - 1 BY <1>4
  <2> QED BY <2>1, <1>4
<1>7. \A k \in 0..n - 1 : names[k + 1] \in on OBVIOUS
<1> HIDE DEF L
<1>8. \A i \in 1..2 * L : first(i) \in on /\ second(i) \in on
  BY <1>5, <1>6, <1>7
<1> HIDE DEF first, second, on
<1>9. base \in Seq([a : on, b : on]) /\ Len(base) = 2 * L
  BY <1>3, <1>4, <1>8
<1> DEFINE B == Len(base)
           most == Max({B, count})
<1>10. B \in Nat /\ B > 0 BY <1>9, <1>4
<1> HIDE DEF B
<1>11. most \in Nat
  <2>0. B \in Int BY <1>10
  <2>1. most \in {B, count} /\ most >= B BY <2>0, MaxOfTwo, Zenon
  <2> HIDE DEF most
  <2> QED BY <2>1, <1>10
<1>12. all = [i \in 1..most |-> base[((i - 1) % B) + 1]]
  BY DEF GenerateFixturesFilling, base, B
<1>13. \A i \in 1..most : ((i - 1) % B) + 1 \in 1..B
  <2> HIDE DEF most, B
  <2>1. \A m \in Nat : m % B \in 0..B - 1 BY <1>10
  <2> QED BY <2>1, <1>10, <1>11
<1>14. \A i \in 1..most : base[((i - 1) % B) + 1] \in [a : on, b : on]
  <2> TAKE i \in 1..most
  <2>1. PICK k : k = ((i - 1) % B) + 1 OBVIOUS
  <2>2. k \in 1..Len(base) BY <2>1, <1>13 DEF B
  <2> DEFINE S == [a : on, b : on]
  <2>3. base \in Seq(S) BY <1>9
  <2> HIDE DEF S
  <2>4. base[k] \in S BY <2>2, <2>3
  <2> QED BY <2>1, <2>4 DEF S
<1> HIDE DEF most, all
<1>15. all \in Seq([a : on, b : on])
  <2> DEFINE S == [a : on, b : on]
  <2>1. \A i \in 1..most : base[((i - 1) % B) + 1] \in S BY <1>14
  <2> HIDE DEF S
  <2>2. all \in Seq(S) BY ONLY <1>11, <1>12, <2>1
  <2> QED BY <2>2 DEF S
<1> QED BY <1>15 DEF all, on

\* The names of a shuffle: enough of them, and no two the same.
LEMMA ShuffleNames ==
  ASSUME TeamBounds, team \in Seq(Team),
         \A i, j \in DOMAIN team : team[i].name = team[j].name => i = j,
         NEW n \in 2..6, n <= Len(TeamColours)
  PROVE  NamesForShuffle(n) \in [1..n -> Name] /\ IsInjective(NamesForShuffle(n))
<1> DEFINE own == [i \in DOMAIN team |-> team[i].name]
           k == Min({n, Len(team)})
           kept == SubSeq(own, 1, k)
           taken == Range(kept)
           free == FreeColours(taken)
           names == kept \o SubSeq(free, 1, n - k)
<1>1. own \in Seq(Name) /\ Len(own) = Len(team) /\ \A i, j \in 1..Len(team) : own[i] = own[j] => i = j
  <2>1. DOMAIN team = 1..Len(team) /\ Len(team) \in Nat OBVIOUS
  <2>2. \A i \in 1..Len(team) : team[i] \in Team OBVIOUS
  <2>3. \A i \in 1..Len(team) : team[i].name \in Name BY <2>2 DEF Team
  <2> QED BY <2>1, <2>3
<1>2. k \in 0..n /\ k <= Len(team)
  <2>1. n \in Int /\ Len(team) \in Int /\ Len(team) \in Nat OBVIOUS
  <2>2. Min({n, Len(team)}) \in {n, Len(team)} /\ Min({n, Len(team)}) <= n
        /\ Min({n, Len(team)}) <= Len(team)
    BY <2>1, MinOfTwo, Zenon
  <2>3. k \in {n, Len(team)} /\ k <= n /\ k <= Len(team) BY <2>2
  <2> HIDE DEF k
  <2> QED BY <2>1, <2>3
<1> HIDE DEF own, k
<1>3. /\ kept \in Seq(Name) /\ Len(kept) = k
      /\ \A i \in 1..k : kept[i] = own[i]
  BY <1>1, <1>2
<1> HIDE DEF kept
<1>4. taken \subseteq Name /\ taken = {kept[i] : i \in 1..k}
  BY <1>3 DEF Range
<1>5. Cardinality(taken) <= k
  <2>1. IsFiniteSet(1..k) /\ Cardinality(1..k) = k BY <1>2, FS_Interval
  <2>2. kept \in Surjection(1..k, taken)
    <3>1. kept \in [1..k -> taken] BY <1>3, <1>4
    <3> QED BY <3>1, <1>4 DEF Surjection
  <2> QED BY <2>1, <2>2, FS_Surjection
<1>6. Cardinality(taken) \in Nat
  <2>1. IsFiniteSet(1..k) BY <1>2, FS_Interval
  <2>2. kept \in Surjection(1..k, taken)
    <3>1. kept \in [1..k -> taken] BY <1>3, <1>4
    <3> QED BY <3>1, <1>4 DEF Surjection
  <2> QED BY <2>1, <2>2, FS_Surjection, FS_CardinalityType
<1>7. /\ free \in Seq(Name \ taken)
      /\ \A i, j \in DOMAIN free : free[i] = free[j] => i = j
      /\ Len(free) >= Len(TeamColours) - Cardinality(taken)
  <2>1. taken \in SUBSET Name BY <1>4
  <2> HIDE DEF taken
  <2> QED BY <2>1 DEF TeamBounds, ColoursSuffice, IsInjective
<1> HIDE DEF taken, free
<1>8. Len(free) >= n - k
  <2>1. Len(TeamColours) \in Nat BY DEF TeamBounds
  <2>2. Len(free) \in Nat BY <1>7
  <2> QED BY <1>2, <1>5, <1>6, <1>7, <2>1, <2>2
<1>9. \A i \in 1..n - k : free[i] \in Name \ taken
  BY <1>7, <1>8, <1>2
<1> DEFINE rest == SubSeq(free, 1, n - k)
<1>10. rest = [i \in 1..n - k |-> free[i]] BY <1>2
<1> HIDE DEF rest
<1>11. rest \in Seq(Name) /\ Len(rest) = n - k BY <1>2, <1>9, <1>10
<1>12. names = [i \in 1..n |-> IF i <= k THEN kept[i] ELSE rest[i - k]]
  <2>1. names = kept \o rest BY DEF rest
  <2> HIDE DEF names
  <2>2. kept \o rest \in Seq(Name) /\ Len(kept \o rest) = n BY <1>2, <1>3, <1>11
  <2>3. \A i \in 1..n : (kept \o rest)[i] = IF i <= k THEN kept[i] ELSE rest[i - k]
    BY <1>2, <1>3, <1>11
  <2>4. names = [i \in 1..n |-> names[i]]
    <3>1. names \in Seq(Name) /\ Len(names) = n BY <2>1, <2>2, Zenon
    <3>2. \A s \in Seq(Name) : s = [i \in 1..Len(s) |-> s[i]] OBVIOUS
    <3> QED BY <3>1, <3>2
  <2>5. \A i \in 1..n : names[i] = IF i <= k THEN kept[i] ELSE rest[i - k] BY <2>1, <2>3
  <2> QED BY <2>4, <2>5
<1> HIDE DEF names
<1>13. \A i \in 1..n : IF i <= k THEN names[i] = own[i] /\ names[i] \in taken
                       ELSE i - k \in 1..n - k /\ names[i] = free[i - k] /\ names[i] \notin taken
  <2> TAKE i \in 1..n
  <2>1. CASE i <= k
    <3>1. i \in 1..k BY <2>1, <1>2
    <3> QED BY <2>1, <3>1, <1>3, <1>4, <1>12
  <2>2. CASE ~(i <= k)
    <3>1. i - k \in 1..n - k BY <2>2, <1>2
    <3> QED BY <2>2, <3>1, <1>9, <1>10, <1>12
  <2> QED BY <2>1, <2>2
<1>14. names \in [1..n -> Name]
  <2>1. \A i \in 1..n : names[i] \in Name
    <3> TAKE i \in 1..n
    <3>1. CASE i <= k BY <3>1, <1>13, <1>4
    <3>2. CASE ~(i <= k) BY <3>2, <1>13, <1>9
    <3> QED BY <3>1, <3>2
  <2> QED BY <2>1, <1>12
<1>15. \A i, j \in 1..n : names[i] = names[j] => i = j
  <2> SUFFICES ASSUME NEW i \in 1..n, NEW j \in 1..n, names[i] = names[j] PROVE i = j
    OBVIOUS
  <2>1. CASE i <= k /\ j <= k
    <3>1. i \in 1..Len(team) /\ j \in 1..Len(team) BY <2>1, <1>2
    <3> QED BY <2>1, <3>1, <1>1, <1>13
  <2>2. CASE ~(i <= k) /\ ~(j <= k)
    <3>1. i - k \in DOMAIN free /\ j - k \in DOMAIN free BY <2>2, <1>2, <1>7, <1>8
    <3>2. free[i - k] = free[j - k] BY <2>2, <1>13
    <3>3. i - k = j - k BY <3>1, <3>2, <1>7
    <3> QED BY <3>3, <1>2
  <2>3. CASE i <= k /\ ~(j <= k) BY <2>3, <1>13
  <2>4. CASE ~(i <= k) /\ j <= k BY <2>4, <1>13
  <2> QED BY <2>1, <2>2, <2>3, <2>4
<1>16. NamesForShuffle(n) = names
  <2>1. Len(kept) = k BY <1>3
  <2> QED BY <2>1 DEF NamesForShuffle, names, free, taken, kept, k, own
<1> QED BY <1>14, <1>15, <1>16 DEF IsInjective

-----------------------------------------------------------------------------
(* The invariant *)

\* What the chat of a team is while the event has a status.
Door(st) == IF st \in {"done", "cancelled"} THEN "archived" ELSE "open"

\* From these an event is called off, and to the one it was in it comes back.
Revocable == {"join", "preparation", "ready_to_play", "playing"}

TeamEvent ==
  /\ event \in [kind : Kinds, status : Status, before : Status \cup {Null}, teamCount : 2..6]
  /\ event.status = "cancelled" => event.before \in Revocable
  /\ event.teamCount = 4 \/ event.teamCount <= Len(TeamColours)

\* In a challenge everybody plays for one of the two sides.
Sided(kind, rw) ==
  kind = "challenge" =>
    \A p \in Person : rw[p].standing \in {"in", "invited"} => p \in Player /\ rw[p].side \in {1, 2}

Teams ==
  /\ row \in [Person -> RosterRow] /\ team \in Seq(Team)
  /\ RowsTell(row, team) /\ Manned(team) /\ Sided(event.kind, row)

Fixtures ==
  /\ match \in Seq(Fixture)
  /\ \A i \in DOMAIN match : {match[i].a, match[i].b} \subseteq NamesOf(team)

\* An event that has a score has been played, or called off while it was.
Scores ==
  \A i \in DOMAIN match : match[i].scored =>
    \/ event.status \in {"playing", "after_match", "done"}
    \/ event.status = "cancelled" /\ event.before = "playing"

Doors ==
  /\ room \in [Name -> {"none", "open", "archived"}]
  /\ \A n \in Name : room[n] \in {"none", Door(event.status)}
  /\ \A n \in NamesOf(team) : room[n] # "none"

OnOf(rw) == {p \in Person : rw[p].standing = "in"}
SideIn(rw, side) == {p \in Player : rw[p].standing = "in" /\ rw[p].side = side}

\* A shuffle that has built its teams tm and is about to deal people out to them.
ReadyToDeal(kind, rw, tm, people, calm) ==
  /\ people \subseteq Person /\ Len(tm) > 0 /\ calm \in BOOLEAN
  /\ \A i \in DOMAIN tm : tm[i].players = {} /\ tm[i].guests = {}
  /\ calm => people = OnOf(rw)
  /\ IF kind = "challenge"
     THEN /\ Len(tm) = 2
          /\ calm /\ Overfull = FALSE => \A i \in 1..2 : Cardinality(SideIn(rw, i)) <= tm[i].size
     ELSE Overfull = FALSE => \A i \in DOMAIN tm :
            CeilDiv(Cardinality(people \cap Player), Len(tm))
              + CeilDiv(Cardinality(people \cap Guest), Len(tm)) <= tm[i].size

\* Squads that make teams of everybody on, for the teams tm.
GoodSquads(kind, rw, tm, squads) ==
  /\ \A i \in DOMAIN tm :
       /\ squads[i].players \subseteq Player \cap OnOf(rw)
       /\ squads[i].guests \subseteq Guest \cap OnOf(rw)
       /\ Cardinality(squads[i].players) + Cardinality(squads[i].guests) <= tm[i].size
  /\ \A i, j \in DOMAIN tm : i # j =>
       /\ squads[i].players \cap squads[j].players = {}
       /\ squads[i].guests \cap squads[j].guests = {}
  /\ \A p \in OnOf(rw) : \E i \in DOMAIN tm : p \in Everyone(squads[i])
  /\ IF kind = "challenge"
     THEN /\ Len(tm) = 2
          /\ \A i \in 1..2 : squads[i].players = SideIn(rw, i) /\ squads[i].guests = {}
     ELSE \A i, j \in DOMAIN tm :
            /\ Cardinality(squads[i].players) - Cardinality(squads[j].players) \in -1..1
            /\ Cardinality(squads[i].guests) - Cardinality(squads[j].guests) \in -1..1

\* The squads before the next have their teams, the others have none yet.
Placed(tm, squads, next) ==
  \A i \in DOMAIN tm :
    IF i < next THEN tm[i].players = squads[i].players /\ tm[i].guests = squads[i].guests
    ELSE tm[i].players = {} /\ tm[i].guests = {}

ReadyToAssign(kind, rw, tm, squads, next, people, calm) ==
  /\ next \in DOMAIN tm /\ calm \in BOOLEAN
  /\ calm /\ Overfull = FALSE =>
       people = OnOf(rw) /\ GoodSquads(kind, rw, tm, squads) /\ Placed(tm, squads, next)

Shuffling ==
  \/ request = Idle
  \/ /\ request = [op |-> "deal", people |-> request.people, calm |-> request.calm]
     /\ ReadyToDeal(event.kind, row, team, request.people, request.calm)
  \/ /\ request = [op |-> "assign", next |-> request.next, squads |-> request.squads,
                   people |-> request.people, calm |-> request.calm]
     /\ ReadyToAssign(event.kind, row, team, request.squads, request.next, request.people,
                      request.calm)

TeamsInv == TeamEvent /\ Teams /\ Fixtures /\ Scores /\ Doors /\ Shuffling

-----------------------------------------------------------------------------
(* Building *)

\* What is scheduled of them.
LEMMA ScheduledFixtures ==
  ASSUME TeamBounds, NEW n \in 2..6, NEW names \in [1..n -> Name], NEW length \in Nat \ {0},
         NEW size, Replace(names, length, size)
  PROVE  /\ match' \in Seq(Fixture)
         /\ \A i \in DOMAIN match' : /\ match'[i].scored = FALSE
                                     /\ {match'[i].a, match'[i].b} \subseteq {names[k] : k \in 1..n}
<1>0. PICK new : new = match' OBVIOUS
<1> DEFINE count == MatchCountFor(EventDuration, length)
           all == GenerateFixturesFilling(names, count)
           on == {names[k] : k \in 1..n}
<1>1. count \in Int
  BY DEF MatchCountFor, MatchBufferMinutes, TeamBounds
<1>2. all \in Seq([a : on, b : on])
  <2> HIDE DEF count
  <2> QED BY <1>1, FixturesBetween DEF TeamBounds
<1>4. on \subseteq Name OBVIOUS
<1> HIDE DEF all, on
<1>3. new = [i \in DOMAIN all |-> [a |-> all[i].a, b |-> all[i].b,
                                   length |-> length, scored |-> FALSE]]
  BY <1>0 DEF Replace, Scheduled, all
<1>5. \A i \in DOMAIN all : all[i] \in [a : on, b : on]
  <2> DEFINE S == [a : on, b : on]
  <2>1. all \in Seq(S) BY <1>2
  <2> HIDE DEF S
  <2>2. \A i \in DOMAIN all : all[i] \in S BY <2>1
  <2> QED BY <2>2 DEF S
<1>6. \A i \in DOMAIN all : all[i].a \in on /\ all[i].b \in on BY <1>5
<1>7. \A i \in DOMAIN all : new[i] \in Fixture BY <1>3, <1>4, <1>6 DEF Fixture
<1>8. DOMAIN all = 1..Len(all) /\ Len(all) \in Nat BY <1>2
<1>9. new \in Seq(Fixture)
  <2>1. new = [i \in 1..Len(all) |-> new[i]] BY <1>3, <1>8
  <2> QED BY <2>1, <1>7, <1>8
<1>10. \A i \in DOMAIN all : new[i].scored = FALSE /\ new[i].a = all[i].a /\ new[i].b = all[i].b
  BY <1>3
<1>11. DOMAIN new = DOMAIN all BY <1>3
<1> QED BY <1>0, <1>6, <1>9, <1>10, <1>11 DEF on

\* Replacing the teams, and what it leaves.
Rebuilds(n, names, length, size) ==
  /\ n \in 2..6 /\ names \in [1..n -> Name] /\ IsInjective(names)
  /\ length \in Nat \ {0} /\ size \in Nat /\ Replace(names, length, size)
Rebuilt(n, size) ==
  /\ row' \in [Person -> RosterRow]
  /\ \A p \in Person : row'[p].standing = row[p].standing /\ row'[p].side = row[p].side
  /\ team' \in Seq(Team) /\ Len(team') = n
  /\ \A i \in 1..n : /\ team'[i].players = {} /\ team'[i].guests = {}
                     /\ team'[i].size = size
  /\ RowsTell(row', team') /\ Manned(team')
  /\ match' \in Seq(Fixture)
  /\ \A i \in DOMAIN match' : /\ match'[i].scored = FALSE
                              /\ {match'[i].a, match'[i].b} \subseteq NamesOf(team')
  /\ room' \in [Name -> {"none", "open", "archived"}]
  /\ \A m \in NamesOf(team') : room'[m] # "none"
  /\ \A m \in Name : room'[m] = room[m] \/ (room'[m] = "open" /\ room[m] = "none")

LEMMA ReplaceMakes ==
  ASSUME TeamBounds, row \in [Person -> RosterRow],
         room \in [Name -> {"none", "open", "archived"}],
         NEW n, NEW names, NEW length, NEW size, Rebuilds(n, names, length, size)
  PROVE  Rebuilt(n, size)
<1> /\ n \in 2..6 /\ names \in [1..n -> Name] /\ IsInjective(names)
    /\ length \in Nat \ {0} /\ size \in Nat /\ Replace(names, length, size)
  BY DEF Rebuilds
<1>1. \A p \in Person :
        row'[p] = [standing |-> row[p].standing, side |-> row[p].side, team |-> Null]
  <2> TAKE p \in Person
  <2>0. PICK w : w = row[p] OBVIOUS
  <2>1. w \in RosterRow BY <2>0
  <2>2. row'[p] = [w EXCEPT !.team = Null] BY <2>0 DEF Replace
  <2>3. [w EXCEPT !.team = Null] = [standing |-> w.standing, side |-> w.side, team |-> Null]
    BY <2>1 DEF RosterRow
  <2> QED BY <2>0, <2>2, <2>3
<1>2. \A p \in Person : row'[p] \in RosterRow
  <2> TAKE p \in Person
  <2>0. PICK w : w = row[p] OBVIOUS
  <2>1. w \in RosterRow BY <2>0
  <2>2. [standing |-> w.standing, side |-> w.side, team |-> Null] \in RosterRow
    BY <2>1 DEF RosterRow
  <2> QED BY <2>0, <2>2, <1>1
<1>3. row' \in [Person -> RosterRow]
  <2>1. row' = [p \in Person |-> row'[p]] BY DEF Replace
  <2> QED BY <2>1, <1>2
<1>4. \A p \in Person : /\ row'[p].standing = row[p].standing /\ row'[p].side = row[p].side
                          /\ row'[p].team = Null
  <2> TAKE p \in Person
  <2>1. PICK w : w = row'[p] OBVIOUS
  <2>2. w = [standing |-> row[p].standing, side |-> row[p].side, team |-> Null] BY <2>1, <1>1
  <2>3. w.standing = row[p].standing /\ w.side = row[p].side /\ w.team = Null BY <2>2
  <2> QED BY <2>1, <2>3
<1>5. DOMAIN names = 1..n OBVIOUS
<1>6. team' = [i \in 1..n |-> [name |-> names[i], players |-> {}, guests |-> {},
                               captains |-> {}, size |-> size]]
  BY <1>5 DEF Replace, NewTeam
<1>7. \A i \in 1..n : /\ team'[i].name = names[i] /\ team'[i].players = {} /\ team'[i].guests = {}
                      /\ team'[i].captains = {} /\ team'[i].size = size
  BY <1>6
<1>8. team' \in Seq(Team) /\ Len(team') = n
  <2>1. \A i \in 1..n : [name |-> names[i], players |-> {}, guests |-> {},
                         captains |-> {}, size |-> size] \in Team
    BY DEF Team
  <2> QED BY <2>1, <1>6
<1>9. DOMAIN team' = 1..n BY <1>8
<1>10. NamesOf(team') = {names[k] : k \in 1..n} BY <1>7, <1>9 DEF NamesOf
<1>11. RowsTell(row', team')
  <2>1. \A i, j \in 1..n : names[i] = names[j] => i = j BY <1>5 DEF IsInjective
  <2> QED BY <2>1, <1>4, <1>7, <1>9 DEF RowsTell, Everyone
<1>12. Manned(team')
  <2>1. \A i \in 1..n : Everyone(team'[i]) = {} BY <1>7 DEF Everyone
  <2>2. Cardinality({}) = 0 BY FS_EmptySet
  <2>3. \A i \in 1..n : Cardinality(Everyone(team'[i])) = 0 BY <2>1, <2>2
  <2> QED BY <2>3, <1>7, <1>9 DEF Manned
<1>13. /\ match' \in Seq(Fixture)
       /\ \A i \in DOMAIN match' : /\ match'[i].scored = FALSE
                                   /\ {match'[i].a, match'[i].b} \subseteq {names[k] : k \in 1..n}
  BY ScheduledFixtures
<1>14. room' = [m \in Name |-> IF m \in {names[k] : k \in 1..n} /\ room[m] = "none"
                                 THEN "open" ELSE room[m]]
  BY <1>5 DEF Replace, RoomsFor, Range
<1>15. /\ room' \in [Name -> {"none", "open", "archived"}]
       /\ \A m \in Name : room'[m] = room[m] \/ (room'[m] = "open" /\ room[m] = "none")
       /\ \A k \in 1..n : room'[names[k]] # "none"
  <2> DEFINE on == {names[k] : k \in 1..n}
  <2>0. \A k \in 1..n : names[k] \in Name /\ names[k] \in on OBVIOUS
  <2>1. \A m \in Name : room'[m] = IF m \in on /\ room[m] = "none" THEN "open" ELSE room[m]
    BY <1>14
  <2> HIDE DEF on
  <2>2. \A m \in Name : room[m] \in {"none", "open", "archived"} OBVIOUS
  <2>3. \A m \in Name : room'[m] \in {"none", "open", "archived"} BY <2>1, <2>2
  <2>4. room' \in [Name -> {"none", "open", "archived"}]
    <3>1. room' = [m \in Name |-> room'[m]] BY <1>14
    <3> QED BY <3>1, <2>3
  <2>7. \A m \in Name : room'[m] = room[m] \/ (room'[m] = "open" /\ room[m] = "none")
    BY <2>1
  <2>6. \A k \in 1..n : room'[names[k]] # "none" BY <2>1, <2>0
  <2> QED BY <2>4, <2>6, <2>7
<1>16. \A m \in NamesOf(team') : room'[m] # "none" BY <1>10, <1>15
<1>17. \A i \in DOMAIN match' : /\ match'[i].scored = FALSE
                                /\ {match'[i].a, match'[i].b} \subseteq NamesOf(team')
  BY <1>10, <1>13
<1> QED BY <1>3, <1>4, <1>7, <1>8, <1>11, <1>12, <1>13, <1>15, <1>16, <1>17 DEF Rebuilt

-----------------------------------------------------------------------------
(* The roster *)

\* A row of the roster changes; what is written of teams stands.
LEMMA MovesKeep ==
  ASSUME TeamBounds, TeamsInv, NEW p \in Person,
         NEW st \in {"none", "invited", "in", "out"}, NEW side \in {1, 2, Null},
         Moves(p, st, side),
         event.kind = "challenge" /\ st \in {"in", "invited"} => p \in Player /\ side \in {1, 2}
  PROVE  TeamsInv'
<1>1. /\ row \in [Person -> RosterRow] /\ RowsTell(row, team) /\ Sided(event.kind, row)
  BY DEF TeamsInv, Teams
<1>2. UNCHANGED <<event, team, match, room>> BY DEF Moves, built
<1>3. PICK w : w = row[p] OBVIOUS
<1>4. w \in RosterRow BY <1>1, <1>3
<1>5. w = [standing |-> w.standing, side |-> w.side, team |-> w.team] BY <1>4 DEF RosterRow
<1> DEFINE new == [standing |-> st, side |-> side, team |-> w.team]
<1>6. row' = [row EXCEPT ![p] = new]
  <2>1. row' = [row EXCEPT ![p].standing = st, ![p].side = side] BY DEF Moves
  <2>2. row' = [row EXCEPT ![p] = [[w EXCEPT !.standing = st] EXCEPT !.side = side]]
    BY <2>1, <1>1, <1>3
  <2>3. [[w EXCEPT !.standing = st] EXCEPT !.side = side] = new
    <3> DEFINE w1 == [w EXCEPT !.standing = st]
    <3>1. w1 = [standing |-> st, side |-> w.side, team |-> w.team] BY <1>5
    <3> HIDE DEF w1
    <3>2. [w1 EXCEPT !.side = side] = new BY <3>1
    <3> QED BY <3>2 DEF w1
  <2> QED BY <2>2, <2>3
<1>7. new \in RosterRow BY <1>4 DEF RosterRow
<1>8. new.standing = st /\ new.side = side /\ new.team = w.team OBVIOUS
<1> HIDE DEF new
<1>9. /\ row' \in [Person -> RosterRow] /\ row'[p] = new
      /\ \A q \in Person : q # p => row'[q] = row[q]
  BY <1>1, <1>6, <1>7
<1>10. \A q \in Person : row'[q].team = row[q].team BY <1>3, <1>8, <1>9
<1>11. RowsTell(row', team')
  <2>1. \A i \in DOMAIN team : \A q \in Everyone(team[i]) : q \in Person
    <3>1. \A i \in DOMAIN team : team[i] \in Team BY DEF TeamsInv, Teams
    <3> QED BY <3>1 DEF Team, Everyone, Person
  <2> QED BY <2>1, <1>1, <1>2, <1>10 DEF RowsTell
<1>12. Sided(event'.kind, row') BY <1>1, <1>2, <1>8, <1>9 DEF Sided
<1>13. Teams' BY <1>2, <1>9, <1>11, <1>12 DEF TeamsInv, Teams
<1>14. Shuffling'
  <2>1. CASE request = Idle
    <3>1. request' = Idle BY <2>1 DEF Moves
    <3>2. Idle' = Idle BY DEF Idle
    <3> QED BY <3>1, <3>2 DEF Shuffling
  <2>2. CASE /\ request = [op |-> "deal", people |-> request.people, calm |-> request.calm]
             /\ ReadyToDeal(event.kind, row, team, request.people, request.calm)
    <3>1. PICK on, calm : on = request.people /\ calm = request.calm OBVIOUS
    <3>2. request = [op |-> "deal", people |-> on, calm |-> calm] BY <2>2, <3>1
    <3>3. request' = [op |-> "deal", people |-> on, calm |-> FALSE]
      <4>1. request # Idle BY <3>2 DEF Idle
      <4>2. request' = [request EXCEPT !.calm = FALSE] BY <4>1 DEF Moves
      <4> QED BY <3>2, <4>2
    <3>4. request'.people = on /\ request'.calm = FALSE BY <3>3
    <3>5. ReadyToDeal(event.kind, row', team, on, FALSE)
      BY <2>2, <3>1 DEF ReadyToDeal
    <3> QED BY <3>3, <3>4, <3>5, <1>2 DEF Shuffling
  <2>3. CASE /\ request = [op |-> "assign", next |-> request.next, squads |-> request.squads,
                           people |-> request.people, calm |-> request.calm]
             /\ ReadyToAssign(event.kind, row, team, request.squads, request.next,
                              request.people, request.calm)
    <3>1. PICK on, calm, next, squads : /\ on = request.people /\ calm = request.calm
                                        /\ next = request.next /\ squads = request.squads
      OBVIOUS
    <3>2. request = [op |-> "assign", next |-> next, squads |-> squads, people |-> on, calm |-> calm]
      BY <2>3, <3>1
    <3>3. request' = [op |-> "assign", next |-> next, squads |-> squads, people |-> on, calm |-> FALSE]
      <4>1. request # Idle BY <3>2 DEF Idle
      <4>2. request' = [request EXCEPT !.calm = FALSE] BY <4>1 DEF Moves
      <4> QED BY <3>2, <4>2
    <3>4. request'.people = on /\ request'.calm = FALSE /\ request'.next = next
          /\ request'.squads = squads
      BY <3>3
    <3>5. ReadyToAssign(event.kind, row', team, squads, next, on, FALSE)
      BY <2>3, <3>1 DEF ReadyToAssign
    <3> QED BY <3>3, <3>4, <3>5, <1>2 DEF Shuffling
  <2> QED BY <2>1, <2>2, <2>3 DEF TeamsInv, Shuffling
<1> QED BY <1>2, <1>13, <1>14 DEF TeamsInv, TeamEvent, Fixtures, Scores, Doors

LEMMA RosterKeeps ==
  ASSUME TeamBounds, TeamsInv, Roster
  PROVE  TeamsInv'
<1>1. /\ row \in [Person -> RosterRow] /\ Sided(event.kind, row)
  BY DEF TeamsInv, Teams
<1>2. \A p \in Person : row[p].side \in {1, 2, Null}
  <2>1. \A p \in Person : row[p] \in RosterRow BY <1>1
  <2> QED BY <2>1 DEF RosterRow
<1>3. Player \subseteq Person /\ Guest \subseteq Person BY DEF Person
<1>4. ASSUME NEW p \in Player, Join(p) \/ Leave(p) \/ Unassign(p) PROVE TeamsInv'
  <2>1. CASE Join(p)
    <3>1. event.kind # "challenge" /\ Moves(p, "in", Null) BY <2>1 DEF Join, IsChallenge
    <3> QED BY <3>1, <1>3, MovesKeep
  <2>2. CASE Leave(p)
    <3>1. Moves(p, "out", Null) BY <2>2 DEF Leave
    <3> QED BY <3>1, <1>3, MovesKeep
  <2>3. CASE Unassign(p)
    <3>1. Moves(p, "out", row[p].side) BY <2>3 DEF Unassign
    <3> QED BY <3>1, <1>2, <1>3, MovesKeep
  <2> QED BY <1>4, <2>1, <2>2, <2>3
<1>5. ASSUME NEW p \in Player, NEW side \in 1..2, Invite(p, side) PROVE TeamsInv'
  <2>1. Moves(p, "invited", side) BY <1>5 DEF Invite
  <2> QED BY <2>1, <1>3, MovesKeep
<1>6. ASSUME NEW p \in Player, NEW accepts \in BOOLEAN, Answer(p, accepts) PROVE TeamsInv'
  <2>1. event.kind = "challenge" /\ row[p].standing = "invited" BY <1>6 DEF Answer, IsChallenge
  <2>2. row[p].side \in {1, 2} BY <2>1, <1>1, <1>3 DEF Sided
  <2>3. Moves(p, "in", row[p].side) \/ Moves(p, "out", row[p].side)
    BY <1>6 DEF Answer
  <2> QED BY <2>2, <2>3, <1>3, MovesKeep
<1>7. ASSUME NEW g \in Guest, GuestComes(g) \/ GuestGoes(g) PROVE TeamsInv'
  <2>1. CASE GuestComes(g)
    <3>1. event.kind # "challenge" /\ Moves(g, "in", Null) BY <2>1 DEF GuestComes, IsChallenge
    <3> QED BY <3>1, <1>3, MovesKeep
  <2>2. CASE GuestGoes(g)
    <3>1. Moves(g, "out", Null) BY <2>2 DEF GuestGoes
    <3> QED BY <3>1, <1>3, MovesKeep
  <2> QED BY <1>7, <2>1, <2>2
<1> QED BY <1>4, <1>5, <1>6, <1>7 DEF Roster

-----------------------------------------------------------------------------
(* Teams are built *)

LEMMA BuildStage ==
  ASSUME NEW kind, NEW st, CanShuffle(kind, st)
  PROVE  st \in {"preparation", "ready_to_play"}
BY DEF CanShuffle, BuildStageFor

\* Whatever replaces the teams leaves what holds of them.
LEMMA RebuildKeeps ==
  ASSUME TeamBounds, TeamsInv, CanShuffle(event.kind, event.status),
         NEW n \in 2..6, NEW names \in [1..n -> Name], IsInjective(names),
         NEW length \in Nat \ {0}, NEW size \in Nat, Replace(names, length, size),
         TeamEvent', event'.kind = event.kind, event'.status = event.status, Shuffling'
  PROVE  TeamsInv'
<1>1. /\ row \in [Person -> RosterRow] /\ Sided(event.kind, row)
      /\ room \in [Name -> {"none", "open", "archived"}]
      /\ \A m \in Name : room[m] \in {"none", Door(event.status)}
  BY DEF TeamsInv, Teams, Doors
<1>2. /\ row' \in [Person -> RosterRow]
      /\ \A p \in Person : row'[p].standing = row[p].standing /\ row'[p].side = row[p].side
      /\ team' \in Seq(Team) /\ RowsTell(row', team') /\ Manned(team')
      /\ match' \in Seq(Fixture)
      /\ \A i \in DOMAIN match' : /\ match'[i].scored = FALSE
                                  /\ {match'[i].a, match'[i].b} \subseteq NamesOf(team')
      /\ room' \in [Name -> {"none", "open", "archived"}]
      /\ \A m \in NamesOf(team') : room'[m] # "none"
      /\ \A m \in Name : room'[m] = room[m] \/ (room'[m] = "open" /\ room[m] = "none")
  <2>1. Rebuilds(n, names, length, size) BY DEF Rebuilds
  <2>2. Rebuilt(n, size) BY <1>1, <2>1, ReplaceMakes
  <2> QED BY <2>2 DEF Rebuilt
<1>3. Door(event.status) = "open" BY BuildStage DEF Door
<1>4. Teams' BY <1>1, <1>2 DEF Teams, Sided
<1>5. Fixtures' BY <1>2 DEF Fixtures
<1>6. Scores'
  <2>1. \A i \in DOMAIN match' : ~match'[i].scored BY <1>2
  <2> QED BY <2>1 DEF Scores
<1>7. Doors'
  <2>1. \A m \in Name : room'[m] \in {"none", "open"} BY <1>1, <1>2, <1>3
  <2>2. Door(event'.status) = "open" BY <1>3
  <2> QED BY <1>2, <2>1, <2>2 DEF Doors
<1> QED BY <1>4, <1>5, <1>6, <1>7 DEF TeamsInv

\* The colours, or as many names of the organizer's own.
LEMMA GenerateKeeps ==
  ASSUME TeamBounds, TeamsInv, NEW n \in MinTeams..Len(TeamColours),
         NEW asked \in NamesAsked(n), NEW length \in Length, NEW size \in Size,
         Generate(n, asked, length, size)
  PROVE  TeamsInv'
<1>1. n \in 2..6 /\ n <= Len(TeamColours)
  BY DEF TeamBounds, MinTeams
<1> DEFINE names == IF IsChallenge THEN ChallengeNames ELSE asked
<1>2. asked \in [1..n -> Name] /\ IsInjective(asked)
  <2>1. CASE asked = SubSeq(TeamColours, 1, n)
    <3>1. TeamColours \in Seq(Name) /\ Len(TeamColours) \in Nat BY DEF TeamBounds
    <3>2. asked = [i \in 1..n |-> TeamColours[i]] BY <2>1, <3>1, <1>1
    <3>3. \A i \in 1..n : i \in DOMAIN TeamColours /\ TeamColours[i] \in Name BY <3>1, <1>1
    <3>4. \A i, j \in 1..n : TeamColours[i] = TeamColours[j] => i = j
      BY <3>3 DEF TeamBounds, IsInjective
    <3> QED BY <3>2, <3>3, <3>4 DEF IsInjective
  <2>2. CASE asked \in Custom /\ Len(asked) = n
    BY <2>2 DEF TeamBounds
  <2> QED BY <2>1, <2>2 DEF NamesAsked
<1>3. names \in [1..n -> Name] /\ IsInjective(names)
  <2>1. CASE IsChallenge
    <3>1. n = 2 BY <2>1 DEF Generate
    <3>2. names = ChallengeNames BY <2>1
    <3>3. ChallengeNames \in [1..2 -> Name] /\ IsInjective(ChallengeNames)
      <4>1. ChallengeNames \in Seq(Name) /\ Len(ChallengeNames) = 2 BY DEF TeamBounds
      <4>2. \A s \in Seq(Name) : s \in [1..Len(s) -> Name] OBVIOUS
      <4>3. ChallengeNames \in [1..Len(ChallengeNames) -> Name] BY <4>1, <4>2
      <4> QED BY <4>1, <4>3 DEF TeamBounds
    <3> HIDE DEF names
    <3> QED BY <3>1, <3>2, <3>3
  <2>2. CASE ~IsChallenge BY <2>2, <1>2
  <2> QED BY <2>1, <2>2
<1>4. Replace(names, length, size)
  <2>1. IF IsInjective(names) THEN Replace(names, length, size) ELSE ReplaceHalfway(names, size)
    BY DEF Generate
  <2> HIDE DEF names
  <2> QED BY <2>1, <1>3
<1>5. length \in Nat \ {0} /\ size \in Nat BY DEF TeamBounds
<1>6. PICK e : e = event OBVIOUS
<1>7. event' = [e EXCEPT !.teamCount = n] BY <1>6 DEF Generate
<1>8. e \in [kind : Kinds, status : Status, before : Status \cup {Null}, teamCount : 2..6]
  BY <1>6 DEF TeamsInv, TeamEvent
<1>9. event' = [kind |-> e.kind, status |-> e.status, before |-> e.before, teamCount |-> n]
  BY <1>7, <1>8
<1>10. /\ event'.kind = event.kind /\ event'.status = event.status
       /\ event'.before = event.before /\ event'.teamCount = n
  BY <1>6, <1>9
<1>11. TeamEvent'
  <2>1. event' \in [kind : Kinds, status : Status, before : Status \cup {Null}, teamCount : 2..6]
    BY <1>1, <1>8, <1>9
  <2> QED BY <2>1, <1>1, <1>10 DEF TeamEvent, TeamsInv
<1>12. request' = Idle /\ CanShuffle(event.kind, event.status) BY DEF Generate
<1>13. Shuffling'
  <2>1. Idle' = Idle BY DEF Idle
  <2> QED BY <2>1, <1>12 DEF Shuffling
<1> HIDE DEF names
<1> QED BY <1>1, <1>3, <1>4, <1>5, <1>10, <1>11, <1>12, <1>13, RebuildKeeps

\* How many teams a shuffle makes, and of what size.
LEMMA ShuffleNumbers ==
  ASSUME TeamBounds, TeamsInv, ShuffleStart
  PROVE  LET n == TeamsFor(On)
         IN  /\ n \in 2..6 /\ n <= Len(TeamColours) /\ (IsChallenge => n = 2)
             /\ SizeFor(n) \in Nat /\ LengthForShuffle \in Nat \ {0}
             /\ IsFiniteSet(On) /\ Cardinality(On) \in Nat
<1>0. 1 \in Int /\ 2 \in Int OBVIOUS
<1>1. IsFiniteSet(Person) BY FS_Union DEF TeamBounds, Person
<1>2. IsFiniteSet(On) /\ Cardinality(On) <= Cardinality(Person)
  <2>1. On \subseteq Person BY DEF On
  <2> QED BY <2>1, <1>1, FS_Subset
<1>3. Cardinality(On) \in Nat /\ Cardinality(Person) \in Nat BY <1>1, <1>2, FS_CardinalityType
<1> DEFINE c == Cardinality(On)
           k == Cardinality(Person)
           t == event.teamCount
<1>4. t \in 2..6 /\ (t = 4 \/ t <= Len(TeamColours)) BY DEF TeamsInv, TeamEvent
<1>5. Len(TeamColours) \in Nat /\ ColoursFor <= Len(TeamColours) /\ ColoursFor \in Nat
  <2>1. k \in Int /\ Max({2, k}) \in {2, k} /\ Max({2, k}) >= 2
    <3>1. k \in Int BY <1>3
    <3> QED BY <1>0, <3>1, MaxOfTwo, Zenon
  <2>2. Max({2, k}) \in Nat
    <3>1. k \in Nat BY <1>3
    <3> HIDE DEF k
    <3> QED BY <2>1, <3>1
  <2> DEFINE m == Max({2, k})
  <2>3. m \in Int BY <2>2
  <2>4. ColoursFor \in {4, m}
    <3> HIDE DEF m
    <3>0. 4 \in Int OBVIOUS
    <3>1. Min({4, m}) \in {4, m} BY <3>0, <2>3, MinOfTwo, Zenon
    <3> QED BY <3>1 DEF ColoursFor, m, k
  <2> HIDE DEF m
  <2>5. ColoursFor \in Nat BY <2>2, <2>4 DEF m
  <2>6. Len(TeamColours) \in ColoursFor..6 /\ Len(TeamColours) \in Nat BY DEF TeamBounds
  <2> QED BY <2>5, <2>6
<1>6. ColoursFor = 4 \/ (ColoursFor <= 4 /\ ColoursFor = Max({2, k}))
  <2> DEFINE m == Max({2, k})
  <2>1. m \in Int
    <3>1. k \in Int BY <1>3
    <3>2. Max({2, k}) \in {2, k} BY <1>0, <3>1, MaxOfTwo, Zenon
    <3> HIDE DEF k
    <3> QED BY <3>1, <3>2
  <2> HIDE DEF m
  <2>2. Min({4, m}) \in {4, m} /\ Min({4, m}) <= 4 BY <2>1, MinOfTwo
  <2> QED BY <2>1, <2>2 DEF ColoursFor, m, k
<1>7. Max({2, k}) >= 2 /\ Max({2, k}) >= k /\ Max({2, k}) \in {2, k}
  <2>1. k \in Int BY <1>3
  <2> QED BY <1>0, <2>1, MaxOfTwo, Zenon
<1> DEFINE most == Min({t, c})
           n == TeamsFor(On)
<1>8. most \in {t, c} /\ most <= t /\ most <= c
  <2>1. t \in Int /\ c \in Int BY <1>3, <1>4
  <2> QED BY <2>1, MinOfTwo, Zenon
<1>9. most \in Int
  <2>1. t \in Int /\ c \in Int BY <1>3, <1>4
  <2> HIDE DEF t, c, most
  <2> QED BY <2>1, <1>8
<1>10. Max({2, most}) \in {2, most} /\ Max({2, most}) >= 2
  <2> HIDE DEF most
  <2> QED BY <1>0, <1>9, MaxOfTwo, Zenon
<1>11. IF IsChallenge THEN n = 2 ELSE n = Max({2, most})
  <2>1. Cardinality(On) = c OBVIOUS
  <2> QED BY <2>1 DEF TeamsFor, MinTeams
<1>12. n \in 2..6 /\ n <= Len(TeamColours) /\ (IsChallenge => n = 2)
  <2>1. PICK x, y, z : x = Max({2, most}) /\ y = Max({2, k}) /\ z = ColoursFor OBVIOUS
  <2>2. n = 2 \/ n = x BY <1>11, <2>1
  <2>3. c <= k /\ c \in Nat /\ k \in Nat BY <1>2, <1>3
  <2>4. x \in {2, most} /\ x >= 2 BY <1>10, <2>1
  <2>5. (z = 4 \/ (z <= 4 /\ z = y)) /\ z <= Len(TeamColours) /\ z \in Nat BY <1>5, <1>6, <2>1
  <2>6. y >= 2 /\ y >= k BY <1>7, <2>1
  <2> HIDE DEF n, most, c, k, t
  <2>7. y \in Int
    <3>1. y \in {2, k} BY <1>7, <2>1
    <3> QED BY <3>1, <2>3
  <2>8. n \in 2..6 BY <2>2, <2>4, <1>8, <1>9, <1>4
  <2>9. n <= Len(TeamColours)
    BY <2>2, <2>3, <2>4, <2>5, <2>6, <2>7, <1>4, <1>5, <1>8, <1>9
  <2> QED BY <2>8, <2>9, <1>11
<1>13. SizeFor(n) \in Nat
  <2>1. Cardinality(On) = c OBVIOUS
  <2>2. n \in Nat \ {0} BY <1>12
  <2> HIDE DEF n
  <2>3. CeilDiv(c, n) \in Nat BY <1>3, <2>2, CeilDivides
  <2> QED BY <2>1, <2>3 DEF SizeFor
<1>14. LengthForShuffle \in Nat \ {0}
  <2>1. CASE match # <<>>
    <3>1. match[1] \in Fixture BY <2>1 DEF TeamsInv, Fixtures
    <3> QED BY <2>1, <3>1 DEF LengthForShuffle, Fixture
  <2>2. CASE match = <<>>
    <3> DEFINE third == (EventDuration - MatchBufferMinutes) \div 3
    <3>1. third \in Int BY DEF MatchBufferMinutes, TeamBounds
    <3> HIDE DEF third
    <3>2. Max({1, third}) \in {1, third} /\ Max({1, third}) >= 1 BY <1>0, <3>1, MaxOfTwo, Zenon
    <3>3. LengthForShuffle = Max({1, third}) BY <2>2 DEF LengthForShuffle, third
    <3> QED BY <3>1, <3>2, <3>3
  <2> QED BY <2>1, <2>2
<1> HIDE DEF n
<1> QED BY <1>2, <1>3, <1>12, <1>13, <1>14 DEF n

LEMMA ShuffleStartKeeps ==
  ASSUME TeamBounds, TeamsInv, ShuffleStart
  PROVE  TeamsInv'
<1> DEFINE n == TeamsFor(On)
           names == IF IsChallenge THEN ChallengeNames ELSE NamesForShuffle(n)
           length == LengthForShuffle
           size == SizeFor(n)
<1>1. /\ n \in 2..6 /\ n <= Len(TeamColours) /\ (IsChallenge => n = 2)
      /\ size \in Nat /\ length \in Nat \ {0}
      /\ IsFiniteSet(On) /\ Cardinality(On) \in Nat
  BY ShuffleNumbers
<1>2. /\ CanShuffle(event.kind, event.status)
      /\ BiggestDeal(n) > size => Overfull
      /\ IF IsInjective(names)
         THEN /\ Replace(names, length, size)
              /\ request' = [op |-> "deal", people |-> On, calm |-> TRUE]
         ELSE ReplaceHalfway(names, size) /\ UNCHANGED request
      /\ UNCHANGED event
  BY DEF ShuffleStart
<1> HIDE DEF n, length, size
<1>3. names \in [1..n -> Name] /\ IsInjective(names)
  <2>1. CASE IsChallenge
    <3>1. names = ChallengeNames /\ n = 2 BY <2>1, <1>1
    <3>2. ChallengeNames \in [1..2 -> Name]
      <4>1. ChallengeNames \in Seq(Name) /\ Len(ChallengeNames) = 2 BY DEF TeamBounds
      <4>2. \A s \in Seq(Name) : s \in [1..Len(s) -> Name] OBVIOUS
      <4>3. ChallengeNames \in [1..Len(ChallengeNames) -> Name] BY <4>1, <4>2
      <4> QED BY <4>1, <4>3
    <3>3. IsInjective(ChallengeNames) BY DEF TeamBounds
    <3> HIDE DEF names
    <3> QED BY <3>1, <3>2, <3>3
  <2>2. CASE ~IsChallenge
    <3>1. names = NamesForShuffle(n) BY <2>2
    <3>2. team \in Seq(Team) /\ \A i, j \in DOMAIN team : team[i].name = team[j].name => i = j
      BY DEF TeamsInv, Teams, RowsTell
    <3> HIDE DEF names
    <3> QED BY <3>1, <3>2, <1>1, ShuffleNames
  <2> QED BY <2>1, <2>2
<1> HIDE DEF names
<1>4. /\ Replace(names, length, size)
      /\ request' = [op |-> "deal", people |-> On, calm |-> TRUE]
  BY <1>2, <1>3
<1>5. /\ row \in [Person -> RosterRow]
      /\ room \in [Name -> {"none", "open", "archived"}]
  BY DEF TeamsInv, Teams, Doors
<1>6. /\ \A p \in Person : row'[p].standing = row[p].standing /\ row'[p].side = row[p].side
      /\ team' \in Seq(Team) /\ Len(team') = n
      /\ \A i \in 1..n : team'[i].players = {} /\ team'[i].guests = {} /\ team'[i].size = size
  <2>1. n \in 2..6 /\ size \in Nat /\ length \in Nat \ {0} BY <1>1
  <2>2. names \in [1..n -> Name] /\ IsInjective(names) BY <1>3
  <2>3. Replace(names, length, size) BY <1>4
  <2>4. Rebuilds(n, names, length, size) BY <2>1, <2>2, <2>3 DEF Rebuilds
  <2>5. Rebuilt(n, size) BY <1>5, <2>4, ReplaceMakes
  <2> QED BY <2>5 DEF Rebuilt
<1>7. OnOf(row') = On /\ OnOf(row) = On BY <1>6 DEF OnOf, On
<1>8. \A s : SideIn(row', s) = SideOf(s)
  BY <1>6, <1>7 DEF SideIn, SideOf, On, OnOf, Person
<1>9. /\ IsChallenge /\ Overfull = FALSE => \A s \in 1..2 : Cardinality(SideOf(s)) <= size
      /\ ~IsChallenge /\ Overfull = FALSE =>
           CeilDiv(Cardinality(On \cap Player), n) + CeilDiv(Cardinality(On \cap Guest), n)
             <= size
  <2>2. ASSUME IsChallenge, Overfull = FALSE
        PROVE  \A s \in 1..2 : Cardinality(SideOf(s)) <= size
    <3> DEFINE a == Cardinality(SideOf(1))
               b == Cardinality(SideOf(2))
    <3>1. a \in Nat /\ b \in Nat
      <4>1. SideOf(1) \subseteq On /\ SideOf(2) \subseteq On BY DEF SideOf
      <4> QED BY <4>1, <1>1, FS_Subset, FS_CardinalityType
    <3>2. ~(Max({a, b}) > size) BY <1>2, <2>2 DEF BiggestDeal
    <3>3. a \in Int /\ b \in Int BY <3>1
    <3>4. Max({a, b}) \in {a, b} /\ Max({a, b}) >= a /\ Max({a, b}) >= b
      <4> HIDE DEF a, b
      <4> QED BY <3>3, MaxOfTwo, Zenon
    <3>5. a <= size /\ b <= size
      <4> HIDE DEF a, b
      <4>1. PICK x : x = Max({a, b}) OBVIOUS
      <4>2. x \in {a, b} /\ x >= a /\ x >= b /\ ~(x > size) BY <4>1, <3>2, <3>4
      <4> QED BY <4>2, <3>1, <1>1
    <3> QED BY <3>5
  <2>3. ASSUME ~IsChallenge, Overfull = FALSE
        PROVE  CeilDiv(Cardinality(On \cap Player), n)
                 + CeilDiv(Cardinality(On \cap Guest), n) <= size
    <3>1. Cardinality(On \cap Player) \in Nat /\ Cardinality(On \cap Guest) \in Nat
      BY <1>1, FS_Subset, FS_CardinalityType
    <3>2. n \in Nat \ {0} BY <1>1
    <3>3. PICK x, y : /\ x = CeilDiv(Cardinality(On \cap Player), n)
                      /\ y = CeilDiv(Cardinality(On \cap Guest), n)
      OBVIOUS
    <3>4. x \in Nat /\ y \in Nat BY <3>1, <3>2, <3>3, CeilDivides
    <3>5. ~(x + y > size) BY <1>2, <2>3, <3>3 DEF BiggestDeal
    <3> QED BY <3>3, <3>4, <3>5, <1>1
  <2> QED BY <2>2, <2>3
<1>10. DOMAIN team' = 1..n BY <1>6
<1>11. ReadyToDeal(event'.kind, row', team', On, TRUE)
  <2>1. On \subseteq Person BY DEF On
  <2>2. event'.kind = event.kind BY <1>2
  <2> QED BY <2>1, <2>2, <1>1, <1>6, <1>7, <1>8, <1>9, <1>10 DEF ReadyToDeal, IsChallenge
<1>12. Shuffling'
  <2>1. request'.people = On /\ request'.calm = TRUE BY <1>4
  <2> QED BY <2>1, <1>4, <1>11 DEF Shuffling
<1>13. TeamEvent' /\ event'.kind = event.kind /\ event'.status = event.status
  BY <1>2 DEF TeamsInv, TeamEvent
<1> QED BY <1>1, <1>2, <1>3, <1>4, <1>12, <1>13, RebuildKeeps

-----------------------------------------------------------------------------
(* People are dealt *)

LEMMA TimesGrows ==
  ASSUME NEW n \in Nat, NEW a \in Int, NEW b \in Int, a <= b
  PROVE  n * a <= n * b
<1>1. \A x \in Nat : n * x \in Nat OBVIOUS
<1>2. b - a \in Nat OBVIOUS
<1>3. n * (b - a) \in Nat BY <1>1, <1>2
<1>4. n * (b - a) = n * b - n * a OBVIOUS
<1> QED BY <1>3, <1>4

\* Who is dealt in turn to one of n teams: a share rounded up or one fewer.
LEMMA SharesEven ==
  ASSUME NEW m \in Nat, NEW n \in Nat \ {0}, NEW i \in 1..n
  PROVE  /\ ShareOf(m, n, i) \in Nat /\ CeilDiv(m, n) \in Nat
         /\ ShareOf(m, n, i) <= CeilDiv(m, n)
         /\ CeilDiv(m, n) <= ShareOf(m, n, i) + 1
<1> DEFINE K == {k \in 0..m - 1 : k % n = i - 1}
           q == CeilDiv(m, n)
<1>1. q \in Nat /\ n * q >= m BY CeilDivides
<1>2. n * (q - 1) <= m - 1
  <2> DEFINE d == (m + n - 1) \div n
             r == (m + n - 1) % n
  <2>1. d \in Int /\ r \in 0..n - 1 /\ m + n - 1 = n * d + r OBVIOUS
  <2>2. n * (d - 1) = n * d - n BY <2>1
  <2>3. n * (d - 1) <= m - 1 BY <2>1, <2>2
  <2> QED BY <2>3 DEF CeilDiv
<1> HIDE DEF q
<1>3. IsFiniteSet(K)
  <2>1. IsFiniteSet(0..m - 1) BY FS_Interval
  <2> QED BY <2>1, FS_Subset
<1>4. \A k \in K : /\ k \in Nat /\ k <= m - 1
                   /\ k \div n \in Int /\ k = n * (k \div n) + (i - 1)
  OBVIOUS
<1>5. \A k \in K : k \div n \in 0..q - 1
  <2> TAKE k \in K
  <2> DEFINE d == k \div n
  <2>1. k \in Nat /\ k <= m - 1 /\ d \in Int /\ k = n * d + (i - 1) BY <1>4
  <2> HIDE DEF d
  <2>2. d >= 0
    <3> SUFFICES ASSUME d <= -1 PROVE FALSE BY <2>1
    <3>1. n * d <= n * (-1) BY <2>1, TimesGrows
    <3> QED BY <3>1, <2>1
  <2>3. d <= q - 1
    <3> SUFFICES ASSUME q <= d PROVE FALSE BY <2>1, <1>1
    <3>1. n * q <= n * d BY <2>1, <1>1, TimesGrows
    <3> QED BY <3>1, <2>1, <1>1
  <2> QED BY <2>1, <2>2, <2>3, <1>1 DEF d
<1>6. Cardinality(K) <= q
  <2> DEFINE f == [k \in K |-> k \div n]
  <2>1. f \in [K -> 0..q - 1] BY <1>5
  <2>2. \A a, b \in K : f[a] = f[b] => a = b
    <3> TAKE a, b \in K
    <3>1. a = n * (a \div n) + (i - 1) /\ b = n * (b \div n) + (i - 1) BY <1>4
    <3>2. f[a] = a \div n /\ f[b] = b \div n OBVIOUS
    <3> HAVE f[a] = f[b]
    <3>3. a \div n = b \div n BY <3>2
    <3> QED BY <3>1, <3>3
  <2>3. f \in Injection(K, 0..q - 1) BY <2>1, <2>2 DEF Injection, IsInjective
  <2>4. IsFiniteSet(0..q - 1) /\ Cardinality(0..q - 1) = q BY <1>1, FS_Interval
  <2> HIDE DEF f
  <2> QED BY <2>3, <2>4, FS_Injection
<1>7. q <= Cardinality(K) + 1
  <2> DEFINE g == [j \in 0..q - 2 |-> n * j + (i - 1)]
  <2>1. \A j \in 0..q - 2 : n * j + (i - 1) \in K
    <3> TAKE j \in 0..q - 2
    <3>1. n * j \in Nat /\ j \in Nat
      <4>1. \A x \in Nat : n * x \in Nat OBVIOUS
      <4> QED BY <4>1
    <3>2. n * j <= n * (q - 2) BY <1>1, TimesGrows
    <3>3. n * (q - 2) = n * (q - 1) - n BY <1>1
    <3>4. n * j + (i - 1) \in 0..m - 1
      <4>1. PICK a, b, c : a = n * j /\ b = n * (q - 2) /\ c = n * (q - 1) OBVIOUS
      <4>2. c \in Int /\ b \in Int BY <4>1, <1>1
      <4> QED BY <4>1, <4>2, <3>1, <3>2, <3>3, <1>2
    <3>5. (n * j + (i - 1)) % n = i - 1
      <4> DEFINE k == n * j + (i - 1)
                 d == k \div n
                 r == k % n
      <4>1. d \in Int /\ r \in 0..n - 1 /\ k = n * d + r BY <3>1
      <4>2. n * (d - j) = (i - 1) - r
        <5>1. n * (d - j) = n * d - n * j BY <4>1
        <5> QED BY <5>1, <4>1, <3>1
      <4> HIDE DEF d, r, k
      <4>3. d - j = 0
        <5>1. CASE d - j >= 1
          <6>1. n * 1 <= n * (d - j) BY <5>1, <4>1, TimesGrows
          <6> QED BY <6>1, <4>1, <4>2
        <5>2. CASE d - j <= -1
          <6>1. n * (d - j) <= n * (-1) BY <5>2, <4>1, TimesGrows
          <6> QED BY <6>1, <4>1, <4>2
        <5> QED BY <5>1, <5>2, <4>1
      <4>4. (i - 1) - r = 0 BY <4>2, <4>3
      <4> QED BY <4>1, <4>4 DEF r, k
    <3> QED BY <3>4, <3>5
  <2>2. g \in [0..q - 2 -> K] BY <2>1
  <2>3. \A a, b \in 0..q - 2 : g[a] = g[b] => a = b
    <3> TAKE a, b \in 0..q - 2
    <3> HAVE g[a] = g[b]
    <3>1. n * a = n * b
      <4>1. \A x \in Nat : n * x \in Nat OBVIOUS
      <4>2. a \in Nat /\ b \in Nat OBVIOUS
      <4> QED BY <4>1, <4>2
    <3>2. n * (a - b) = 0
      <4>1. n * (a - b) = n * a - n * b OBVIOUS
      <4> QED BY <4>1, <3>1
    <3>3. CASE a - b >= 1
      <4>1. n * 1 <= n * (a - b) BY <3>3, TimesGrows
      <4> QED BY <4>1, <3>2
    <3>4. CASE a - b <= -1
      <4>1. n * (a - b) <= n * (-1) BY <3>4, TimesGrows
      <4> QED BY <4>1, <3>2
    <3> QED BY <3>3, <3>4
  <2>4. g \in Injection(0..q - 2, K) BY <2>2, <2>3 DEF Injection, IsInjective
  <2>5. IsFiniteSet(0..q - 2) /\ Cardinality(0..q - 2) = IF q >= 1 THEN q - 1 ELSE 0
    BY <1>1, FS_Interval
  <2> HIDE DEF g
  <2>6. Cardinality(0..q - 2) <= Cardinality(K) BY <2>4, <1>3, FS_Injection
  <2>7. Cardinality(K) \in Nat BY <1>3, FS_CardinalityType
  <2> HIDE DEF K
  <2> QED BY <2>5, <2>6, <2>7, <1>1
<1>8. ShareOf(m, n, i) = Cardinality(K) BY DEF ShareOf
<1>9. Cardinality(K) \in Nat BY <1>3, FS_CardinalityType
<1> QED BY <1>1, <1>6, <1>7, <1>8, <1>9 DEF q

\* What is dealt: everybody to one team, in even shares.
LEMMA DealtEven ==
  ASSUME NEW S, IsFiniteSet(S), NEW n \in Nat \ {0}, NEW d \in Deals(S, n),
         NEW i \in 1..n, NEW who, who = {p \in S : d[p] = i}
  PROVE  /\ d \in [S -> 1..n] /\ CeilDiv(Cardinality(S), n) \in Nat
         /\ Cardinality(who) \in Nat
         /\ Cardinality(who) <= CeilDiv(Cardinality(S), n)
         /\ CeilDiv(Cardinality(S), n) <= Cardinality(who) + 1
<1>1. /\ d \in [S -> 1..n]
      /\ Cardinality({p \in S : d[p] = i}) = ShareOf(Cardinality(S), n, i)
  BY DEF Deals
<1>3. Cardinality(S) \in Nat BY FS_CardinalityType
<1>4. Cardinality(who) = ShareOf(Cardinality(S), n, i) BY <1>1
<1>5. /\ ShareOf(Cardinality(S), n, i) \in Nat
      /\ ShareOf(Cardinality(S), n, i) <= CeilDiv(Cardinality(S), n)
      /\ CeilDiv(Cardinality(S), n) <= ShareOf(Cardinality(S), n, i) + 1
  BY <1>3, SharesEven
<1>6. CeilDiv(Cardinality(S), n) \in Nat BY <1>3, CeilDivides
<1> QED BY <1>1, <1>4, <1>5, <1>6

LEMMA DealByLotKeeps ==
  ASSUME TeamBounds, TeamsInv, DealByLot
  PROVE  TeamsInv'
<1>1. request.op = "deal" /\ event.kind # "challenge" /\ UNCHANGED <<event, row, team, match, room>>
  BY DEF DealByLot, IsChallenge, built
<1>2. /\ request = [op |-> "deal", people |-> request.people, calm |-> request.calm]
      /\ ReadyToDeal(event.kind, row, team, request.people, request.calm)
  BY <1>1 DEF TeamsInv, Shuffling, Idle
<1>3. PICK people, calm : people = request.people /\ calm = request.calm OBVIOUS
<1> DEFINE n == Len(team)
           S == people \cap Player
           G == people \cap Guest
<1>4. n \in Nat \ {0} /\ DOMAIN team = 1..n
  <2>1. team \in Seq(Team) BY DEF TeamsInv, Teams
  <2>2. Len(team) > 0 BY <1>2 DEF ReadyToDeal
  <2> QED BY <2>1, <2>2
<1>5. PICK d \in Deals(S, n), e \in Deals(G, n) :
        Dealt([i \in DOMAIN team |-> Squad({p \in DOMAIN d : d[p] = i},
                                               {g \in DOMAIN e : e[g] = i})])
  BY <1>3 DEF DealByLot
<1>6. IsFiniteSet(S) /\ IsFiniteSet(G) BY FS_Subset DEF TeamBounds
<1> DEFINE players(i) == {p \in S : d[p] = i}
           guests(i) == {g \in G : e[g] = i}
           squads == [i \in 1..n |-> [players |-> players(i), guests |-> guests(i)]]
           a == CeilDiv(Cardinality(S), n)
           b == CeilDiv(Cardinality(G), n)
<1>7. /\ d \in [S -> 1..n] /\ a \in Nat
      /\ \A i \in 1..n : /\ Cardinality(players(i)) \in Nat
                         /\ Cardinality(players(i)) <= a /\ a <= Cardinality(players(i)) + 1
  <2> HIDE DEF n, S
  <2>1. n \in Nat \ {0} BY <1>4
  <2>2. d \in [S -> 1..n] BY DEF Deals
  <2>3. a \in Nat BY <2>1, <1>6, FS_CardinalityType, CeilDivides
  <2>4. ASSUME NEW i \in 1..n
        PROVE  /\ Cardinality(players(i)) \in Nat
               /\ Cardinality(players(i)) <= a /\ a <= Cardinality(players(i)) + 1
    <3>1. PICK who : who = players(i) OBVIOUS
    <3>2. /\ Cardinality(who) \in Nat
          /\ Cardinality(who) <= a /\ a <= Cardinality(who) + 1
      BY <2>1, <3>1, <1>6, DealtEven
    <3> QED BY <3>1, <3>2
  <2> QED BY <2>2, <2>3, <2>4
<1>8. /\ e \in [G -> 1..n] /\ b \in Nat
      /\ \A i \in 1..n : /\ Cardinality(guests(i)) \in Nat
                         /\ Cardinality(guests(i)) <= b /\ b <= Cardinality(guests(i)) + 1
  <2> HIDE DEF n, G
  <2>1. n \in Nat \ {0} BY <1>4
  <2>2. e \in [G -> 1..n] BY DEF Deals
  <2>3. b \in Nat BY <2>1, <1>6, FS_CardinalityType, CeilDivides
  <2>4. ASSUME NEW i \in 1..n
        PROVE  /\ Cardinality(guests(i)) \in Nat
               /\ Cardinality(guests(i)) <= b /\ b <= Cardinality(guests(i)) + 1
    <3>1. PICK who : who = guests(i) OBVIOUS
    <3>2. /\ Cardinality(who) \in Nat
          /\ Cardinality(who) <= b /\ b <= Cardinality(who) + 1
      BY <2>1, <3>1, <1>6, DealtEven
    <3> QED BY <3>1, <3>2
  <2> QED BY <2>2, <2>3, <2>4
<1>9. request' = [op |-> "assign", next |-> 1, squads |-> squads, people |-> people, calm |-> calm]
  <2>1. DOMAIN d = S /\ DOMAIN e = G BY <1>7, <1>8
  <2> QED BY <2>1, <1>3, <1>4, <1>5 DEF Dealt, Squad
<1>10. \A i \in 1..n : squads[i].players = players(i) /\ squads[i].guests = guests(i)
  OBVIOUS
<1>11. /\ people \subseteq Person /\ calm \in BOOLEAN
       /\ \A i \in DOMAIN team : team[i].players = {} /\ team[i].guests = {}
       /\ calm => people = OnOf(row)
       /\ Overfull = FALSE => \A i \in DOMAIN team : a + b <= team[i].size
  BY <1>1, <1>2, <1>3 DEF ReadyToDeal
<1>12. \A i \in DOMAIN team : team[i].size \in Nat
  <2>1. \A i \in DOMAIN team : team[i] \in Team BY DEF TeamsInv, Teams
  <2> QED BY <2>1 DEF Team
<1>13. ASSUME calm, Overfull = FALSE PROVE GoodSquads(event.kind, row, team, squads)
  <2>1. people = OnOf(row) BY <1>11, <1>13
  <2>2. \A i \in 1..n : /\ players(i) \subseteq Player \cap OnOf(row)
                        /\ guests(i) \subseteq Guest \cap OnOf(row)
    BY <2>1
  <2>3. \A i \in 1..n : Cardinality(players(i)) + Cardinality(guests(i)) <= team[i].size
    <3> TAKE i \in 1..n
    <3>1. PICK x, y : x = Cardinality(players(i)) /\ y = Cardinality(guests(i)) OBVIOUS
    <3>2. x \in Nat /\ x <= a /\ y \in Nat /\ y <= b BY <3>1, <1>7, <1>8
    <3>3. a \in Nat /\ b \in Nat /\ a + b <= team[i].size /\ team[i].size \in Nat
      BY <1>4, <1>7, <1>8, <1>11, <1>12, <1>13
    <3> HIDE DEF a, b
    <3> QED BY <3>1, <3>2, <3>3
  <2>4. \A i, j \in 1..n : i # j => players(i) \cap players(j) = {} /\ guests(i) \cap guests(j) = {}
    OBVIOUS
  <2>5. \A p \in OnOf(row) : \E i \in 1..n : p \in players(i) \/ p \in guests(i)
    <3> TAKE p \in OnOf(row)
    <3>1. p \in S \/ p \in G BY <2>1, <1>11 DEF Person
    <3>2. CASE p \in S BY <3>2, <1>7
    <3>3. CASE p \in G BY <3>3, <1>8
    <3> QED BY <3>1, <3>2, <3>3
  <2>6. \A i, j \in 1..n : /\ Cardinality(players(i)) - Cardinality(players(j)) \in -1..1
                           /\ Cardinality(guests(i)) - Cardinality(guests(j)) \in -1..1
    <3> TAKE i, j \in 1..n
    <3>1. PICK x, y, u, w : /\ x = Cardinality(players(i)) /\ y = Cardinality(players(j))
                            /\ u = Cardinality(guests(i)) /\ w = Cardinality(guests(j))
      OBVIOUS
    <3>2. /\ x \in Nat /\ x <= a /\ a <= x + 1 /\ y \in Nat /\ y <= a /\ a <= y + 1 /\ a \in Nat
      BY <3>1, <1>7
    <3>3. /\ u \in Nat /\ u <= b /\ b <= u + 1 /\ w \in Nat /\ w <= b /\ b <= w + 1 /\ b \in Nat
      BY <3>1, <1>8
    <3> HIDE DEF a, b
    <3>4. x - y \in -1..1 /\ u - w \in -1..1 BY <3>2, <3>3
    <3> QED BY <3>1, <3>4
  <2> HIDE DEF players, guests, squads, n
  <2>7. \A i \in 1..n : Everyone(squads[i]) = players(i) \cup guests(i) BY <1>10 DEF Everyone
  <2> QED BY <2>2, <2>3, <2>4, <2>5, <2>6, <2>7, <1>1, <1>4, <1>10 DEF GoodSquads
<1> HIDE DEF squads, n
<1>14. ReadyToAssign(event.kind, row, team, squads, 1, people, calm)
  <2>1. 1 \in DOMAIN team BY <1>4
  <2>2. Placed(team, squads, 1)
    <3>1. \A i \in DOMAIN team : ~(i < 1) BY <1>4
    <3> QED BY <3>1, <1>11 DEF Placed
  <2> QED BY <2>1, <2>2, <1>11, <1>13, Zenon DEF ReadyToAssign
<1>15. Shuffling'
  <2>1. /\ request'.next = 1 /\ request'.squads = squads /\ request'.people = people
        /\ request'.calm = calm
    BY <1>9
  <2> QED BY <2>1, <1>1, <1>9, <1>14 DEF Shuffling
<1> QED BY <1>1, <1>15 DEF TeamsInv, TeamEvent, Teams, Fixtures, Scores, Doors

LEMMA DealSidesKeeps ==
  ASSUME TeamBounds, TeamsInv, DealSides
  PROVE  TeamsInv'
<1>1. request.op = "deal" /\ event.kind = "challenge" /\ UNCHANGED <<event, row, team, match, room>>
  BY DEF DealSides, IsChallenge, built
<1>2. /\ request = [op |-> "deal", people |-> request.people, calm |-> request.calm]
      /\ ReadyToDeal(event.kind, row, team, request.people, request.calm)
  BY <1>1 DEF TeamsInv, Shuffling, Idle
<1>3. PICK people, calm : people = request.people /\ calm = request.calm OBVIOUS
<1> DEFINE squads == [i \in 1..2 |-> [players |-> SideIn(row, i), guests |-> {}]]
<1>4. \A i \in 1..2 : SideOf(i) = SideIn(row, i)
  BY DEF SideIn, SideOf, On, Person
<1>5. request' = [op |-> "assign", next |-> 1, squads |-> squads, people |-> people, calm |-> calm]
  <2>1. Dealt([i \in 1..2 |-> Squad(SideOf(i), {})]) BY DEF DealSides
  <2>2. [i \in 1..2 |-> Squad(SideOf(i), {})] = squads BY <1>4 DEF Squad
  <2> QED BY <2>1, <2>2, <1>3 DEF Dealt
<1>6. \A i \in 1..2 : squads[i].players = SideIn(row, i) /\ squads[i].guests = {}
  OBVIOUS
<1> HIDE DEF squads
<1>7. /\ Len(team) = 2 /\ calm \in BOOLEAN
      /\ \A i \in DOMAIN team : team[i].players = {} /\ team[i].guests = {}
      /\ calm => people = OnOf(row)
      /\ calm /\ Overfull = FALSE => \A i \in 1..2 : Cardinality(SideIn(row, i)) <= team[i].size
  BY <1>1, <1>2, <1>3 DEF ReadyToDeal
<1>8. DOMAIN team = 1..2
  <2>1. team \in Seq(Team) BY DEF TeamsInv, Teams
  <2> QED BY <2>1, <1>7
<1>9. ASSUME calm, Overfull = FALSE PROVE GoodSquads(event.kind, row, team, squads)
  <2>1. \A i \in 1..2 : SideIn(row, i) \subseteq Player \cap OnOf(row)
    BY DEF SideIn, OnOf, Person
  <2>2. \A i \in 1..2 : Cardinality(SideIn(row, i)) + Cardinality({}) <= team[i].size
    <3>1. Cardinality({}) = 0 BY FS_EmptySet
    <3>2. \A i \in 1..2 : Cardinality(SideIn(row, i)) \in Nat
      <4>1. \A i \in 1..2 : IsFiniteSet(SideIn(row, i)) BY FS_Subset DEF SideIn, TeamBounds
      <4> QED BY <4>1, FS_CardinalityType
    <3> QED BY <3>1, <3>2, <1>7, <1>9
  <2>3. \A i, j \in 1..2 : i # j => SideIn(row, i) \cap SideIn(row, j) = {} BY DEF SideIn
  <2>4. \A p \in OnOf(row) : \E i \in 1..2 : p \in SideIn(row, i)
    <3> TAKE p \in OnOf(row)
    <3>1. p \in Player /\ row[p].side \in {1, 2}
      BY <1>1 DEF OnOf, TeamsInv, Teams, Sided
    <3> QED BY <3>1 DEF OnOf, SideIn
  <2>5. \A i \in 1..2 : Everyone(squads[i]) = SideIn(row, i) BY <1>6 DEF Everyone
  <2>6. \A i \in DOMAIN team :
          /\ squads[i].players \subseteq Player \cap OnOf(row)
          /\ squads[i].guests \subseteq Guest \cap OnOf(row)
          /\ Cardinality(squads[i].players) + Cardinality(squads[i].guests) <= team[i].size
    BY <2>1, <2>2, <1>6, <1>8
  <2>7. \A i, j \in DOMAIN team : i # j =>
          /\ squads[i].players \cap squads[j].players = {}
          /\ squads[i].guests \cap squads[j].guests = {}
    BY <2>3, <1>6, <1>8
  <2>8. \A p \in OnOf(row) : \E i \in DOMAIN team : p \in Everyone(squads[i])
    BY <2>4, <2>5, <1>8
  <2> QED BY <2>6, <2>7, <2>8, <1>1, <1>6, <1>7 DEF GoodSquads
<1>10. ReadyToAssign(event.kind, row, team, squads, 1, people, calm)
  <2>1. 1 \in DOMAIN team BY <1>8
  <2>2. Placed(team, squads, 1)
    <3>1. \A i \in DOMAIN team : ~(i < 1) BY <1>8
    <3> QED BY <3>1, <1>7 DEF Placed
  <2> QED BY <2>1, <2>2, <1>7, <1>9, Zenon DEF ReadyToAssign
<1>11. Shuffling'
  <2>1. /\ request'.next = 1 /\ request'.squads = squads /\ request'.people = people
        /\ request'.calm = calm
    BY <1>5
  <2> QED BY <2>1, <1>1, <1>5, <1>10 DEF Shuffling
<1> QED BY <1>1, <1>11 DEF TeamsInv, TeamEvent, Teams, Fixtures, Scores, Doors

-----------------------------------------------------------------------------
(* Teams are assigned *)

\* A squad is put where it fits: what it changes, and that the rest stands.
LEMMA FieldKeeps ==
  ASSUME TeamBounds, TeamsInv, NEW i, NEW ps, NEW gs, Fieldable(i, ps, gs),
         Field(i, ps, gs, team[i].name)
  PROVE  /\ i \in DOMAIN team
         /\ Teams' /\ Fixtures' /\ Doors' /\ TeamEvent' /\ Scores'
         /\ UNCHANGED event
         /\ OnOf(row') = OnOf(row) /\ \A s : SideIn(row', s) = SideIn(row, s)
         /\ DOMAIN team' = DOMAIN team /\ Len(team') = Len(team)
         /\ team'[i].players = ps /\ team'[i].guests = gs
         /\ \A j \in DOMAIN team : team'[j].size = team[j].size
         /\ \A j \in DOMAIN team \ {i} : team'[j] = team[j]
<1>1. /\ i \in DOMAIN team /\ ps \in SUBSET Player /\ gs \in SUBSET Guest
      /\ Cardinality(ps) + Cardinality(gs) <= team[i].size
      /\ \A j \in DOMAIN team \ {i} : ps \cap team[j].players = {} /\ gs \cap team[j].guests = {}
  BY DEF Fieldable
<1>2. /\ row \in [Person -> RosterRow] /\ team \in Seq(Team)
      /\ RowsTell(row, team) /\ Manned(team) /\ Sided(event.kind, row)
  BY DEF TeamsInv, Teams
<1>3. PICK name : name = team[i].name OBVIOUS
<1>4. name \in Name
  <2>1. team[i] \in Team BY <1>1, <1>2
  <2> QED BY <2>1, <1>3 DEF Team
<1>5. Field(i, ps, gs, name) BY <1>3
<1>6. /\ \E t \in Team : Squadded(team[i], t, ps, gs) /\ team' = [team EXCEPT ![i] = t]
      /\ row' \in [Person -> RosterRow]
      /\ Stamped(row, row', name, ps \cup gs)
  BY <1>1, <1>2, <1>3, <1>4, <1>5, FieldWrites
<1>7. PICK t \in Team : Squadded(team[i], t, ps, gs) /\ team' = [team EXCEPT ![i] = t] BY <1>6
<1>8. Stamped(row, row', team[i].name, ps \cup gs) BY <1>3, <1>6
<1>9. /\ team' \in Seq(Team) /\ DOMAIN team' = DOMAIN team /\ Len(team') = Len(team)
      /\ team'[i].players = ps /\ team'[i].guests = gs
      /\ \A j \in DOMAIN team : team'[j].name = team[j].name /\ team'[j].size = team[j].size
      /\ \A j \in DOMAIN team \ {i} : team'[j] = team[j]
      /\ RowsTell(row', team') /\ Manned(team')
  BY <1>1, <1>2, <1>7, <1>8, SquadKeepsStep
<1>10. UNCHANGED <<event, match, room>> BY DEF Field
<1>11. \A p \in Person : row'[p].standing = row[p].standing /\ row'[p].side = row[p].side
  BY <1>6 DEF Stamped
<1>12. OnOf(row') = OnOf(row) /\ \A s : SideIn(row', s) = SideIn(row, s)
  BY <1>11 DEF OnOf, SideIn, Person
<1>13. Teams' BY <1>2, <1>6, <1>9, <1>10, <1>11 DEF Teams, Sided
<1>14. NamesOf(team') = NamesOf(team) BY <1>9 DEF NamesOf
<1>15. Fixtures' /\ Doors' /\ TeamEvent' /\ Scores'
  BY <1>10, <1>14 DEF TeamsInv, Fixtures, Doors, TeamEvent, Scores
<1> QED BY <1>1, <1>9, <1>10, <1>12, <1>13, <1>15

LEMMA AssignTeamKeeps ==
  ASSUME TeamBounds, TeamsInv, NEW i, NEW ps, NEW gs, NEW name, AssignTeam(i, ps, gs, name)
  PROVE  TeamsInv'
<1>1. /\ request = Idle /\ request' = Idle /\ Fieldable(i, ps, gs)
      /\ name = team[i].name /\ Field(i, ps, gs, name)
  BY DEF AssignTeam, TeamBounds
<1>2. Shuffling'
  <2>1. Idle' = Idle BY DEF Idle
  <2> QED BY <2>1, <1>1 DEF Shuffling
<1> QED BY <1>1, <1>2, FieldKeeps DEF TeamsInv

LEMMA AssignNextKeeps ==
  ASSUME TeamBounds, TeamsInv, AssignNext
  PROVE  TeamsInv'
<1>1. request.op = "assign" BY DEF AssignNext
<1>2. /\ request = [op |-> "assign", next |-> request.next, squads |-> request.squads,
                    people |-> request.people, calm |-> request.calm]
      /\ ReadyToAssign(event.kind, row, team, request.squads, request.next, request.people,
                       request.calm)
  BY <1>1 DEF TeamsInv, Shuffling, Idle
<1>3. PICK people, calm, i, squads : /\ people = request.people /\ calm = request.calm
                                     /\ i = request.next /\ squads = request.squads
  OBVIOUS
<1>4. ReadyToAssign(event.kind, row, team, squads, i, people, calm) BY <1>2, <1>3
<1>5. request = [op |-> "assign", next |-> i, squads |-> squads, people |-> people, calm |-> calm]
  BY <1>2, <1>3
<1> DEFINE ps == squads[i].players
           gs == squads[i].guests
<1>6. Idle' = Idle BY DEF Idle
<1>7. CASE Fieldable(i, ps, gs)
  <2>1. /\ Field(i, ps, gs, team[i].name)
        /\ request' = IF i = Len(team) THEN Idle ELSE [request EXCEPT !.next = i + 1]
    BY <1>3, <1>7 DEF AssignNext
  <2> HIDE DEF ps, gs
  <2>2. /\ i \in DOMAIN team
        /\ Teams' /\ Fixtures' /\ Doors' /\ TeamEvent' /\ Scores'
        /\ UNCHANGED event
        /\ OnOf(row') = OnOf(row) /\ \A s : SideIn(row', s) = SideIn(row, s)
        /\ DOMAIN team' = DOMAIN team /\ Len(team') = Len(team)
        /\ team'[i].players = ps /\ team'[i].guests = gs
        /\ \A j \in DOMAIN team : team'[j].size = team[j].size
        /\ \A j \in DOMAIN team \ {i} : team'[j] = team[j]
    BY <1>7, <2>1, FieldKeeps
  <2>3. CASE i = Len(team)
    BY <2>1, <2>2, <2>3, <1>6 DEF TeamsInv, Shuffling
  <2>4. CASE i # Len(team)
    <3>1. request' = [op |-> "assign", next |-> i + 1, squads |-> squads, people |-> people,
                      calm |-> calm]
      BY <2>1, <2>4, <1>5
    <3>2. team \in Seq(Team) BY DEF TeamsInv, Teams
    <3>3. i \in 1..Len(team) /\ i + 1 \in DOMAIN team' BY <2>2, <2>4, <3>2
    <3>4. ASSUME calm, Overfull = FALSE
          PROVE  /\ people = OnOf(row')
                 /\ GoodSquads(event.kind, row', team', squads)
                 /\ Placed(team', squads, i + 1)
      <4>1. people = OnOf(row) /\ GoodSquads(event.kind, row, team, squads) /\ Placed(team, squads, i)
        BY <1>4, <3>4 DEF ReadyToAssign
      <4>2. GoodSquads(event.kind, row', team', squads)
        BY <4>1, <2>2 DEF GoodSquads
      <4>3. Placed(team', squads, i + 1)
        <5>1. \A j \in DOMAIN team : (j < i + 1) <=> (j < i \/ j = i)
          BY <3>2, <3>3
        <5>2. ~(i < i) BY <3>3
        <5> QED BY <5>1, <5>2, <4>1, <2>2 DEF Placed, ps, gs
      <4> QED BY <4>1, <4>2, <4>3, <2>2
    <3>5. calm \in BOOLEAN BY <1>4 DEF ReadyToAssign
    <3>6. ReadyToAssign(event.kind, row', team', squads, i + 1, people, calm)
      BY <3>3, <3>4, <3>5, Zenon DEF ReadyToAssign
    <3>7. /\ request'.next = i + 1 /\ request'.squads = squads /\ request'.people = people
          /\ request'.calm = calm
      BY <3>1
    <3>8. Shuffling' BY <3>1, <3>6, <3>7, <2>2 DEF Shuffling
    <3> QED BY <3>8, <2>2 DEF TeamsInv
  <2> QED BY <2>3, <2>4
<1>8. CASE ~Fieldable(i, ps, gs)
  <2>1. request' = Idle /\ UNCHANGED <<event, row, team, match, room>>
    BY <1>3, <1>8 DEF AssignNext, built
  <2> QED BY <2>1, <1>6 DEF TeamsInv, TeamEvent, Teams, Fixtures, Scores, Doors, Shuffling
<1> QED BY <1>7, <1>8

LEMMA SetCaptainKeeps ==
  ASSUME TeamBounds, TeamsInv, NEW i, NEW p, NEW is \in BOOLEAN, SetCaptain(i, p, is)
  PROVE  TeamsInv'
<1>1. /\ request = Idle /\ i \in DOMAIN team /\ p \in team[i].players
      /\ UNCHANGED <<event, row, match, room, request>>
      /\ team' = [team EXCEPT ![i].captains = IF is THEN @ \cup {p} ELSE @ \ {p}]
  BY DEF SetCaptain
<1>2. team \in Seq(Team) /\ RowsTell(row, team) /\ Manned(team) BY DEF TeamsInv, Teams
<1>3. PICK r : r = team[i] OBVIOUS
<1>4. r \in Team BY <1>1, <1>2, <1>3
<1> DEFINE c == IF is THEN r.captains \cup {p} ELSE r.captains \ {p}
           t == [name |-> r.name, players |-> r.players, guests |-> r.guests,
                 captains |-> c, size |-> r.size]
<1>5. r = [name |-> r.name, players |-> r.players, guests |-> r.guests,
           captains |-> r.captains, size |-> r.size]
  BY <1>4 DEF Team
<1>6. team' = [team EXCEPT ![i] = t]
  <2>1. team' = [team EXCEPT ![i] = [r EXCEPT !.captains = c]] BY <1>1, <1>3
  <2> HIDE DEF c
  <2>2. [r EXCEPT !.captains = c] = t BY <1>5
  <2> QED BY <2>1, <2>2
<1>7. r.captains \subseteq r.players /\ p \in r.players /\ r.players \subseteq Player
  BY <1>1, <1>2, <1>3, <1>4 DEF Manned, Team
<1>8. c \subseteq r.players /\ c \subseteq Player BY <1>7
<1> HIDE DEF c
<1>9. t \in Team BY <1>4, <1>8 DEF Team
<1>10. t.name = r.name /\ t.players = r.players /\ t.guests = r.guests /\ t.captains = c
       /\ t.size = r.size
  OBVIOUS
<1> HIDE DEF t
<1>17. i \in DOMAIN team /\ UNCHANGED <<event, row, match, room, request>> /\ request = Idle
  BY <1>1
<1>11. /\ team' \in Seq(Team) /\ DOMAIN team' = DOMAIN team /\ Len(team') = Len(team)
       /\ team'[i] = t /\ \A j \in DOMAIN team \ {i} : team'[j] = team[j]
  BY <1>17, <1>2, <1>6, <1>9
<1>12. \A j \in DOMAIN team : /\ team'[j].name = team[j].name
                              /\ Everyone(team'[j]) = Everyone(team[j])
                              /\ team'[j].size = team[j].size
  BY <1>3, <1>10, <1>11 DEF Everyone
<1>13. RowsTell(row', team') BY <1>17, <1>2, <1>11, <1>12 DEF RowsTell
<1>14. Manned(team')
  <2>1. \A j \in DOMAIN team : team'[j].captains \subseteq team'[j].players
    BY <1>2, <1>8, <1>10, <1>11 DEF Manned
  <2> QED BY <2>1, <1>2, <1>11, <1>12 DEF Manned
<1>15. NamesOf(team') = NamesOf(team) BY <1>11, <1>12 DEF NamesOf
<1>16. Idle' = Idle BY DEF Idle
<1> QED BY <1>17, <1>11, <1>13, <1>14, <1>15, <1>16
    DEF TeamsInv, TeamEvent, Teams, Fixtures, Scores, Doors, Shuffling

LEMMA MatchesKeep ==
  ASSUME TeamBounds, TeamsInv, Matches
  PROVE  TeamsInv'
<1>1. ASSUME NEW a \in TeamNames, NEW b \in TeamNames, NEW l \in Length, AddMatch(a, b, l)
      PROVE  TeamsInv'
  <2> DEFINE m == [a |-> a, b |-> b, length |-> l, scored |-> FALSE]
  <2>1. /\ match' = Append(match, m) /\ UNCHANGED <<event, row, team, room, request>>
        /\ request = Idle
    BY <1>1 DEF AddMatch
  <2>2. a \in NamesOf(team) /\ b \in NamesOf(team) BY DEF TeamNames, NamesOf
  <2>3. NamesOf(team) \subseteq Name
    <3>1. \A i \in DOMAIN team : team[i] \in Team BY DEF TeamsInv, Teams
    <3> QED BY <3>1 DEF NamesOf, Team
  <2>4. m \in Fixture BY <2>2, <2>3 DEF Fixture, TeamBounds
  <2>5. m.a = a /\ m.b = b /\ m.scored = FALSE OBVIOUS
  <2> HIDE DEF m
  <2>6. match \in Seq(Fixture) BY DEF TeamsInv, Fixtures
  <2>7. /\ match' \in Seq(Fixture) /\ DOMAIN match' = DOMAIN match \cup {Len(match) + 1}
        /\ \A i \in DOMAIN match : match'[i] = match[i]
        /\ match'[Len(match) + 1] = m
    BY <2>1, <2>4, <2>6
  <2>8. Fixtures' BY <2>1, <2>2, <2>5, <2>7 DEF TeamsInv, Fixtures
  <2>9. Scores' BY <2>1, <2>5, <2>7 DEF TeamsInv, Scores
  <2>10. Idle' = Idle BY DEF Idle
  <2> QED BY <2>1, <2>8, <2>9, <2>10 DEF TeamsInv, TeamEvent, Teams, Doors, Shuffling
<1>2. ASSUME NEW i \in DOMAIN match, SetMatchScore(i) PROVE TeamsInv'
  <2>1. /\ event.status \in {"playing", "after_match"}
        /\ match' = [match EXCEPT ![i].scored = TRUE]
        /\ UNCHANGED <<event, row, team, room, request>>
    BY <1>2 DEF SetMatchScore, CanEnterScore
  <2>2. match \in Seq(Fixture) BY DEF TeamsInv, Fixtures
  <2>3. PICK f : f = match[i] OBVIOUS
  <2>4. f \in Fixture BY <2>2, <2>3
  <2>13. PICK w : w = TRUE OBVIOUS
  <2> DEFINE m == [f EXCEPT !.scored = w]
  <2>5. m = [a |-> f.a, b |-> f.b, length |-> f.length, scored |-> w]
    <3>1. f = [a |-> f.a, b |-> f.b, length |-> f.length, scored |-> f.scored] BY <2>4 DEF Fixture
    <3> QED BY <3>1
  <2>6. match' = [match EXCEPT ![i] = m] BY <2>1, <2>3, <2>13
  <2>7. m.a = f.a /\ m.b = f.b BY <2>5
  <2>8. m \in Fixture BY <2>4, <2>5, <2>13 DEF Fixture
  <2> HIDE DEF m
  <2>9. /\ match' \in Seq(Fixture) /\ DOMAIN match' = DOMAIN match
        /\ match'[i] = m /\ \A j \in DOMAIN match : j # i => match'[j] = match[j]
    BY <2>2, <2>6, <2>8
  <2>10. Fixtures' BY <2>1, <2>3, <2>7, <2>9 DEF TeamsInv, Fixtures
  <2>11. Scores' BY <2>1 DEF Scores
  <2>12. Shuffling'
    <3>1. Idle' = Idle BY DEF Idle
    <3> QED BY <3>1, <2>1 DEF TeamsInv, Shuffling
  <2> QED BY <2>1, <2>10, <2>11, <2>12 DEF TeamsInv, TeamEvent, Teams, Doors
<1> QED BY <1>1, <1>2 DEF Matches

-----------------------------------------------------------------------------
(* The lifecycle *)

\* Where the moves lead.
LEMMA MovesLead ==
  ASSUME NEW kind \in Kind, NEW from \in Status, NEW to, CanTransition(kind, from, to)
  PROVE  /\ to = "cancelled" => from \in Revocable
         /\ from = "playing" => to \in {"after_match", "cancelled"}
         /\ from = "after_match" => to = "done"
         /\ from \notin {"done", "cancelled"}
         /\ to \in Status
<1>1. to \in TransitionsFor(kind)[from] BY DEF CanTransition
<1>2. TransitionsFor(kind) \in {MatchTransitions, NoMatchTransitions, ChallengeTransitions}
  BY DEF TransitionsFor, Kind
<1>3. MatchTransitions = [join |-> {"preparation", "cancelled"},
                            preparation |-> {"ready_to_play", "join", "cancelled"},
                            ready_to_play |-> {"playing", "preparation", "cancelled"},
                            playing |-> {"after_match", "cancelled"},
                            after_match |-> {"done"}, done |-> {}, cancelled |-> {}]
  BY DEF MatchTransitions
<1>4. \A table \in {MatchTransitions, NoMatchTransitions, ChallengeTransitions} :
        /\ table["playing"] = {"after_match", "cancelled"} /\ table["after_match"] = {"done"}
        /\ table["done"] = {} /\ table["cancelled"] = {}
        /\ table["join"] \subseteq {"preparation", "ready_to_play", "cancelled"}
        /\ table["preparation"] \subseteq {"ready_to_play", "join", "cancelled"}
        /\ table["ready_to_play"] \subseteq {"playing", "preparation", "join", "cancelled"}
  <2> DEFINE out == [MatchTransitions EXCEPT
                       !.join = {"ready_to_play", "cancelled"},
                       !.ready_to_play = {"playing", "join", "cancelled"}]
             rows(table) ==
               /\ table["playing"] = {"after_match", "cancelled"} /\ table["after_match"] = {"done"}
               /\ table["done"] = {} /\ table["cancelled"] = {}
               /\ table["join"] \subseteq {"preparation", "ready_to_play", "cancelled"}
               /\ table["preparation"] \subseteq {"ready_to_play", "join", "cancelled"}
               /\ table["ready_to_play"] \subseteq {"playing", "preparation", "join", "cancelled"}
  <2>1. NoMatchTransitions = out /\ ChallengeTransitions = out
    BY DEF NoMatchTransitions, ChallengeTransitions
  <2>2. rows(MatchTransitions) BY <1>3
  <2>3. rows(out)
    <3>1. out["join"] = {"ready_to_play", "cancelled"}
          /\ out["ready_to_play"] = {"playing", "join", "cancelled"}
      BY <1>3
    <3>2. \A s \in {"playing", "after_match", "done", "cancelled", "preparation"} :
            out[s] = MatchTransitions[s]
      BY <1>3
    <3> HIDE DEF out
    <3> QED BY <3>1, <3>2, <2>2
  <2> HIDE DEF out
  <2> QED BY <2>1, <2>2, <2>3
<1> QED BY <1>1, <1>2, <1>4 DEF Status, Revocable

LEMMA LifecycleKeeps ==
  ASSUME TeamBounds, TeamsInv, Lifecycle
  PROVE  TeamsInv'
<1>1. PICK e : e = event OBVIOUS
<1>2. /\ e \in [kind : Kinds, status : Status, before : Status \cup {Null}, teamCount : 2..6]
      /\ e.status = "cancelled" => e.before \in Revocable
      /\ e.teamCount = 4 \/ e.teamCount <= Len(TeamColours)
  BY <1>1 DEF TeamsInv, TeamEvent
<1>3. e = [kind |-> e.kind, status |-> e.status, before |-> e.before, teamCount |-> e.teamCount]
      /\ e.kind \in Kind /\ e.status \in Status
  BY <1>2 DEF TeamBounds
<1>4. Idle' = Idle BY DEF Idle
<1>5. /\ room \in [Name -> {"none", "open", "archived"}]
      /\ \A n \in Name : room[n] \in {"none", Door(e.status)}
      /\ \A n \in NamesOf(team) : room[n] # "none"
      /\ NamesOf(team) \subseteq Name
  <2>1. \A i \in DOMAIN team : team[i] \in Team BY DEF TeamsInv, Teams
  <2> QED BY <1>1, <2>1 DEF TeamsInv, Doors, NamesOf, Team
<1>6. ASSUME NEW to \in {"open", "archived"}, room' = Rooms(to), UNCHANGED team,
             Door(event'.status) = to
      PROVE  Doors'
  <2>1. room' = [n \in Name |-> IF room[n] = "none" THEN "none" ELSE to] BY <1>6 DEF Rooms
  <2>2. \A n \in Name : room'[n] \in {"none", to} BY <2>1
  <2>3. room' \in [Name -> {"none", "open", "archived"}] BY <2>1
  <2>4. \A n \in NamesOf(team') : room'[n] # "none" BY <2>1, <1>5, <1>6
  <2> QED BY <2>2, <2>3, <2>4, <1>6 DEF Doors
<1>7. ASSUME NEW to \in Status, SetStatus(to) PROVE TeamsInv'
  <2>1. /\ request = Idle /\ to # "cancelled" /\ CanTransition(e.kind, e.status, to)
        /\ event' = [e EXCEPT !.status = to]
        /\ room' = (IF to = "done" THEN Rooms("archived") ELSE room)
        /\ UNCHANGED <<row, team, match, request>>
    BY <1>1, <1>7 DEF SetStatus
  <2>2. event' = [kind |-> e.kind, status |-> to, before |-> e.before, teamCount |-> e.teamCount]
    BY <1>3, <2>1
  <2>3. event'.kind = e.kind /\ event'.status = to /\ event'.before = e.before
        /\ event'.teamCount = e.teamCount
    BY <2>2
  <2>4. /\ e.status = "playing" => to \in {"after_match", "cancelled"}
        /\ e.status = "after_match" => to = "done"
        /\ e.status \notin {"done", "cancelled"}
    BY <1>3, <2>1, MovesLead
  <2>5. event' \in [kind : Kinds, status : Status, before : Status \cup {Null}, teamCount : 2..6]
    BY <1>2, <2>2
  <2>6. TeamEvent' BY <2>1, <2>3, <2>5, <1>2 DEF TeamEvent
  <2>7. Scores' BY <1>1, <2>1, <2>3, <2>4 DEF TeamsInv, Scores
  <2>8. Doors'
    <3>1. CASE to = "done"
      <4>1. room' = Rooms("archived") /\ Door(event'.status) = "archived" /\ UNCHANGED team
        BY <3>1, <2>1, <2>3 DEF Door
      <4> QED BY <4>1, <1>6
    <3>2. CASE to # "done"
      <4>1. Door(event'.status) = Door(e.status) BY <3>2, <2>1, <2>3, <2>4 DEF Door
      <4>2. room' = room /\ team' = team BY <3>2, <2>1
      <4> QED BY <4>1, <4>2, <1>5 DEF Doors
    <3> QED BY <3>1, <3>2
  <2>9. Teams' BY <1>1, <2>1, <2>3 DEF TeamsInv, Teams
  <2>10. Fixtures' BY <2>1 DEF TeamsInv, Fixtures
  <2>11. Shuffling' BY <2>1, <1>4 DEF Shuffling
  <2> QED BY <2>6, <2>7, <2>8, <2>9, <2>10, <2>11 DEF TeamsInv
<1>8. ASSUME Cancel PROVE TeamsInv'
  <2>1. /\ request = Idle /\ CanTransition(e.kind, e.status, "cancelled")
        /\ event' = [e EXCEPT !.status = "cancelled", !.before = e.status]
        /\ room' = Rooms("archived")
        /\ UNCHANGED <<row, team, match, request>>
    BY <1>1, <1>8 DEF Cancel
  <2>2. event' = [kind |-> e.kind, status |-> "cancelled", before |-> e.status,
                  teamCount |-> e.teamCount]
    BY <1>3, <2>1
  <2>3. event'.kind = e.kind /\ event'.status = "cancelled" /\ event'.before = e.status
        /\ event'.teamCount = e.teamCount
    BY <2>2
  <2>4. e.status \in Revocable BY <1>3, <2>1, MovesLead
  <2>5. event' \in [kind : Kinds, status : Status, before : Status \cup {Null}, teamCount : 2..6]
    BY <1>2, <2>2 DEF Status
  <2>6. TeamEvent' BY <2>3, <2>4, <2>5, <1>2 DEF TeamEvent
  <2>7. Scores' BY <1>1, <2>1, <2>3, <2>4 DEF TeamsInv, Scores, Revocable
  <2>8. Doors'
    <3>1. Door(event'.status) = "archived" BY <2>3 DEF Door
    <3> QED BY <3>1, <2>1, <1>6
  <2>9. Teams' BY <1>1, <2>1, <2>3 DEF TeamsInv, Teams
  <2>10. Fixtures' BY <2>1 DEF TeamsInv, Fixtures
  <2>11. Shuffling' BY <2>1, <1>4 DEF Shuffling
  <2> QED BY <2>6, <2>7, <2>8, <2>9, <2>10, <2>11 DEF TeamsInv
<1>9. ASSUME Restore PROVE TeamsInv'
  <2>1. /\ request = Idle /\ e.status = "cancelled"
        /\ event' = [e EXCEPT !.status = e.before, !.before = Null]
        /\ room' = Rooms("open")
        /\ UNCHANGED <<row, team, match, request>>
    BY <1>1, <1>9 DEF Restore
  <2>2. event' = [kind |-> e.kind, status |-> e.before, before |-> Null,
                  teamCount |-> e.teamCount]
    BY <1>3, <2>1
  <2>3. event'.kind = e.kind /\ event'.status = e.before /\ event'.before = Null
        /\ event'.teamCount = e.teamCount
    BY <2>2
  <2>4. e.before \in Revocable BY <2>1, <1>2
  <2>5. event' \in [kind : Kinds, status : Status, before : Status \cup {Null}, teamCount : 2..6]
    BY <1>2, <2>2, <2>4 DEF Status, Revocable
  <2>6. TeamEvent' BY <2>3, <2>4, <2>5, <1>2 DEF TeamEvent, Revocable
  <2>7. Scores' BY <1>1, <2>1, <2>3 DEF TeamsInv, Scores
  <2>8. Doors'
    <3>1. Door(event'.status) = "open" BY <2>3, <2>4 DEF Door, Revocable
    <3> QED BY <3>1, <2>1, <1>6
  <2>9. Teams' BY <1>1, <2>1, <2>3 DEF TeamsInv, Teams
  <2>10. Fixtures' BY <2>1 DEF TeamsInv, Fixtures
  <2>11. Shuffling' BY <2>1, <1>4 DEF Shuffling
  <2> QED BY <2>6, <2>7, <2>8, <2>9, <2>10, <2>11 DEF TeamsInv
<1>10. ASSUME ChangeSport PROVE TeamsInv'
  <2> DEFINE kind == IF e.kind = "match" THEN "no_match" ELSE "match"
  <2>1. /\ request = Idle /\ e.kind # "challenge"
        /\ event' = [e EXCEPT !.kind = kind]
        /\ UNCHANGED <<row, team, match, room, request>>
    BY <1>1, <1>10 DEF ChangeSport, IsChallenge, built
  <2>2. event' = [kind |-> kind, status |-> e.status, before |-> e.before, teamCount |-> e.teamCount]
    BY <1>3, <2>1
  <2>3. event'.kind = kind /\ event'.status = e.status /\ event'.before = e.before
        /\ event'.teamCount = e.teamCount
    BY <2>2
  <2>4. kind \in Kinds /\ kind # "challenge" BY <1>10 DEF ChangeSport
  <2> HIDE DEF kind
  <2>5. event' \in [kind : Kinds, status : Status, before : Status \cup {Null}, teamCount : 2..6]
    BY <1>2, <2>2, <2>4
  <2>6. TeamEvent' BY <2>3, <2>5, <1>2 DEF TeamEvent
  <2>7. Scores' BY <1>1, <2>1, <2>3 DEF TeamsInv, Scores
  <2>8. Doors' BY <2>1, <2>3, <1>5 DEF Doors
  <2>9. Teams' BY <2>1, <2>3, <2>4 DEF TeamsInv, Teams, Sided
  <2>10. Fixtures' BY <2>1 DEF TeamsInv, Fixtures
  <2>11. Shuffling' BY <2>1, <1>4 DEF Shuffling
  <2> QED BY <2>6, <2>7, <2>8, <2>9, <2>10, <2>11 DEF TeamsInv
<1> QED BY <1>7, <1>8, <1>9, <1>10 DEF Lifecycle

-----------------------------------------------------------------------------
(* What holds *)

LEMMA TeamsInit ==
  ASSUME TeamBounds, Init
  PROVE  TeamsInv
<1>1. /\ event \in [kind : Kinds, status : {"join"}, before : {Null}, teamCount : {4}]
      /\ row = [p \in Person |-> [standing |-> "none", side |-> Null, team |-> Null]]
      /\ team = <<>> /\ match = <<>>
      /\ room = [n \in Name |-> "none"]
      /\ request = Idle
  BY DEF Init
<1>2. TeamEvent BY <1>1 DEF TeamEvent, TeamBounds, Status
<1>3. row \in [Person -> RosterRow]
  <2>1. [standing |-> "none", side |-> Null, team |-> Null] \in RosterRow BY DEF RosterRow
  <2> QED BY <1>1, <2>1
<1>4. \A p \in Person : row[p].standing = "none" /\ row[p].team = Null BY <1>1
<1>5. team \in Seq(Team) /\ DOMAIN team = {} /\ match \in Seq(Fixture) /\ DOMAIN match = {}
  BY <1>1
<1>6. Teams BY <1>3, <1>4, <1>5 DEF Teams, RowsTell, Manned, Sided
<1>7. Fixtures /\ Scores BY <1>5 DEF Fixtures, Scores
<1>8. Doors BY <1>1, <1>5 DEF Doors, NamesOf
<1> QED BY <1>1, <1>2, <1>6, <1>7, <1>8 DEF TeamsInv, Shuffling

LEMMA TeamsNext ==
  ASSUME TeamBounds, TeamsInv, [Next]_vars
  PROVE  TeamsInv'
<1>1. CASE Roster BY <1>1, RosterKeeps
<1>2. CASE Building
  <2>1. ASSUME NEW n \in MinTeams..Len(TeamColours), NEW names \in NamesAsked(n),
               NEW l \in Length, NEW z \in Size, Generate(n, names, l, z)
        PROVE  TeamsInv'
    BY <2>1, GenerateKeeps
  <2>2. ASSUME NEW i, NEW ps, NEW gs, NEW name, AssignTeam(i, ps, gs, name) PROVE TeamsInv'
    BY <2>2, AssignTeamKeeps
  <2>3. ASSUME NEW i, NEW p, NEW is \in BOOLEAN, SetCaptain(i, p, is) PROVE TeamsInv'
    BY <2>3, SetCaptainKeeps
  <2>4. CASE ShuffleStart BY <2>4, ShuffleStartKeeps
  <2>5. CASE DealByLot BY <2>5, DealByLotKeeps
  <2>6. CASE DealSides BY <2>6, DealSidesKeeps
  <2>7. CASE AssignNext BY <2>7, AssignNextKeeps
  <2> QED BY <1>2, <2>1, <2>2, <2>3, <2>4, <2>5, <2>6, <2>7 DEF Building
<1>3. CASE Matches BY <1>3, MatchesKeep
<1>4. CASE Lifecycle BY <1>4, LifecycleKeeps
<1>5. CASE UNCHANGED vars
  <2>1. Idle' = Idle BY DEF Idle
  <2>2. UNCHANGED <<event, row, team, match, room, request>> BY <1>5 DEF vars
  <2> QED BY <2>1, <2>2 DEF TeamsInv, TeamEvent, Teams, Fixtures, Scores, Doors, Shuffling
<1> QED BY <1>1, <1>2, <1>3, <1>4, <1>5 DEF Next

LEMMA TeamsAgreeIn ==
  ASSUME TeamBounds, TeamsInv
  PROVE  SquadsInStep /\ NamesAgree
<1>1. /\ row \in [Person -> RosterRow] /\ team \in Seq(Team)
      /\ RowsTell(row, team) /\ Manned(team)
  BY DEF TeamsInv, Teams
<1>2. \A i \in DOMAIN team : team[i] \in Team BY <1>1
<1>3. TypeOK
  <2>1. event \in [kind : Kinds, status : Status, before : Status \cup {Null},
                   teamCount : MinTeams..6]
    BY DEF TeamsInv, TeamEvent, MinTeams
  <2>2. row \in [Person -> [standing : {"none", "invited", "in", "out"},
                              side : {1, 2, Null}, team : Name \cup {Null}]]
    BY <1>1 DEF RosterRow
  <2>3. \A i \in DOMAIN team :
          team[i] \in [name : Name, players : SUBSET Player, guests : SUBSET Guest,
                       captains : SUBSET Player, size : Nat]
    BY <1>2 DEF Team
  <2>4. \A i \in DOMAIN match : match[i] \in Match
    <3>1. \A i \in DOMAIN match : match[i] \in Fixture BY DEF TeamsInv, Fixtures
    <3>2. Fixture \subseteq Match BY DEF Fixture, Match
    <3> QED BY <3>1, <3>2
  <2>5. room \in [Name -> {"none", "open", "archived"}] BY DEF TeamsInv, Doors
  <2> QED BY <2>1, <2>2, <2>3, <2>4, <2>5 DEF TypeOK
<1>4. \A i \in DOMAIN team : /\ Cardinality(People(team[i])) <= team[i].size
                             /\ team[i].captains \subseteq team[i].players
  <2> TAKE i \in DOMAIN team
  <2>1. Cardinality(People(team[i])) = Cardinality(Everyone(team[i]))
    BY DEF People, Everyone
  <2> QED BY <2>1, <1>1 DEF Manned
<1>5. ASSUME NEW p \in Person
      PROVE  IF TeamsOf(p) = {} THEN row[p].team = Null
             ELSE TeamsOf(p) = {i \in DOMAIN team : team[i].name = row[p].team}
  <2>1. TeamsOf(p) = {i \in DOMAIN team : p \in Everyone(team[i])}
    BY DEF TeamsOf, People, Everyone
  <2>2. TeamsOf(p) = {} => row[p].team = Null BY <2>1, <1>1 DEF RowsTell
  <2>3. ASSUME NEW k \in TeamsOf(p)
        PROVE  TeamsOf(p) = {i \in DOMAIN team : team[i].name = row[p].team}
    <3>1. k \in DOMAIN team /\ row[p].team = team[k].name BY <2>1, <2>3, <1>1 DEF RowsTell
    <3>2. \A i \in DOMAIN team : team[i].name = row[p].team => i = k BY <3>1, <1>1 DEF RowsTell
    <3>3. \A i \in TeamsOf(p) : i \in DOMAIN team /\ team[i].name = row[p].team
      BY <2>1, <1>1 DEF RowsTell
    <3> QED BY <3>1, <3>2, <3>3, <2>3
  <2> QED BY <2>2, <2>3
<1>6. SquadsInStep BY <1>3, <1>4, <1>5 DEF SquadsInStep
<1>7. TeamNames = NamesOf(team) BY DEF TeamNames, NamesOf
<1>8. NamesOf(team) \subseteq Name BY <1>2 DEF NamesOf, Team
<1>9. NamesAgree
  <2>1. \A i \in DOMAIN match : {match[i].a, match[i].b} \subseteq TeamNames
    BY <1>7 DEF TeamsInv, Fixtures
  <2>2. \A n \in TeamNames : room[n] = Door(event.status)
    BY <1>7, <1>8 DEF TeamsInv, Doors
  <2> QED BY <2>1, <2>2 DEF NamesAgree, Door
<1> QED BY <1>6, <1>9

\* Everything that can change a fixture, at a step that is not a rebuild.
LEMMA EnteredKept ==
  ASSUME TeamBounds, TeamsInv, [Next]_vars
  PROVE  EnteredStays
<1> SUFFICES ASSUME NEW i \in DOMAIN match, match[i].scored
             PROVE  i \in DOMAIN match' /\ match'[i] = match[i]
  BY DEF EnteredStays
<1>1. ~CanShuffle(event.kind, event.status)
  <2>1. event.status \in {"playing", "after_match", "done", "cancelled"} BY DEF TeamsInv, Scores
  <2> QED BY <2>1, BuildStage
<1>2. match \in Seq(Fixture) BY DEF TeamsInv, Fixtures
<1>3. CASE UNCHANGED match BY <1>3
<1>4. CASE Roster
  <2>1. \A p, st, side : Moves(p, st, side) => UNCHANGED match BY DEF Moves, built
  <2>2. UNCHANGED match
    BY <1>4, <2>1, Zenon DEF Roster, Join, Leave, Unassign, Invite, Answer,
       GuestComes, GuestGoes
  <2> QED BY <2>2, <1>3
<1>5. CASE Building
  <2>1. ASSUME NEW n, NEW names, NEW l, NEW z, Generate(n, names, l, z) PROVE FALSE
    BY <2>1, <1>1 DEF Generate
  <2>2. ASSUME NEW k, NEW ps, NEW gs, NEW name, AssignTeam(k, ps, gs, name) PROVE FALSE
    BY <2>2, <1>1 DEF AssignTeam
  <2>3. ASSUME NEW k, NEW p, NEW is, SetCaptain(k, p, is) PROVE UNCHANGED match
    BY <2>3 DEF SetCaptain
  <2>4. ~ShuffleStart BY <1>1 DEF ShuffleStart
  <2>5. DealByLot \/ DealSides => UNCHANGED match BY DEF DealByLot, DealSides, built
  <2>6. AssignNext => UNCHANGED match
    <3>1. \A k, ps, gs, name : Field(k, ps, gs, name) => UNCHANGED match BY DEF Field
    <3> QED BY <3>1 DEF AssignNext, built
  <2>7. UNCHANGED match BY <1>5, <2>1, <2>2, <2>3, <2>4, <2>5, <2>6 DEF Building
  <2> QED BY <2>7, <1>3
<1>6. CASE Matches
  <2>1. ASSUME NEW a, NEW b, NEW l \in Length, AddMatch(a, b, l)
        PROVE  i \in DOMAIN match' /\ match'[i] = match[i]
    <3>1. PICK m : m = [a |-> a, b |-> b, length |-> l, scored |-> FALSE] OBVIOUS
    <3>2. match' = Append(match, m) BY <2>1, <3>1 DEF AddMatch
    <3> QED BY <3>2, <1>2
  <2>2. ASSUME NEW k \in DOMAIN match, SetMatchScore(k)
        PROVE  i \in DOMAIN match' /\ match'[i] = match[i]
    <3>1. match' = [match EXCEPT ![k].scored = TRUE] BY <2>2 DEF SetMatchScore
    <3>2. CASE k # i BY <3>1, <3>2, <1>2
    <3>3. CASE k = i
      <4>1. PICK f, w : f = match[i] /\ w = TRUE OBVIOUS
      <4>2. f \in Fixture BY <4>1, <1>2
      <4>3. f.scored = w BY <4>1, <4>2 DEF Fixture
      <4>4. f = [a |-> f.a, b |-> f.b, length |-> f.length, scored |-> f.scored]
        BY <4>2 DEF Fixture
      <4>5. [f EXCEPT !.scored = w] = f BY <4>3, <4>4
      <4>6. match' = [match EXCEPT ![i] = [f EXCEPT !.scored = w]] BY <3>1, <3>3, <4>1
      <4>7. match' = [match EXCEPT ![i] = f] BY <4>5, <4>6
      <4> QED BY <4>7, <4>1, <1>2
    <3> QED BY <3>2, <3>3
  <2> QED BY <1>6, <2>1, <2>2 DEF Matches
<1>7. CASE Lifecycle
  BY <1>7, <1>3 DEF Lifecycle, SetStatus, Cancel, Restore, ChangeSport, built
<1>8. CASE UNCHANGED vars BY <1>8, <1>3 DEF vars
<1> QED BY <1>4, <1>5, <1>6, <1>7, <1>8 DEF Next

\* A shuffle that was left in peace ends with everybody placed.
LEMMA AllSeated ==
  ASSUME TeamBounds, Overfull = FALSE, TeamsInv, [Next]_vars
  PROVE  SeatsAll
<1>0. ASSUME request.op = "assign"
      PROVE  /\ request = [op |-> "assign", next |-> request.next, squads |-> request.squads,
                           people |-> request.people, calm |-> request.calm]
             /\ ReadyToAssign(event.kind, row, team, request.squads, request.next,
                              request.people, request.calm)
  BY <1>0 DEF TeamsInv, Shuffling, Idle
<1> SUFFICES ASSUME request.op = "assign", request.calm, request' = Idle
             PROVE  WellDealt(request.people)
  BY DEF SeatsAll
<1>1. /\ request = [op |-> "assign", next |-> request.next, squads |-> request.squads,
                    people |-> request.people, calm |-> request.calm]
      /\ ReadyToAssign(event.kind, row, team, request.squads, request.next, request.people,
                       request.calm)
  BY <1>0
<1>2. request # Idle BY <1>1 DEF Idle
<1>3. AssignNext
  <2>1. ASSUME NEW p, NEW st, NEW side, Moves(p, st, side) PROVE FALSE
    <3>1. request' = [request EXCEPT !.calm = FALSE] BY <2>1, <1>2 DEF Moves
    <3>2. request'.op = "assign" BY <3>1, <1>1
    <3> QED BY <3>2 DEF Idle
  <2>2. ~Roster
    BY <2>1, Zenon DEF Roster, Join, Leave, Unassign, Invite, Answer,
       GuestComes, GuestGoes
  <2>3. ~Lifecycle BY <1>2 DEF Lifecycle, SetStatus, Cancel, Restore, ChangeSport
  <2>4. ~Matches BY <1>2 DEF Matches, AddMatch, SetMatchScore
  <2>5. Building => AssignNext
    <3>1. \A n, names, l, z : ~Generate(n, names, l, z) BY <1>2 DEF Generate
    <3>2. \A i, ps, gs, name : ~AssignTeam(i, ps, gs, name) BY <1>2 DEF AssignTeam
    <3>3. \A i, p, is : ~SetCaptain(i, p, is) BY <1>2 DEF SetCaptain
    <3>4. ~ShuffleStart /\ ~DealByLot /\ ~DealSides
      BY <1>2 DEF ShuffleStart, DealByLot, DealSides
    <3> QED BY <3>1, <3>2, <3>3, <3>4, Zenon DEF Building
  <2>6. ~UNCHANGED vars BY <1>2 DEF vars
  <2> QED BY <2>2, <2>3, <2>4, <2>5, <2>6 DEF Next
<1>4. PICK i, squads : i = request.next /\ squads = request.squads OBVIOUS
<1>5. /\ request.people = OnOf(row) /\ i \in DOMAIN team
      /\ GoodSquads(event.kind, row, team, squads) /\ Placed(team, squads, i)
  BY <1>1, <1>4 DEF ReadyToAssign
<1>6. team \in Seq(Team) /\ i \in 1..Len(team) /\ DOMAIN team = 1..Len(team)
  BY <1>5 DEF TeamsInv, Teams
<1> DEFINE ps == squads[i].players
           gs == squads[i].guests
<1>7. On = OnOf(row) BY DEF On, OnOf
<1>8. Fieldable(i, ps, gs)
  <2>1. ps \subseteq Player \cap On /\ gs \subseteq Guest \cap On
        /\ Cardinality(ps) + Cardinality(gs) <= team[i].size
    BY <1>5, <1>7 DEF GoodSquads
  <2>3. \A j \in DOMAIN team \ {i} : ps \cap team[j].players = {} /\ gs \cap team[j].guests = {}
    BY <1>5 DEF GoodSquads, Placed
  <2> HIDE DEF ps, gs
  <2> QED BY <2>1, <2>3, <1>5 DEF Fieldable
<1>9. Field(i, ps, gs, team[i].name)
      /\ request' = IF i = Len(team) THEN Idle ELSE [request EXCEPT !.next = i + 1]
  BY <1>3, <1>4, <1>8 DEF AssignNext
<1> HIDE DEF ps, gs
<1>10. i = Len(team)
  <2>1. SUFFICES ASSUME i # Len(team) PROVE FALSE OBVIOUS
  <2>2. request' = [request EXCEPT !.next = i + 1] BY <1>9, <2>1
  <2>3. request'.op = "assign" BY <2>2, <1>1
  <2> QED BY <2>3 DEF Idle
<1>11. /\ DOMAIN team' = DOMAIN team
       /\ team'[i].players = ps /\ team'[i].guests = gs
       /\ \A j \in DOMAIN team \ {i} : team'[j] = team[j]
  BY <1>8, <1>9, FieldKeeps
<1>12. \A j \in DOMAIN team : team'[j].players = squads[j].players
                              /\ team'[j].guests = squads[j].guests
  <2> TAKE j \in DOMAIN team
  <2>1. CASE j = i BY <2>1, <1>11 DEF ps, gs
  <2>2. CASE j # i
    <3>1. j < i BY <2>2, <1>6, <1>10
    <3> QED BY <2>2, <3>1, <1>5, <1>11 DEF Placed
  <2> QED BY <2>1, <2>2
<1>13. \A j \in DOMAIN team : People(team'[j]) = Everyone(squads[j])
  BY <1>12 DEF People, Everyone
<1>14. \A p \in request.people : \E j \in DOMAIN team' : p \in People(team'[j])
  BY <1>5, <1>11, <1>13 DEF GoodSquads
<1>15. CASE event.kind = "challenge"
  <2>1. \A j \in 1..2 : SideOf(j) = SideIn(row, j) BY DEF SideIn, SideOf, On, Person
  <2>2. Len(team) = 2 /\ \A j \in 1..2 : squads[j].players = SideIn(row, j) /\ squads[j].guests = {}
    BY <1>5, <1>15 DEF GoodSquads
  <2>3. \A j \in 1..2 : People(team'[j]) = SideOf(j)
    <3> TAKE j \in 1..2
    <3>1. j \in DOMAIN team BY <2>2, <1>6
    <3>2. Everyone(squads[j]) = SideIn(row, j) BY <2>2 DEF Everyone
    <3> QED BY <3>1, <3>2, <2>1, <1>13
  <2> QED BY <2>3, <1>14, <1>15 DEF WellDealt, IsChallenge
<1>16. CASE event.kind # "challenge"
  <2>1. \A j, k \in DOMAIN team :
          /\ Cardinality(squads[j].players) - Cardinality(squads[k].players) \in -1..1
          /\ Cardinality(squads[j].guests) - Cardinality(squads[k].guests) \in -1..1
    BY <1>5, <1>16 DEF GoodSquads
  <2>2. \A j \in DOMAIN team :
          /\ Cardinality(team'[j].players) = Cardinality(squads[j].players)
          /\ Cardinality(team'[j].guests) = Cardinality(squads[j].guests)
    BY <1>12
  <2>3. \A j, k \in DOMAIN team' :
          /\ Cardinality(team'[j].players) - Cardinality(team'[k].players) \in -1..1
          /\ Cardinality(team'[j].guests) - Cardinality(team'[k].guests) \in -1..1
    BY <2>1, <2>2, <1>11
  <2> QED BY <2>3, <1>14, <1>16 DEF WellDealt, IsChallenge
<1> QED BY <1>15, <1>16

\* Rows, teams, fixtures and chat rooms tell of one set of teams, whoever comes and goes
\* in whatever order (createTeamsAndFixtures, assignTeamPlayers, shuffleTeams, setStatus).
THEOREM TeamsStayInStep ==
  ASSUME TeamBounds
  PROVE  Spec => []TeamsAgree
<1>1. Init => TeamsInv BY TeamsInit
<1>2. TeamsInv /\ [Next]_vars => TeamsInv' BY TeamsNext
<1>3. TeamsInv => TeamsAgree BY TeamsAgreeIn DEF TeamsAgree
<1> QED BY <1>1, <1>2, <1>3, PTL DEF Spec

\* No score is discarded by a rebuild, and a shuffle that nobody interfered with is never
\* refused halfway, but ends with everybody in a team and the teams even.
THEOREM NothingIsLost ==
  ASSUME TeamBounds, Overfull = FALSE
  PROVE  Spec => NothingLost
<1>1. Init => TeamsInv BY TeamsInit
<1>2. TeamsInv /\ [Next]_vars => TeamsInv' BY TeamsNext
<1>3. TeamsInv /\ [Next]_vars => EnteredStays /\ SeatsAll BY EnteredKept, AllSeated
<1> QED BY <1>1, <1>2, <1>3, PTL DEF Spec, NothingLost

-----------------------------------------------------------------------------
(* Lists: the statuses an event takes, and what follows for the routes *)

\* What a cancelled event was before is a status it can go back to.
ListInv ==
  /\ listing = [kind |-> listing.kind, status |-> listing.status, was |-> listing.was,
                isPublic |-> listing.isPublic, past |-> listing.past]
  /\ listing.kind \in Kind /\ listing.status \in Status
  /\ listing.status = "cancelled" => listing.was \in Status \ {"cancelled"}
  /\ host \in Lists!Standing /\ rival \in Lists!Standing

LEMMA ListsInit == Lists!Init => ListInv
BY DEF Lists!Init, ListInv, Lists!Status, Status, Lists!Kind, Kind, Lists!Standing

LEMMA NothingLeavesCancelled ==
  ASSUME NEW kind \in Kind, NEW to PROVE ~Lists!CanTransition(kind, "cancelled", to)
BY DEF Lists!CanTransition, Lists!TransitionsFor, Lists!MatchTransitions,
       Lists!NoMatchTransitions, Lists!ChallengeTransitions, Kind

LEMMA ListsNext ==
  ASSUME ListInv, [Lists!Next]_(Lists!vars)
  PROVE  ListInv'
<1>1. CASE UNCHANGED Lists!vars BY <1>1 DEF Lists!vars, ListInv
<1>2. CASE \E to \in Lists!Status : Lists!SetStatus(to)
  <2>1. PICK to \in Lists!Status : Lists!SetStatus(to) BY <1>2
  <2>2. /\ listing' = [listing EXCEPT !.status = to,
                         !.was = IF to = "cancelled" THEN listing.status ELSE Null]
        /\ host' = host /\ rival' = rival
    BY <2>1 DEF Lists!SetStatus
  <2>3. listing.status # "cancelled"
    BY <2>1, NothingLeavesCancelled DEF Lists!SetStatus, ListInv
  <2> QED BY <2>2, <2>3 DEF ListInv, Status, Lists!Status
<1>3. CASE Lists!Restore
  <2>1. /\ listing' = [listing EXCEPT !.status = listing.was, !.was = Null]
        /\ listing.status = "cancelled" /\ host' = host /\ rival' = rival
    BY <1>3 DEF Lists!Restore
  <2>2. listing' = [kind |-> listing.kind, status |-> listing.was, was |-> Null,
                    isPublic |-> listing.isPublic, past |-> listing.past]
    BY <2>1 DEF ListInv
  <2> QED BY <2>1, <2>2 DEF ListInv
<1>4. CASE Lists!Edit
  <2>1. /\ host' = host /\ rival' = rival
        /\ listing'.kind = listing.kind /\ listing'.status = listing.status
        /\ listing'.was = listing.was
        /\ listing' = [kind |-> listing'.kind, status |-> listing'.status, was |-> listing'.was,
                       isPublic |-> listing'.isPublic, past |-> listing'.past]
    BY <1>4 DEF Lists!Edit, ListInv
  <2> QED BY <2>1 DEF ListInv
<1>7. CASE Lists!DayPasses
  <2>1. /\ listing' = [kind |-> listing.kind, status |-> listing.status, was |-> listing.was,
                       isPublic |-> listing.isPublic, past |-> TRUE]
        /\ host' = host /\ rival' = rival
    BY <1>7 DEF Lists!DayPasses, ListInv
  <2> QED BY <2>1 DEF ListInv
<1>5. CASE Lists!GroupPrivacy \/ Lists!Join \/ Lists!Leave
  BY <1>5 DEF Lists!GroupPrivacy, Lists!Join, Lists!Leave, ListInv
<1>6. CASE Lists!Membership BY <1>6 DEF Lists!Membership, ListInv
<1> QED BY <1>1, <1>2, <1>3, <1>4, <1>5, <1>6, <1>7 DEF Lists!Next

\* The routes agree, whatever the event, the group and the caller.
LEMMA ListsPromise ==
  ASSUME ListInv, Null \notin Status PROVE Lists!ListsAgree
<1> USE DEF Lists!Joined, Lists!InGroup, Lists!Grouped, Lists!Challenged, Lists!RunsASide,
            Lists!Member
<1>0. Lists!Status = Status BY DEF Lists!Status, Status
<1>1. Lists!SearchFollowsList
  BY <1>0 DEF ListInv, Lists!SearchFollowsList, Lists!Search, Lists!SearchArms, Lists!List,
              Lists!ListArms
<1>2. Lists!MembersDiscover
  BY <1>0 DEF Lists!MembersDiscover, Lists!GroupList, Lists!List, Lists!Search,
              Lists!ListArms, Lists!SearchArms
<1>3. Lists!RosterIsEnough
  BY <1>0 DEF Lists!RosterIsEnough, Lists!JoinedList, Lists!List, Lists!Search,
              Lists!ListArms, Lists!SearchArms, Lists!FriendArms, Lists!Detail
<1>4. Lists!ListsAgreeOnExpired
  BY <1>0 DEF Lists!ListsAgreeOnExpired, Lists!GroupList, Lists!GroupListRefused,
              Lists!JoinedList, Lists!Ask
<1>5. Lists!FriendsFollowGroupList
  BY <1>0 DEF Lists!FriendsFollowGroupList, Lists!FriendArms, Lists!GroupList,
              Lists!GroupListRefused
<1>6. Lists!PrivateStaysInside
  BY <1>0 DEF Lists!PrivateStaysInside, Lists!Search, Lists!SearchArms, Lists!FriendArms,
              Lists!List, Lists!ListArms, Lists!GroupList, Lists!JoinedList, Lists!Ask
<1>7. Lists!PageAgreesWithLists
  BY <1>0 DEF ListInv, Lists!PageAgreesWithLists, Lists!Detail, Lists!GroupListRefused,
              Lists!List, Lists!ListArms
<1> QED BY <1>1, <1>2, <1>3, <1>4, <1>5, <1>6, <1>7 DEF Lists!ListsAgree

\* Search shows what the list shows, a member discovers what the group's own list shows,
\* and a private event nobody outside; whatever the event's kind, its history, the group
\* and the caller's standing (list, search, listByGroup, listJoined, getFriendEvents and
\* getOne).
THEOREM ListsStayInAgreement ==
  ASSUME Null \notin Status
  PROVE  Lists!Spec => []Lists!ListsAgree
<1>1. ListInv => Lists!ListsAgree BY ListsPromise
<1>2. ListInv /\ [Lists!Next]_(Lists!vars) => ListInv' BY ListsNext
<1> QED BY <1>1, <1>2, ListsInit, PTL DEF Lists!Spec

-----------------------------------------------------------------------------
(* The parts in the behaviours of MatchDay that are about them: such a behaviour is one
   of the part, the others being at rest, and it never changes the area. *)

\* Result and awards name one MVP and one winner (AftermathStaysSound), in every
\* behaviour of MatchDay that is about them.
THEOREM AftermathHolds ==
  ASSUME InOrder
  PROVE  DaySpec => []AftermathSound
<1> DEFINE Here == area = "aftermath"
<1>1. DayInit /\ Here => A!Init BY DEF DayInit
<1>2. [DayNext]_dayVars => (Here <=> Here') BY DEF DayNext, dayVars
<1>3. Here /\ [DayNext]_dayVars => [A!Next]_(A!vars)
  BY DEF DayNext, dayVars, aftermathVars, A!vars, A!store, A!broken
<1>4. (Here => A!AftermathSound) => AftermathSound BY DEF AftermathSound
<1> QED BY <1>1, <1>2, <1>3, <1>4, AftermathStaysSound, PTL DEF DaySpec, A!Spec

\* Rows have their files, and caps hold (PhotosStaySound), in every behaviour of
\* MatchDay that is about photos.
THEOREM PhotosHold ==
  ASSUME PhotoNames, PhotoCaps
  PROVE  DaySpec => []PhotosSound
<1> DEFINE Here == area = "photos"
<1>1. DayInit /\ Here => P!Init BY DEF DayInit
<1>2. [DayNext]_dayVars => (Here <=> Here') BY DEF DayNext, dayVars
<1>3. Here /\ [DayNext]_dayVars => [P!Next]_(P!vars)
  BY DEF DayNext, dayVars, photoVars, P!vars
<1>4. (Here => P!PhotosSound) => PhotosSound BY DEF PhotosSound
<1> QED BY <1>1, <1>2, <1>3, <1>4, PhotosStaySound, PTL DEF DaySpec, P!Spec

\* Likes are counted and ratings earned (RatingsStaySound), in every behaviour of
\* MatchDay that is about them.
THEOREM RatingsHold ==
  ASSUME IsFiniteSet(Slot)
  PROVE  DaySpec => []RatingsSound
<1> DEFINE Here == area \in {"likes", "ratings"}
<1>1. DayInit /\ Here => R!Init BY DEF DayInit
<1>2. [DayNext]_dayVars => (Here <=> Here') BY DEF DayNext, dayVars
<1>3. Here /\ [DayNext]_dayVars => [R!Next]_(R!vars)
  BY DEF DayNext, dayVars, ratingVars, R!vars, R!Next
<1>4. (Here => R!RatingsSound) => RatingsSound BY DEF RatingsSound
<1> QED BY <1>1, <1>2, <1>3, <1>4, RatingsStaySound, PTL DEF DaySpec, R!Spec

\* The routes agree (ListsStayInAgreement), in every behaviour of MatchDay that is
\* about them.
THEOREM ListsHold ==
  ASSUME Null \notin Status
  PROVE  DaySpec => []ListsAgree
<1> DEFINE Here == area = "lists"
<1>1. DayInit /\ Here => Lists!Init BY DEF DayInit
<1>2. [DayNext]_dayVars => (Here <=> Here') BY DEF DayNext, dayVars
<1>3. Here /\ [DayNext]_dayVars => [Lists!Next]_(Lists!vars)
  BY DEF DayNext, dayVars, listVars, Lists!vars
<1>4. (Here => Lists!ListsAgree) => ListsAgree BY DEF ListsAgree
<1> QED BY <1>1, <1>2, <1>3, <1>4, ListsStayInAgreement, PTL DEF DaySpec, Lists!Spec

=============================================================================
