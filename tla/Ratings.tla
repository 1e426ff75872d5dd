------------------------------ MODULE Ratings ------------------------------
(***************************************************************************)
(* What people say of an event and of each other: likes, a row per user    *)
(* and a counter on the event (events/events.service.ts), and ratings,     *)
(* which are for those who were there (ratings/ratings.service.ts).        *)
(*                                                                         *)
(* Both are written after a check or beside another write, while events    *)
(* run their course and rosters change.  A rating is not taken back when   *)
(* its rater leaves the roster later: who was on it when is remembered in  *)
(* "there" and "together", which no action reads.  What a rating says,     *)
(* whether it is anonymous, and ratings of groups, which take an approved  *)
(* member who is not the owner, are left out; so are events that are       *)
(* restored, or that are deleted, whose ratings stay.                      *)
(***************************************************************************)
EXTENDS EventLifecycle, Integers, FiniteSets

CONSTANTS User, Event,
          Organizer,   \* [Event -> User]
          Slot,        \* requests in flight at a time (a bound)
          MaxLikes,    \* likes over time (a bound)
          MaxRating,   \* of the requests, those that rate (a bound)
          Null

VARIABLES
  status,     \* of each event
  joined,     \* who is on its roster
  there,      \* who has been on it while the event was finished
  together,   \* pairs that have been on it at one time
  like,       \* EventLike rows: who likes it
  likeCount,  \* the event's counter
  liked,      \* likes so far
  overlap,    \* events on which a like and an unlike of one user have overlapped
  rating,     \* Rating rows <<rater, target's type, target>>
  request     \* what each request in flight still has to do

vars == <<status, joined, there, together, like, likeCount, liked, overlap, rating, request>>
course == <<status, joined, there, together>>
likes == <<like, likeCount, liked, overlap>>

-----------------------------------------------------------------------------
Idle == [op |-> "idle"]
InFlight(ops) == {s \in Slot : request[s].op \in ops}
Hold(s, r) == request' = [request EXCEPT ![s] = r]

Finished(e) == status[e] \in {"after_match", "done"}

-----------------------------------------------------------------------------
(* like and unlike: the row decides, the counter follows *)

Counting(e) == {s \in InFlight({"count", "uncount"}) : request[s].e = e}

Overlap(u, e) ==
  overlap' = IF \E s \in Counting(e) : request[s].u = u THEN overlap \cup {e} ELSE overlap

Like(s, u, e) ==
  /\ request[s] = Idle /\ liked < MaxLikes
  /\ liked' = liked + 1 /\ Overlap(u, e)
  /\ like' = [like EXCEPT ![e] = @ \cup {u}]
  /\ Hold(s, IF u \in like[e] THEN Idle ELSE [op |-> "count", u |-> u, e |-> e])
  /\ UNCHANGED <<course, likeCount, rating>>

Count(s) ==
  /\ request[s].op = "count"
  /\ likeCount' = [likeCount EXCEPT ![request[s].e] = @ + 1]
  /\ Hold(s, Idle) /\ UNCHANGED <<course, like, liked, overlap, rating>>

HadLiked(u, e) == u \in like[e]

Unlike(s, u, e) ==
  /\ request[s] = Idle /\ HadLiked(u, e) /\ Overlap(u, e)
  /\ like' = [like EXCEPT ![e] = @ \ {u}]
  /\ Hold(s, [op |-> "uncount", u |-> u, e |-> e])
  /\ UNCHANGED <<course, likeCount, liked, rating>>

\* Never below zero.
Uncount(s) ==
  /\ request[s].op = "uncount"
  /\ likeCount' = [likeCount EXCEPT ![request[s].e] = IF @ > 0 THEN @ - 1 ELSE @]
  /\ Hold(s, Idle) /\ UNCHANGED <<course, like, liked, overlap, rating>>

-----------------------------------------------------------------------------
(* submit and remove *)

MayRate(s) == request[s] = Idle /\ Cardinality(InFlight({"vet", "rate"})) < MaxRating

\* assertEligible, of an event: a finished event stays finished, so what was found of
\* it still holds when the row is read.
EligibleOf(u, e) == u # Organizer[e] /\ Finished(e) /\ u \in joined[e]

RateEvent(s, u, e) ==
  /\ MayRate(s) /\ EligibleOf(u, e)
  /\ Hold(s, [op |-> "rate", row |-> <<u, "event", e>>])
  /\ UNCHANGED <<course, likes, rating>>

\* assertEligible, of a player: the events both are on are read first, and asked after.
Shared(u, v) == {e \in Event : {u, v} \subseteq joined[e]}

RatePlayer(s, u, v) ==
  /\ MayRate(s) /\ u # v /\ Shared(u, v) # {}
  /\ Hold(s, [op |-> "vet", row |-> <<u, "player", v>>, shared |-> Shared(u, v)])
  /\ UNCHANGED <<course, likes, rating>>

\* Mutant: whichever event finished.
SomeFinished(shared) == \E e \in shared \cup Event : Finished(e)
PlayedTogether(shared) == \E e \in shared : Finished(e)

Vet(s) ==
  /\ request[s].op = "vet"
  /\ Hold(s, IF PlayedTogether(request[s].shared)
             THEN [op |-> "rate", row |-> request[s].row] ELSE Idle)
  /\ UNCHANGED <<course, likes, rating>>

\* One row per rater and target, whether it is the first or an edit.
Upsert(s) ==
  /\ request[s].op = "rate"
  /\ rating' = rating \cup {request[s].row}
  /\ Hold(s, Idle) /\ UNCHANGED <<course, likes>>

RemoveRating(r) ==
  /\ r \in rating /\ rating' = rating \ {r}
  /\ UNCHANGED <<course, likes, request>>

-----------------------------------------------------------------------------
(* The events meanwhile *)

Remember ==
  /\ there' = [e \in Event |->
       IF status'[e] \in {"after_match", "done"} THEN there[e] \cup joined'[e] ELSE there[e]]
  /\ together' = [e \in Event |-> together[e] \cup {q \in joined'[e] \X joined'[e] : q[1] # q[2]}]

SetStatus(e, to) ==
  /\ CanTransition("no_match", status[e], to)
  /\ status' = [status EXCEPT ![e] = to]
  /\ UNCHANGED <<joined, likes, rating, request>> /\ Remember

\* A join and a leave ask the lifecycle and save the row later, whatever has become of
\* the event; an invitation to a challenge is answered, and its player unassigned
\* (unassignPlayer), at any time.
ComeOrGo(e, u) ==
  /\ joined' = [joined EXCEPT ![e] = IF u \in @ THEN @ \ {u} ELSE @ \cup {u}]
  /\ UNCHANGED <<status, likes, rating, request>> /\ Remember

-----------------------------------------------------------------------------
Init ==
  /\ status = [e \in Event |-> "join"] /\ joined = [e \in Event |-> {}]
  /\ there = [e \in Event |-> {}] /\ together = [e \in Event |-> {}]
  /\ like = [e \in Event |-> {}] /\ likeCount = [e \in Event |-> 0] /\ liked = 0 /\ overlap = {}
  /\ rating = {}
  /\ request = [s \in Slot |-> Idle]

\* Likes and ratings share nothing but the slots of the requests in flight.
NextLike ==
  \E s \in Slot :
    \/ Count(s) \/ Uncount(s)
    \/ \E u \in User, e \in Event : Like(s, u, e) \/ Unlike(s, u, e)

NextRating ==
  \/ \E s \in Slot :
       \/ Vet(s) \/ Upsert(s)
       \/ \E u \in User, e \in Event : RateEvent(s, u, e)
       \/ \E u, v \in User : RatePlayer(s, u, v)
  \/ \E r \in rating : RemoveRating(r)
  \/ \E e \in Event :
       \/ \E to \in Status : SetStatus(e, to)
       \/ \E u \in User : ComeOrGo(e, u)

Next == NextLike \/ NextRating

Spec == Init /\ [][Next]_vars

-----------------------------------------------------------------------------
(* Properties *)

\* The counter is the number of rows once every count is in.  A like and an unlike
\* of one user that overlap may leave it too high for good (the guard swallows the
\* decrement), never too low.
LikesCounted ==
  \A e \in Event :
    Counting(e) = {} =>
      /\ likeCount[e] >= Cardinality(like[e])
      /\ e \notin overlap => likeCount[e] = Cardinality(like[e])

\* A rating stands only where its rater was there ("rating is reserved for people who
\* were there"): on the roster of the event once it was played, and not its organizer;
\* or on one roster with the player rated, at one time, in an event that was played.
\* However long ago the check was, and whoever left the roster or was taken off it
\* since: a rating outlives that.
Earned(u, type, target) ==
  IF type = "event"
  THEN u # Organizer[target] /\ Finished(target) /\ u \in there[target]
  ELSE \E e \in Event : Finished(e) /\ <<u, target>> \in together[e]

RatingsEarned == \A r \in rating : Earned(r[1], r[2], r[3])

RatingsSound == LikesCounted /\ RatingsEarned

=============================================================================
