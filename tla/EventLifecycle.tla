--------------------------- MODULE EventLifecycle ---------------------------
(***************************************************************************)
(* The lifecycle of an event: which moves its status may make, and which   *)
(* actions a status permits (events/events.lifecycle.ts, a pure module).   *)
(*                                                                         *)
(* A kind stands for the two flags the code keys its tables on: the        *)
(* sport's matchProvided and the event's type.                             *)
(***************************************************************************)

Status ==
  {"join", "preparation", "ready_to_play", "playing", "after_match", "done", "cancelled"}

Kind == {"match", "no_match", "challenge"}

-----------------------------------------------------------------------------
(* Moves *)

MatchTransitions ==
  [join          |-> {"preparation", "cancelled"},
   preparation   |-> {"ready_to_play", "join", "cancelled"},
   ready_to_play |-> {"playing", "preparation", "cancelled"},
   playing       |-> {"after_match", "cancelled"},
   after_match   |-> {"done"},
   done          |-> {},
   cancelled     |-> {}]

\* Without a build stage: nothing enters preparation, but an event found
\* there (its group changed sport) still has its exits.
NoMatchTransitions ==
  [MatchTransitions EXCEPT !.join = {"ready_to_play", "cancelled"},
                           !.ready_to_play = {"playing", "join", "cancelled"}]

ChallengeTransitions ==
  [MatchTransitions EXCEPT !.join = {"ready_to_play", "cancelled"},
                           !.ready_to_play = {"playing", "join", "cancelled"}]

TransitionsFor(kind) ==
  CASE kind = "challenge" -> ChallengeTransitions
    [] kind = "match"     -> MatchTransitions
    [] kind = "no_match"  -> NoMatchTransitions

CanTransition(kind, from, to) == to \in TransitionsFor(kind)[from]

-----------------------------------------------------------------------------
(* Gates *)

CanJoin(status) == status = "join"

CanLeave(status) == status = "join"

\* Teams are built in preparation, which only a sport with matches has.
BuildStageFor(kind) == IF kind = "match" THEN "preparation" ELSE "ready_to_play"

CanShuffle(kind, status) == status = BuildStageFor(kind)

\* Once play has started, and for corrections after it.
CanEnterScore(status) == status \in {"playing", "after_match"}

CanSubmitResult(status) == status = "after_match"

\* Editable until it reaches a terminal state.
CanModify(status) == status \notin {"done", "cancelled"}

\* Played out, or called off.
FinishedStatuses == {"after_match", "done", "cancelled"}

=============================================================================
