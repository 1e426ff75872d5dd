----------------------------- MODULE Aftermath -----------------------------
(***************************************************************************)
(* What is settled once a challenge match has been played: its result, its *)
(* MVP, and the award of the winning group (EventsService.submitResult,    *)
(* submitMvp, awardMvp, revokeMvp, setStatus; awards/awards.service.ts).   *)
(*                                                                         *)
(* The MVP is kept twice, on the event's result and as an award, by two    *)
(* writes; the move to done and the award of the winner are two writes,    *)
(* too.  Any of them may fail: the requests here are one step per write,   *)
(* and a step of its own is the request that breaks off.  The handlers     *)
(* write the whole result from the document they loaded.                   *)
(***************************************************************************)
EXTENDS Naturals, FiniteSets, EventLifecycle

CONSTANTS Player,
          Side,       \* the group each player was assigned by
          Home, Away, \* the challenger and the challenged group
          Score,      \* scores that are entered, Home's goals first (a bound)
          Slot,       \* requests in flight at a time (a bound)
          Exclusive,  \* what does not overlap: "results", writes of one result,
                      \* "archive", moves of the event, and the move to done
                      \* with a write of a score
          Null

VARIABLES
  status,   \* the event's
  result,   \* its result: MVP, whose goal and assist counts are on it, score
  fixture,  \* the score of its match, Null until entered
  joined,   \* its roster
  members,  \* approved members of the two groups
  mvp,      \* the recipient of the MVP award, Null if there is none
  won,      \* the Group Challenge award: the group, and who may show it
  memory,   \* players who show it
  owed,     \* a request of the MVP broke off, and none has gone through since (history)
  missed,   \* the request that moved the event to done broke off before the
            \* award of the winner (history)
  request

store == <<status, result, fixture, joined, members, mvp, won, memory>>
broken == <<owed, missed>>
vars == <<store, broken, request>>

-----------------------------------------------------------------------------
NoResult == [mvp |-> Null, counts |-> Null, score |-> Null]
NoAward == [group |-> Null, eligible |-> {}]

Idle == [op |-> "idle"]
At(s, op) == request[s].op = op
Proceed(s, r) == request' = [request EXCEPT ![s] = r]
Advance(s, op) == Proceed(s, [request[s] EXCEPT !.op = op])
Finish(s) == Proceed(s, Idle)
Begin(s, r) == request[s] = Idle /\ Proceed(s, r) /\ UNCHANGED <<store, broken>>

Resulting == {"score", "name", "give", "delete", "create", "take", "keep", "clear"}
Scoring == Resulting \cup {"fixture"}
InFlight(ops) == \E s \in Slot : request[s].op \in ops
FreeToResult ==
  /\ "results" \in Exclusive => ~InFlight(Resulting)
  /\ "archive" \in Exclusive => ~InFlight({"status"})

-----------------------------------------------------------------------------
(* setMatchScore, submitResult *)

ScoreFixture(s, score) ==
  /\ CanEnterScore(status) /\ ("archive" \in Exclusive => ~InFlight({"status"}))
  /\ Begin(s, [op |-> "fixture", score |-> score])

SaveFixture(s) ==
  /\ At(s, "fixture") /\ fixture' = request[s].score
  /\ Finish(s) /\ UNCHANGED <<status, result, joined, members, mvp, won, memory, broken>>

\* Mutant: a new score blanks the MVP.
Blanked(r, score) == [NoResult EXCEPT !.score = score]
Rescored(r, score) == [r EXCEPT !.score = score]

\* A score may also be left out.
SubmitResult(s, score) ==
  /\ CanSubmitResult(status) /\ FreeToResult
  /\ Begin(s, [op |-> "score", result |-> Rescored(result, score)])

SaveResult(s, op, next) ==
  /\ At(s, op) /\ result' = request[s].result
  /\ UNCHANGED <<status, fixture, joined, members, mvp, won, memory>>
  /\ IF next = "end" THEN Finish(s) ELSE Advance(s, next)

SaveScore(s) == SaveResult(s, "score", "end") /\ UNCHANGED broken

-----------------------------------------------------------------------------
(* submitMvp: the result, then the award.  awardMvp: the award, then the   *)
(* result.  revokeMvp: the award, then the result.                         *)

Named(p, counts) == [result EXCEPT !.mvp = p, !.counts = counts]

SubmitMvp(s, p) ==
  /\ CanSubmitResult(status) /\ p \in joined /\ FreeToResult
  /\ Begin(s, [op |-> "name", player |-> p, replace |-> TRUE, result |-> Named(p, p)])

SaveNamed(s) == SaveResult(s, "name", "give") /\ UNCHANGED broken

\* The counts stay with the player they were entered for.
AwardMvp(s, p) ==
  /\ status \in {"after_match", "done"} /\ p \in joined /\ FreeToResult
  /\ Begin(s, [op |-> "give", player |-> p, replace |-> FALSE,
               result |-> Named(p, IF result.mvp = p THEN result.counts ELSE Null)])

\* What follows the giving of the award.
Given(s) == IF request[s].replace THEN Finish(s) /\ owed' = FALSE
                                  ELSE Advance(s, "keep") /\ UNCHANGED owed

Replaces(s) == request[s].replace

Give(s) ==
  /\ At(s, "give") /\ UNCHANGED <<store, missed>>
  /\ \/ mvp = request[s].player /\ Given(s)
     \/ mvp \notin {request[s].player, Null}
        /\ (IF Replaces(s) THEN Advance(s, "delete") ELSE Finish(s)) /\ UNCHANGED owed
     \/ mvp = Null /\ Advance(s, "create") /\ UNCHANGED owed

Delete(s) ==
  /\ At(s, "delete") /\ mvp' = Null /\ Advance(s, "create")
  /\ UNCHANGED <<status, result, fixture, joined, members, won, memory, broken>>

\* The unique index lets one of two win.
CreateMvp(s) ==
  /\ At(s, "create")
  /\ IF mvp = Null THEN mvp' = request[s].player /\ Given(s)
                   ELSE UNCHANGED <<mvp, owed>> /\ Finish(s)
  /\ UNCHANGED <<status, result, fixture, joined, members, won, memory, missed>>

SaveKept(s) == SaveResult(s, "keep", "end") /\ owed' = FALSE /\ UNCHANGED missed

\* Whether there is a result is read before the award is deleted.
RevokeMvp(s) ==
  /\ FreeToResult
  /\ Begin(s, [op |-> "take", result |-> Named(Null, Null)])

Take(s) ==
  /\ At(s, "take") /\ mvp' = Null
  /\ IF mvp = Null THEN Finish(s) ELSE Advance(s, "clear")
  /\ UNCHANGED <<status, result, fixture, joined, members, won, memory, broken>>

TakeOffResult(s) == SaveResult(s, "clear", "end")

Clear(s) == TakeOffResult(s) /\ owed' = FALSE /\ UNCHANGED missed

\* A write of the request fails, or the process ends.  The failure of a winner's
\* award is caught and logged; the event is done either way, and done for good.
BreakOff(s) ==
  /\ request[s] # Idle
  /\ owed' = (owed \/ request[s].op \in {"give", "delete", "create", "keep", "clear"})
  /\ missed' = (missed \/ At(s, "win"))
  /\ Finish(s) /\ UNCHANGED store

-----------------------------------------------------------------------------
(* setStatus, awardChallengeWinner, giveChallengeAward *)

SetStatus(s, to) ==
  /\ CanTransition("challenge", status, to)
  /\ "archive" \in Exclusive => ~InFlight({"status"}) /\ (to = "done" => ~InFlight(Scoring))
  /\ Begin(s, [op |-> "status", to |-> to, score |-> result.score])

SaveStatus(s) ==
  /\ At(s, "status") /\ status' = request[s].to
  /\ IF request[s].to = "done" THEN Advance(s, "win") ELSE Finish(s)
  /\ UNCHANGED <<result, fixture, joined, members, mvp, won, memory, broken>>

\* The overall score, failing that the fixture's.
Decisive(score) == IF score # Null THEN score ELSE fixture

Winner(score) ==
  IF score = Null \/ score[1] = score[2] THEN Null
  ELSE IF score[1] > score[2] THEN Home ELSE Away

\* The winning side's players who are members at that moment.
Eligible(group) == {p \in joined : Side[p] = group /\ p \in members}

Awarded(score) == Winner(Decisive(score))

\* A second award is refused by the index.
AwardWinner(s) ==
  /\ At(s, "win") /\ Finish(s)
  /\ won' = LET group == Awarded(request[s].score)
            IN  IF won = NoAward /\ group # Null
                THEN [group |-> group, eligible |-> Eligible(group)] ELSE won
  /\ UNCHANGED <<status, result, fixture, joined, members, mvp, memory, broken>>

-----------------------------------------------------------------------------
(* Memories, and what the others do meanwhile *)

AddMemory(p) ==
  /\ p \in won.eligible \ memory /\ memory' = memory \cup {p}
  /\ UNCHANGED <<status, result, fixture, joined, members, mvp, won, broken, request>>

RemoveMemory(p) ==
  /\ p \in memory /\ memory' = memory \ {p}
  /\ UNCHANGED <<status, result, fixture, joined, members, mvp, won, broken, request>>

\* GroupsService.leave, removeMember, and joining again
ChangeMembers(p) ==
  /\ members' = IF p \in members THEN members \ {p} ELSE members \cup {p}
  /\ UNCHANGED <<status, result, fixture, joined, mvp, won, memory, broken, request>>

\* unassignPlayer, which does not look at the status
Unassign(p) ==
  /\ p \in joined /\ joined' = joined \ {p}
  /\ UNCHANGED <<status, result, fixture, members, mvp, won, memory, broken, request>>

-----------------------------------------------------------------------------
Init ==
  /\ status = "playing" /\ result = NoResult /\ fixture = Null
  /\ joined = Player /\ members = Player
  /\ mvp = Null /\ won = NoAward /\ memory = {}
  /\ owed = FALSE /\ missed = FALSE /\ request = [s \in Slot |-> Idle]

Next ==
  \/ \E s \in Slot :
       \/ SaveFixture(s) \/ SaveScore(s) \/ SaveNamed(s) \/ Give(s) \/ Delete(s) \/ CreateMvp(s)
       \/ SaveKept(s) \/ RevokeMvp(s) \/ Take(s) \/ Clear(s) \/ BreakOff(s)
       \/ SaveStatus(s) \/ AwardWinner(s)
       \/ \E score \in Score : ScoreFixture(s, score)
       \/ \E score \in Score \cup {Null} : SubmitResult(s, score)
       \/ \E p \in Player : SubmitMvp(s, p) \/ AwardMvp(s, p)
       \/ \E to \in {"after_match", "done"} : SetStatus(s, to)
  \/ \E p \in Player : AddMemory(p) \/ RemoveMemory(p) \/ ChangeMembers(p) \/ Unassign(p)

Spec == Init /\ [][Next]_vars

-----------------------------------------------------------------------------
(* Properties *)

\* The MVP on the result is the holder of the award, and the counts are theirs,
\* whichever of the three requests came last; a request that breaks off between its
\* two writes leaves them apart, and the next one that goes through repairs it
\* ("keeps in sync so the two never disagree", schemas/award.schema.ts:19).
MvpInStep ==
  /\ ~owed /\ ~InFlight({"give", "delete", "create", "keep", "clear"}) => result.mvp = mvp
  /\ result.counts \in {result.mvp, Null}

\* The group that holds the award is the winner by the score the archived event
\* shows, and whoever shows it played for that group: members who come or go, and
\* players who are unassigned later, change neither.  It is missing only if the
\* request that archived the event broke off before giving it, and then for good
\* ("an award failure is logged and never blocks the archive").
WinnerHolds ==
  LET winner == Winner(IF result.score = Null THEN fixture ELSE result.score)
  IN
  /\ won # NoAward => status = "done" /\ won.group = winner
  /\ status = "done" /\ ~InFlight({"win"}) /\ ~missed => won.group = winner
  /\ missed => won = NoAward
  /\ memory \subseteq won.eligible /\ \A p \in won.eligible : Side[p] = won.group

AftermathSound == MvpInStep /\ WinnerHolds

=============================================================================
