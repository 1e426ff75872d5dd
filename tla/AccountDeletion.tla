-------------------------- MODULE AccountDeletion --------------------------
(***************************************************************************)
(* DELETE /users/me (users/users.service.ts, deleteAccount): the account's *)
(* owner gives up the places it can no longer fill - the unfinished events *)
(* it organizes are cancelled, the open rosters it is on are left - and    *)
(* the account is flagged last.  cancel and leave are the events' own      *)
(* operations, with their own refusals.                                    *)
(*                                                                         *)
(* A request may fail at any of its writes, and may be sent again.  Events *)
(* meanwhile move on, are restored, joined and created.                    *)
(***************************************************************************)
EXTENDS EventLifecycle

CONSTANTS Event,
          Quiet,   \* nothing else happens to the account while it is deleted
          Null

VARIABLES
  account,   \* "live" or "deleted"
  owns,      \* the account owns a group
  event,     \* the Event documents: kind, status, statusBeforeCancel (was), and
             \* whether the account created them (mine)
  roster,    \* the account's EventPlayer row in each event
  deletion   \* the request under way: its stage, what is left of it, what it changed

vars == <<account, owns, event, roster, deletion>>

-----------------------------------------------------------------------------
Idle == [stage |-> "idle", left |-> {}, changed |-> {}, end |-> Null]
Deleting == deletion.stage # "idle"

Made == {e \in Event : event[e].kind # Null}
On == {e \in Made : roster[e] = "joined"}

\* Mutant: only events still open for joining are called off.
OrganizedOpen == {e \in Made : event[e].mine /\ event[e].status = "join"}

\* The unfinished events the account organizes.
Organized == {e \in Made : event[e].mine /\ event[e].status \notin FinishedStatuses}

\* The open events whose roster it is on.
OpenJoined == {e \in On : event[e].status = "join"}

End(how) == deletion' = [Idle EXCEPT !.end = how]
Refused == End("refused") /\ UNCHANGED <<account, owns, event, roster>>

-----------------------------------------------------------------------------
(* deleteAccount *)

\* An owner is turned away before anything else is looked at.
Begin ==
  /\ account = "live" /\ ~Deleting
  /\ IF owns THEN End("guarded")
     ELSE deletion' = [Idle EXCEPT !.stage = "cancel", !.left = Organized]
  /\ UNCHANGED <<account, owns, event, roster>>

\* EventsService.cancel, which refuses what has finished since.
Cancel(e) ==
  /\ deletion.stage = "cancel" /\ e \in deletion.left
  /\ IF CanTransition(event[e].kind, event[e].status, "cancelled")
     THEN /\ event' = [event EXCEPT ![e].status = "cancelled", ![e].was = event[e].status]
          /\ deletion' = [deletion EXCEPT !.left = @ \ {e}, !.changed = @ \cup {e}]
          /\ UNCHANGED <<account, owns, roster>>
     ELSE Refused

FindRosters ==
  /\ deletion.stage = "cancel" /\ deletion.left = {}
  /\ deletion' = [deletion EXCEPT !.stage = "leave", !.left = OpenJoined]
  /\ UNCHANGED <<account, owns, event, roster>>

\* EventsService.leave, which refuses a challenge, whose squads the admins
\* assign, and an event that has closed or been left since.
Leave(e) ==
  /\ deletion.stage = "leave" /\ e \in deletion.left
  /\ IF event[e].kind # "challenge" /\ CanLeave(event[e].status) /\ e \in On
     THEN /\ roster' = [roster EXCEPT ![e] = "cancelled"]
          /\ deletion' = [deletion EXCEPT !.left = @ \ {e}, !.changed = @ \cup {e}]
          /\ UNCHANGED <<account, owns, event>>
     ELSE Refused

\* Last, so any failure above leaves a fully functional account.
Flag ==
  /\ deletion.stage = "leave" /\ deletion.left = {}
  /\ account' = "deleted" /\ End("deleted")
  /\ UNCHANGED <<owns, event, roster>>

\* The database or the process fails between two writes.
Fail ==
  /\ Deleting /\ End("failed")
  /\ UNCHANGED <<account, owns, event, roster>>

-----------------------------------------------------------------------------
(* What else happens: other requests of the account, and other people's *)

Free == Quiet => ~Deleting
Usable == account = "live" /\ Free

OwnGroup == Usable /\ owns' \in BOOLEAN /\ UNCHANGED <<account, event, roster, deletion>>

Create(e) ==
  /\ Free /\ e \notin Made
  /\ \E kind \in Kind, mine \in BOOLEAN :
       /\ mine => account = "live"
       /\ event' = [event EXCEPT ![e] = [kind |-> kind, status |-> "join", was |-> Null, mine |-> mine]]
  /\ UNCHANGED <<account, owns, roster, deletion>>

\* join; or a place in a challenge's squad accepted, which no status closes.
Join(e) ==
  /\ Usable /\ e \in Made \ On
  /\ event[e].kind = "challenge" \/ CanJoin(event[e].status)
  /\ roster' = [roster EXCEPT ![e] = "joined"]
  /\ UNCHANGED <<account, owns, event, deletion>>

MoveOn(e, to) ==
  /\ Free /\ e \in Made
  /\ CanTransition(event[e].kind, event[e].status, to)
  /\ event' = [event EXCEPT ![e].status = to,
                            ![e].was = IF to = "cancelled" THEN event[e].status ELSE Null]
  /\ UNCHANGED <<account, owns, roster, deletion>>

Restore(e) ==
  /\ Free /\ e \in Made /\ event[e].status = "cancelled"
  /\ event' = [event EXCEPT ![e].status = event[e].was, ![e].was = Null]
  /\ UNCHANGED <<account, owns, roster, deletion>>

-----------------------------------------------------------------------------
Init ==
  /\ account = "live" /\ owns = FALSE
  /\ event = [e \in Event |-> [kind |-> Null, status |-> "join", was |-> Null, mine |-> FALSE]]
  /\ roster = [e \in Event |-> "none"]
  /\ deletion = Idle

Next ==
  \/ Begin \/ FindRosters \/ Flag \/ Fail \/ OwnGroup
  \/ \E e \in Event :
       \/ Cancel(e) \/ Leave(e) \/ Create(e) \/ Join(e) \/ Restore(e)
       \/ \E to \in Status : MoveOn(e, to)

Spec == Init /\ [][Next]_vars

-----------------------------------------------------------------------------
(* Properties *)

\* The account is flagged only when it holds no place it cannot fill: it owns
\* no group, every event it organizes is finished, and it is on no open roster, at
\* whichever attempt and after whatever failures.
DepartsClean ==
  account' # account =>
    /\ ~owns
    /\ \A e \in Made :
         /\ event[e].mine => event[e].status \in FinishedStatuses
         /\ event[e].status = "join" => roster[e] # "joined"

\* Short of the flag, an attempt that ends has not touched what is over or what
\* is not the account's: finished events stay as history, and the rosters past
\* joining keep their rows.
HistoryKept ==
  Deleting =>
    \A e \in Made :
      /\ event[e].status \in FinishedStatuses => event'[e] = event[e]
      /\ event'[e] # event[e] => event[e].mine
      /\ roster'[e] # roster[e] => event[e].status = "join"

DeletionStep == DepartsClean /\ HistoryKept

\* "A rejected request changes nothing" (deleteAccount's comment): a refusal
\* leaves the events and rosters as the request found them.
RejectedChangesNothing ==
  [][deletion'.end = "refused" /\ deletion.end # "refused" => deletion.changed = {}]_vars

=============================================================================
