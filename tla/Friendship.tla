----------------------------- MODULE Friendship -----------------------------
(***************************************************************************)
(* Friend requests and friendships (friends/friends.service.ts): one row   *)
(* per request, which is answered, withdrawn, or settled by asking back,   *)
(* and which is the friendship once accepted.                              *)
(*                                                                         *)
(* sendRequest reads the pair's live row and later writes; the other       *)
(* handlers read only what never changes before their one conditional      *)
(* write, so each is one step.  The daily limit and deleted accounts are   *)
(* refusals that may come at any time.  Invitations that go with a         *)
(* friendship are in EventInvitations.                                     *)
(***************************************************************************)
EXTENDS Naturals, FiniteSets

CONSTANTS User,
          Request,     \* Friendship rows over time (a bound)
          Slot,        \* sendRequest calls in flight (a bound)
          OneAtATime,  \* a user sends one request at a time
          Null

VARIABLES
  row,      \* Friendship rows
  cooling,  \* pairs <<a, b>>: b rejected a less than REJECTION_COOLDOWN_MS ago
  sending   \* what each call of sendRequest in flight still has to do

vars == <<row, cooling, sending>>

-----------------------------------------------------------------------------
NoRow == [from |-> Null, to |-> Null, status |-> "none", active |-> FALSE]
Rows(statuses) == {r \in Request : row[r].status \in statuses}
Between(r, u, v) == {row[r].from, row[r].to} = {u, v}

\* findOne({pairKey, active: true})
Live(u, v) == {r \in Request : row[r].active /\ Between(r, u, v)}

Idle == [op |-> "idle"]
Hold(s, r) == sending' = [sending EXCEPT ![s] = r]

-----------------------------------------------------------------------------
(* sendRequest *)

Cooling(u, v) == <<u, v>> \in cooling

SendNew(s, u, v) ==
  /\ Live(u, v) = {} /\ ~Cooling(u, v)
  /\ Hold(s, [op |-> "create", from |-> u, to |-> v])

\* Asking back is an answer.
SendBack(s, u, v) ==
  \E r \in Live(u, v) :
    /\ row[r].status # "ACCEPTED" /\ row[r].from = v
    /\ Hold(s, [op |-> "accept", from |-> u, to |-> v, id |-> r])

Send(s, u, v) ==
  /\ u # v /\ sending[s] = Idle
  /\ OneAtATime => \A t \in Slot : sending[t] # Idle => sending[t].from # u
  /\ SendNew(s, u, v) \/ SendBack(s, u, v)
  /\ UNCHANGED <<row, cooling>>

\* The unique index on live pairs refuses a second row.
CreateRow(s) ==
  /\ sending[s].op = "create"
  /\ LET q == sending[s]
     IN  IF Live(q.from, q.to) # {} THEN UNCHANGED row
         ELSE \E r \in Rows({"none"}) :
                row' = [row EXCEPT ![r] = [from |-> q.from, to |-> q.to,
                                           status |-> "PENDING", active |-> TRUE]]
  /\ Hold(s, Idle) /\ UNCHANGED cooling

AcceptBack(s) ==
  /\ sending[s].op = "accept"
  /\ LET r == sending[s].id
     IN  row' = IF row[r].status = "PENDING" THEN [row EXCEPT ![r].status = "ACCEPTED"] ELSE row
  /\ Hold(s, Idle) /\ UNCHANGED cooling

-----------------------------------------------------------------------------
(* respondToRequest, cancelRequest, unfriend *)

Answerable(r) == row[r].status = "PENDING"

RespondToRequest(r, answer) ==
  /\ Answerable(r)
  /\ row' = [row EXCEPT ![r].status = answer, ![r].active = (answer = "ACCEPTED")]
  /\ cooling' = IF answer = "REJECTED" THEN cooling \cup {<<row[r].from, row[r].to>>} ELSE cooling
  /\ UNCHANGED sending

\* Mutant: a withdrawn request stays live.
CancelKeepsLive(r) == row' = [row EXCEPT ![r].status = "CANCELLED"]
Withdraw(r) == row' = [row EXCEPT ![r].status = "CANCELLED", ![r].active = FALSE]

CancelRequest(r) == Answerable(r) /\ Withdraw(r) /\ UNCHANGED <<cooling, sending>>

Unfriend(r) ==
  /\ row[r].status = "ACCEPTED"
  /\ row' = [row EXCEPT ![r] = [NoRow EXCEPT !.status = "deleted"]]
  /\ UNCHANGED <<cooling, sending>>

CooldownPasses(u, v) ==
  /\ <<u, v>> \in cooling
  /\ cooling' = cooling \ {<<u, v>>} /\ UNCHANGED <<row, sending>>

-----------------------------------------------------------------------------
Init ==
  /\ row = [r \in Request |-> NoRow]
  /\ cooling = {}
  /\ sending = [s \in Slot |-> Idle]

Next ==
  \/ \E s \in Slot : \/ CreateRow(s) \/ AcceptBack(s)
                     \/ \E u, v \in User : Send(s, u, v)
  \/ \E r \in Request : \/ CancelRequest(r) \/ Unfriend(r)
                        \/ \E answer \in {"ACCEPTED", "REJECTED"} : RespondToRequest(r, answer)
  \/ \E u, v \in User : CooldownPasses(u, v)

Spec == Init /\ [][Next]_vars

-----------------------------------------------------------------------------
(* Properties *)

\* The flag the unique index is built on follows the status: live is pending or
\* accepted, and nothing else, through answers, withdrawals and asking back; so
\* two people are never friends twice, or friends with a request still open
\* ("One live request-or-friendship per pair", schemas/friendship.schema.ts:68).
OneLivePerPair ==
  /\ \A r \in Request : row[r].active <=> row[r].status \in {"PENDING", "ACCEPTED"}
  /\ \A r, q \in Rows({"PENDING", "ACCEPTED"}) :
       r # q => {row[r].from, row[r].to} # {row[q].from, row[q].to}

\* Whoever was rejected has no request open to the same person until the cooldown
\* is over, nor becomes their friend by one ("How long a rejected requester waits
\* before asking the same user again", friends.helpers.ts:15).  The check is long
\* before the row, so this needs that one user does not send twice at once.
RejectionHolds ==
  OneAtATime => \A r \in Rows({"PENDING", "ACCEPTED"}) : <<row[r].from, row[r].to>> \notin cooling

FriendshipSound == OneLivePerPair /\ RejectionHolds

\* A request is answered once: what was accepted, rejected or withdrawn stays so,
\* except that a friendship may end.
AnsweredForGood ==
  \A r \in Rows({"ACCEPTED", "REJECTED", "CANCELLED"}) :
    row'[r].status \in {row[r].status, "deleted"}

=============================================================================
