-------------------------- MODULE GroupMembership --------------------------
(***************************************************************************)
(* One group and who belongs to it (groups/groups.service.ts,              *)
(* invitations/invitations.service.ts): it is created with its owner's     *)
(* row, users ask to join, an owner or admin answers, members leave, are   *)
(* removed or given a role, the owner appoints a cashier, and at last the  *)
(* group is deleted with everything in it.                                 *)
(*                                                                         *)
(* Granularity.  As in EventRoster: a handler is a request that reads when *)
(* it begins and then takes one step per write it awaits.  A membership    *)
(* row is known by its user, the unique index, and by its _id; an answer   *)
(* and a departure hold the _id they read, a removal and a change of role  *)
(* name the user again.                                                    *)
(***************************************************************************)
EXTENDS Integers, FiniteSets

CONSTANTS User,
          Limits,     \* what maxPlayers may be
          MaxRows,    \* membership rows a user has over time (a bound)
          Slot,       \* requests in flight at a time (a bound)
          Exclusive,  \* "answers": answers about one person do not overlap;
                      \* "birth": a group's owner does not ask to join it
                      \* before the request that creates it has returned;
                      \* "limit": the limit stays while answers are decided
          Null

ASSUME MembershipAssumption ==
  /\ IsFiniteSet(User) /\ IsFiniteSet(Slot)
  /\ Limits \subseteq Nat \ {0}
  /\ MaxRows \in Nat
  /\ Exclusive \subseteq {"answers", "birth", "limit"}
  /\ Null \notin User

VARIABLES
  group,    \* the Group document, and how far its life has come
  member,   \* GroupMember rows
  request   \* what each request in flight still has to do

store == <<group, member>>
vars == <<store, request>>

-----------------------------------------------------------------------------
(* Rows and requests *)

Phases == {"none", "there", "deleted"}
Roles == {"owner", "admin", "member"}

\* The other roles (captain, vice-captain, referee) act as "member" here.
Assignable == Roles \ {"owner"}

NoRow(n) == [id |-> n, role |-> "none", status |-> "none"]
Exists(u) == member[u].status # "none"
Approved == {u \in User : member[u].status = "approved"}

Idle == [op |-> "idle"]
At(s, op) == request[s].op = op
Begin(s, r) == request[s] = Idle /\ request' = [request EXCEPT ![s] = r] /\ UNCHANGED store
Finish(s) == request' = [request EXCEPT ![s] = Idle]
InFlight(ops) == {s \in Slot : request[s].op \in ops}

\* The unique index refuses a second row of a user.
CreateRow(u, role, status) ==
  /\ Exists(u) \/ member[u].id < MaxRows
  /\ member' = IF Exists(u) THEN member
               ELSE [member EXCEPT ![u] = [id |-> @.id + 1, role |-> role, status |-> status]]

There == group.phase = "there"
Born(u) == "birth" \in Exclusive => \A t \in InFlight({"own"}) : request[t].on # u
MayManage(u) == u \in Approved /\ member[u].role \in {"owner", "admin"}

-----------------------------------------------------------------------------
(* create: the plan's limit on groups owned is taken to be met *)

Create(s, u) ==
  /\ group.phase = "none"
  /\ request[s] = Idle /\ request' = [request EXCEPT ![s] = [op |-> "own", on |-> u]]
  /\ \E n \in Limits :
       group' = [group EXCEPT !.phase = "there", !.ownerId = u, !.maxPlayers = n]
  /\ UNCHANGED member

OwnerRow(s) ==
  /\ At(s, "own") /\ CreateRow(request[s].on, "owner", "approved")
  /\ Finish(s) /\ UNCHANGED group

-----------------------------------------------------------------------------
(* requestToJoin, joinByCode: both end in a pending row *)

Ask(s, u) ==
  /\ ~Exists(u) /\ member[u].id < MaxRows
  /\ Born(u)
  /\ Begin(s, [op |-> "ask", on |-> u])

RequestToJoin(s, u) == There /\ Ask(s, u)
JoinByCode(s, u) == There /\ group.code = "valid" /\ Ask(s, u)

AskRow(s) ==
  /\ At(s, "ask") /\ CreateRow(request[s].on, "member", "pending")
  /\ Finish(s) /\ UNCHANGED group

-----------------------------------------------------------------------------
(* respond *)

\* Mutant: a request that was approved is found again.
AwaitsAnswerOrNot(u) == Exists(u) /\ member[u].role # "owner"
AwaitsAnswer(u) == member[u].status = "pending"

Full == Cardinality(Approved) >= group.maxPlayers

Respond(s, by, u, action) ==
  /\ MayManage(by) /\ AwaitsAnswer(u)
  /\ action = "approve" => ~(There /\ Full)
  /\ "answers" \in Exclusive =>
       \A t \in InFlight({"approve", "reject"}) : request[t].on # u
  /\ "limit" \in Exclusive => InFlight({"limit"}) = {}
  /\ Begin(s, [op |-> action, on |-> u, id |-> member[u].id])

\* The document that was read is saved, and a row deleted since is not found;
\* or it is deleted, whatever its status has become.
Answer(s) ==
  /\ request[s].op \in {"approve", "reject"}
  /\ LET r == request[s]
         u == r.on
     IN  member' =
           IF ~(Exists(u) /\ member[u].id = r.id) THEN member
           ELSE IF r.op = "reject" THEN [member EXCEPT ![u] = NoRow(r.id)]
           ELSE [member EXCEPT ![u].status = "approved"]
  /\ Finish(s) /\ UNCHANGED group

-----------------------------------------------------------------------------
(* leave, removeMember, updateMemberRole *)

\* Mutant: the owner may leave too.
MayLeaveAnyone(u) == Exists(u)
MayLeave(u) == Exists(u) /\ member[u].role # "owner"

Leave(s, u) ==
  /\ There /\ MayLeave(u)
  /\ Begin(s, [op |-> "leave", on |-> u, id |-> member[u].id])

LeaveRow(s) ==
  /\ At(s, "leave")
  /\ LET r == request[s]
     IN  member' = IF member[r.on].id = r.id THEN [member EXCEPT ![r.on] = NoRow(r.id)]
                   ELSE member
  /\ Finish(s) /\ UNCHANGED group

\* Nobody who is a member need be there: deleteOne then deletes nothing, or
\* a row created since.
RemoveMember(s, by, u) ==
  /\ MayManage(by) /\ member[u].role # "owner"
  /\ Begin(s, [op |-> "remove", on |-> u])

RemoveRow(s) ==
  /\ At(s, "remove")
  /\ LET u == request[s].on IN member' = [member EXCEPT ![u] = NoRow(@.id)]
  /\ Finish(s) /\ UNCHANGED group

\* A pending row may be given a role, which counts once it is approved.
UpdateMemberRole(s, by, u, role) ==
  /\ MayManage(by) /\ Exists(u) /\ member[u].role # "owner"
  /\ Begin(s, [op |-> "role", on |-> u, role |-> role])

RoleRow(s) ==
  /\ At(s, "role")
  /\ LET r == request[s]
     IN  member' = IF Exists(r.on) THEN [member EXCEPT ![r.on].role = r.role] ELSE member
  /\ Finish(s) /\ UNCHANGED group

-----------------------------------------------------------------------------
(* The group's own fields *)

MayBeCashier(c) == c \in {Null, group.ownerId} \cup Approved

SetCashier(s, c) ==
  /\ There /\ MayBeCashier(c)
  /\ Begin(s, [op |-> "cashier", on |-> c])

\* findByIdAndUpdate changes nothing once the group is gone.
CashierField(s) ==
  /\ At(s, "cashier")
  /\ group' = IF There THEN [group EXCEPT !.cashierId = request[s].on] ELSE group
  /\ Finish(s) /\ UNCHANGED member

\* Nothing compares the new limit with the members there are.
UpdateLimit(s, by, n) ==
  /\ MayManage(by)
  /\ "limit" \in Exclusive => InFlight({"approve"}) = {}
  /\ Begin(s, [op |-> "limit", on |-> n])

LimitField(s) ==
  /\ At(s, "limit")
  /\ group' = IF There THEN [group EXCEPT !.maxPlayers = request[s].on] ELSE group
  /\ Finish(s) /\ UNCHANGED member

\* Anybody fetches the code, and a new one is minted when there is none or it
\* has run out, which are one here; a manager mints a new one at any time.
GetQr ==
  /\ There /\ group.code # "valid"
  /\ group' = [group EXCEPT !.code = "valid"] /\ UNCHANGED <<member, request>>

CodeExpires ==
  /\ group.code = "valid"
  /\ group' = [group EXCEPT !.code = "none"] /\ UNCHANGED <<member, request>>

-----------------------------------------------------------------------------
(* remove: the events, then the rows, then the group itself *)

Remove(s) ==
  /\ There /\ Born(group.ownerId)
  /\ Begin(s, [op |-> "erase_rows"])

EraseRows(s) ==
  /\ At(s, "erase_rows")
  /\ member' = [u \in User |-> NoRow(member[u].id)]
  /\ request' = [request EXCEPT ![s].op = "erase_group"]
  /\ UNCHANGED group

EraseGroup(s) ==
  /\ At(s, "erase_group")
  /\ group' = [group EXCEPT !.phase = "deleted", !.cashierId = Null, !.code = "none"]
  /\ Finish(s) /\ UNCHANGED member

-----------------------------------------------------------------------------
Init ==
  /\ group = [phase |-> "none", ownerId |-> Null, cashierId |-> Null,
              maxPlayers |-> 0, code |-> "none"]
  /\ member = [u \in User |-> NoRow(0)]
  /\ request = [s \in Slot |-> Idle]

Next ==
  \/ \E s \in Slot :
       \/ OwnerRow(s) \/ AskRow(s) \/ Answer(s) \/ LeaveRow(s) \/ RemoveRow(s)
       \/ RoleRow(s) \/ CashierField(s) \/ LimitField(s)
       \/ Remove(s) \/ EraseRows(s) \/ EraseGroup(s)
       \/ \E c \in User \cup {Null} : SetCashier(s, c)
       \/ \E u \in User :
            \/ Create(s, u) \/ RequestToJoin(s, u) \/ JoinByCode(s, u) \/ Leave(s, u)
            \/ \E n \in Limits : UpdateLimit(s, u, n)
            \/ \E by \in User :
                 \/ \E action \in {"approve", "reject"} : Respond(s, by, u, action)
                 \/ RemoveMember(s, by, u)
                 \/ \E role \in Assignable : UpdateMemberRole(s, by, u, role)
  \/ GetQr \/ CodeExpires

Spec == Init /\ [][Next]_vars

-----------------------------------------------------------------------------
(* Properties *)

MembershipTypeOK ==
  /\ group \in [phase : Phases, ownerId : User \cup {Null}, cashierId : User \cup {Null},
                maxPlayers : Limits \cup {0}, code : {"none", "valid"}]
  /\ member \in [User -> [id : 0..MaxRows, role : Roles \cup {"none"},
                          status : {"none", "pending", "approved"}]]

\* A group has one owner, for good: from the moment its creation has returned
\* until it is being deleted, its owner's row is approved and says so, and no
\* other row does, however departures, removals, answers and changes of role that
\* read the rows earlier overlap.  The dto promises it: "a group has exactly one"
\* (groups/dto/update-member-role.dto.ts).
OneOwner ==
  /\ MembershipTypeOK
  /\ \A u \in User : member[u].role = "owner" => u = group.ownerId
  /\ There /\ InFlight({"own", "erase_group"}) = {} =>
       member[group.ownerId].role = "owner" /\ group.ownerId \in Approved

\* Nobody's membership is ended by an answer to a request of theirs: an approved
\* member stays one unless they leave, are removed, or the group is deleted.
\* respond deletes by _id, without asking again whether the row still waits, so
\* this needs that answers about one person do not overlap.
MembershipEnds ==
  \A u \in Approved : u \notin Approved' =>
    \E s \in Slot : /\ request[s].op \in {"leave", "remove", "erase_rows"}
                    /\ request'[s] # request[s]

\* Approvals count the members before they save.  Those decided on the same
\* count can exceed the limit, by no more than the other requests in flight.
OvershootBounded ==
  Approved' \ Approved # {} =>
    Cardinality(Approved') <= group.maxPlayers + Cardinality(Slot) - 1

\* What an answer may do, to the members there are and to their number.
AnswerSettles == MembershipEnds /\ OvershootBounded

=============================================================================
