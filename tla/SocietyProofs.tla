---------------------------- MODULE SocietyProofs ----------------------------
(***************************************************************************)
(* Theorems about the parts of Society in which people organize            *)
(* themselves, and about their handshakes: each part keeps its invariant   *)
(* of SocietyInvariants, which gives what is asked of it.  At the end what *)
(* is proved of a part is carried to the behaviours of Society that are    *)
(* about it.                                                               *)
(***************************************************************************)
EXTENDS SocietyInvariants, FiniteSetTheorems, TLAPS

-----------------------------------------------------------------------------
(* Membership: requests *)

\* What a request carries, by the step it is at.
Carries(r) ==
  /\ r.op \in {"idle", "own", "ask", "remove", "approve", "reject", "leave", "role",
               "cashier", "limit", "erase_rows", "erase_group"}
  /\ r.op = "idle" => r = Idle
  /\ r.op \in Changing \cup {"own", "ask"} => r.on \in User
  /\ r.op \in {"approve", "reject", "leave"} => r.id \in 0..MaxRows
  /\ r.op = "role" => r.role \in Assignable
  /\ r.op = "cashier" => r.on \in User \cup {Null}
  /\ r.op = "limit" => r.on \in Limits

LEMMA LimitNumbers == \A n \in Limits : n \in Nat /\ n # 0 /\ n \in Int
<1>1. Limits \subseteq Nat \ {0} BY MembershipAssumption
<1> QED BY <1>1

\* Every request carries what its step needs.
LEMMA RequestShape ==
  ASSUME NEW r \in Requests
  PROVE  Carries(r)
<1>1. CASE r \in {Idle} BY <1>1 DEF Carries, Idle, Changing
<1>2. CASE r \in [op : {"own", "ask", "remove"}, on : User] BY <1>2 DEF Carries, Changing
<1>3. CASE r \in [op : {"approve", "reject", "leave"}, on : User, id : 0..MaxRows]
  BY <1>3 DEF Carries, Changing
<1>4. CASE r \in [op : {"role"}, on : User, role : Assignable]
  BY <1>4 DEF Carries, Changing
<1>5. CASE r \in [op : {"cashier"}, on : User \cup {Null}] BY <1>5 DEF Carries, Changing
<1>6. CASE r \in [op : {"limit"}, on : Limits] BY <1>6 DEF Carries, Changing
<1>7. CASE r \in [op : {"erase_rows", "erase_group"}] BY <1>7 DEF Carries, Changing
<1> QED BY <1>1, <1>2, <1>3, <1>4, <1>5, <1>6, <1>7 DEF Requests

\* A record of each of the shapes is a request.
LEMMA RequestRecords ==
  /\ Idle \in Requests
  /\ \A op \in {"own", "ask", "remove"}, u \in User : [op |-> op, on |-> u] \in Requests
  /\ \A op \in {"approve", "reject", "leave"}, u \in User, n \in 0..MaxRows :
       [op |-> op, on |-> u, id |-> n] \in Requests
  /\ \A u \in User, role \in Assignable : [op |-> "role", on |-> u, role |-> role] \in Requests
  /\ \A c \in User \cup {Null} : [op |-> "cashier", on |-> c] \in Requests
  /\ \A n \in Limits : [op |-> "limit", on |-> n] \in Requests
  /\ \A op \in {"erase_rows", "erase_group"} : [op |-> op] \in Requests
<1>1. Idle \in Requests BY DEF Requests
<1>2. ASSUME NEW op \in {"own", "ask", "remove"}, NEW u \in User
      PROVE  [op |-> op, on |-> u] \in Requests
  BY DEF Requests
<1>3. ASSUME NEW op \in {"approve", "reject", "leave"}, NEW u \in User, NEW n \in 0..MaxRows
      PROVE  [op |-> op, on |-> u, id |-> n] \in Requests
  BY DEF Requests
<1>4. ASSUME NEW u \in User, NEW role \in Assignable
      PROVE  [op |-> "role", on |-> u, role |-> role] \in Requests
  BY DEF Requests
<1>5. ASSUME NEW c \in User \cup {Null} PROVE [op |-> "cashier", on |-> c] \in Requests
  BY DEF Requests
<1>6. ASSUME NEW n \in Limits PROVE [op |-> "limit", on |-> n] \in Requests
  BY DEF Requests
<1>7. ASSUME NEW op \in {"erase_rows", "erase_group"} PROVE [op |-> op] \in Requests
  BY DEF Requests
<1> QED BY <1>1, <1>2, <1>3, <1>4, <1>5, <1>6, <1>7

\* What a handler has made sure of when its request begins.
Accepted(r) ==
  /\ r \in Requests
  /\ r.op \notin {"idle", "own", "erase_group"}
  /\ group.phase # "none"
  /\ r.op \in Managing => Approved # {}
  /\ r.op = "ask" => Born(r.on)
  /\ r.op \in {"approve", "reject"} =>
       member[r.on].status = "pending" /\ r.id = member[r.on].id
  /\ r.op \in {"approve", "reject"} /\ "answers" \in Exclusive =>
       \A t \in InFlight({"approve", "reject"}) : request[t].on # r.on
  /\ r.op = "leave" => Exists(r.on)
  /\ r.op \in {"leave", "remove", "role"} => member[r.on].role # "owner"
  /\ r.op = "erase_rows" => Born(group.ownerId)
  /\ r.op = "approve" => ~(There /\ Full)
  /\ r.op = "approve" /\ "limit" \in Exclusive => InFlight({"limit"}) = {}
  /\ r.op = "limit" /\ "limit" \in Exclusive => InFlight({"approve"}) = {}

\* A request begins.
Beginning == \E s \in Slot : \E r \in Requests : Accepted(r) /\ Begin(s, r)

\* A request goes on.
Writing(s) ==
  \/ OwnerRow(s) \/ AskRow(s) \/ Answer(s) \/ LeaveRow(s) \/ RemoveRow(s)
  \/ RoleRow(s) \/ CashierField(s) \/ LimitField(s) \/ EraseRows(s) \/ EraseGroup(s)

\* Every step creates the group, begins a request its handler accepts, takes one
\* further, or is about the code.
LEMMA NextSteps ==
  ASSUME OwnerInv, Next
  PROVE  \/ \E s \in Slot, u \in User : Create(s, u)
         \/ Beginning
         \/ \E s \in Slot : Writing(s)
         \/ GetQr \/ CodeExpires
<1> USE DEF OwnerInv, Types, MembershipTypeOK
<1>r. \A u \in User : member[u].id \in 0..MaxRows /\ (member[u].status = "none" \/ Exists(u))
  BY DEF Exists
<1>n. group.phase = "none" => \A u \in User : ~Exists(u) /\ u \notin Approved
  BY DEF BeforeCreation, Exists, Approved, NoRow
<1>m. \A by \in User : MayManage(by) => Approved # {} /\ group.phase # "none"
  BY <1>n DEF MayManage
<1>1. ASSUME NEW s \in Slot, NEW u \in User, RequestToJoin(s, u) \/ JoinByCode(s, u)
      PROVE  Beginning
  <2> DEFINE r == [op |-> "ask", on |-> u]
  <2>1. Begin(s, r) /\ There /\ Born(u) BY <1>1 DEF RequestToJoin, JoinByCode, Ask
  <2>2. r \in Requests BY RequestRecords
  <2>3. Accepted(r) BY <2>1, <2>2 DEF Accepted, Managing, There
  <2> QED BY <2>1, <2>2, <2>3 DEF Beginning
<1>2. ASSUME NEW s \in Slot, NEW by \in User, NEW u \in User,
             NEW action \in {"approve", "reject"}, Respond(s, by, u, action)
      PROVE  Beginning
  <2> DEFINE r == [op |-> action, on |-> u, id |-> member[u].id]
  <2>1. /\ Begin(s, r) /\ MayManage(by) /\ AwaitsAnswer(u)
        /\ action = "approve" => ~(There /\ Full)
        /\ "answers" \in Exclusive =>
             \A t \in InFlight({"approve", "reject"}) : request[t].on # u
        /\ "limit" \in Exclusive => InFlight({"limit"}) = {}
    BY <1>2 DEF Respond
  <2>2. r \in Requests BY RequestRecords, <1>r
  <2>3. Approved # {} /\ group.phase # "none" BY <2>1, <1>m
  <2>4. Accepted(r) BY <2>1, <2>2, <2>3 DEF Accepted, AwaitsAnswer
  <2> QED BY <2>1, <2>2, <2>4 DEF Beginning
<1>3. ASSUME NEW s \in Slot, NEW u \in User, Leave(s, u)
      PROVE  Beginning
  <2> DEFINE r == [op |-> "leave", on |-> u, id |-> member[u].id]
  <2>1. Begin(s, r) /\ There /\ MayLeave(u) BY <1>3 DEF Leave
  <2>2. r \in Requests BY RequestRecords, <1>r
  <2>3. Accepted(r) BY <2>1, <2>2 DEF Accepted, Managing, There, MayLeave
  <2> QED BY <2>1, <2>2, <2>3 DEF Beginning
<1>4. ASSUME NEW s \in Slot, NEW by \in User, NEW u \in User, RemoveMember(s, by, u)
      PROVE  Beginning
  <2> DEFINE r == [op |-> "remove", on |-> u]
  <2>1. Begin(s, r) /\ MayManage(by) /\ member[u].role # "owner" BY <1>4 DEF RemoveMember
  <2>2. r \in Requests BY RequestRecords
  <2>3. Accepted(r) BY <2>1, <2>2, <1>m DEF Accepted
  <2> QED BY <2>1, <2>2, <2>3 DEF Beginning
<1>5. ASSUME NEW s \in Slot, NEW by \in User, NEW u \in User, NEW role \in Assignable,
             UpdateMemberRole(s, by, u, role)
      PROVE  Beginning
  <2> DEFINE r == [op |-> "role", on |-> u, role |-> role]
  <2>1. Begin(s, r) /\ MayManage(by) /\ member[u].role # "owner"
    BY <1>5 DEF UpdateMemberRole
  <2>2. r \in Requests BY RequestRecords
  <2>3. Accepted(r) BY <2>1, <2>2, <1>m DEF Accepted
  <2> QED BY <2>1, <2>2, <2>3 DEF Beginning
<1>6. ASSUME NEW s \in Slot, NEW c \in User \cup {Null}, SetCashier(s, c)
      PROVE  Beginning
  <2> DEFINE r == [op |-> "cashier", on |-> c]
  <2>1. Begin(s, r) /\ There BY <1>6 DEF SetCashier
  <2>2. r \in Requests BY RequestRecords
  <2>3. Accepted(r) BY <2>1, <2>2 DEF Accepted, Managing, There
  <2> QED BY <2>1, <2>2, <2>3 DEF Beginning
<1>7. ASSUME NEW s \in Slot, NEW by \in User, NEW n \in Limits, UpdateLimit(s, by, n)
      PROVE  Beginning
  <2> DEFINE r == [op |-> "limit", on |-> n]
  <2>1. /\ Begin(s, r) /\ MayManage(by)
        /\ "limit" \in Exclusive => InFlight({"approve"}) = {}
    BY <1>7 DEF UpdateLimit
  <2>2. r \in Requests BY RequestRecords
  <2>3. Accepted(r) BY <2>1, <2>2, <1>m DEF Accepted
  <2> QED BY <2>1, <2>2, <2>3 DEF Beginning
<1>8. ASSUME NEW s \in Slot, Remove(s)
      PROVE  Beginning
  <2> DEFINE r == [op |-> "erase_rows"]
  <2>1. Begin(s, r) /\ There /\ Born(group.ownerId) BY <1>8 DEF Remove
  <2>2. r \in Requests BY RequestRecords
  <2>3. Accepted(r) BY <2>1, <2>2 DEF Accepted, Managing, There
  <2> QED BY <2>1, <2>2, <2>3 DEF Beginning
<1> HIDE DEF Beginning, OwnerInv, Types, MembershipTypeOK
<1> QED BY <1>1, <1>2, <1>3, <1>4, <1>5, <1>6, <1>7, <1>8 DEF Next, Writing

-----------------------------------------------------------------------------
(* Membership: the owner's row *)

LEMMA InitOwner == Init => OwnerInv
<1> SUFFICES ASSUME Init PROVE OwnerInv OBVIOUS
<1> USE DEF Init
<1>1. Types
  <2>1. \A s \in Slot : Idle \in Requests BY RequestRecords
  <2>2. 0 \in 0..MaxRows BY MembershipAssumption
  <2> QED BY <2>1, <2>2 DEF Types, MembershipTypeOK, Phases, Roles, NoRow
<1>2. BeforeCreation /\ OwnerNamed BY DEF BeforeCreation, OwnerNamed
<1>3. \A s \in Slot : request[s].op = "idle" BY DEF Idle
<1>4. BeforeOwnerRow /\ IdsKnown BY <1>3 DEF BeforeOwnerRow, IdsKnown
<1>5. OwnerSafe BY DEF OwnerSafe, There
<1>6. OnlyTheOwner BY DEF OnlyTheOwner, NoRow
<1>7. AfterErasure BY <1>3 DEF AfterErasure, InFlight
<1> QED BY <1>1, <1>2, <1>4, <1>5, <1>6, <1>7 DEF OwnerInv

\* A request that begins disturbs nothing.
LEMMA BeginningKeepsOwner ==
  ASSUME "birth" \in Exclusive, OwnerInv, NEW s \in Slot, NEW r \in Requests,
         Accepted(r), Begin(s, r)
  PROVE  OwnerInv'
<1> USE DEF OwnerInv, Types
<1>1. /\ group' = group /\ member' = member
      /\ request[s].op = "idle"
      /\ \A t \in Slot : request'[t] = IF t = s THEN r ELSE request[t]
      /\ request' \in [Slot -> Requests]
  BY DEF Begin, store, Idle
<1>2. Carries(r) /\ \A t \in Slot : Carries(request[t]) /\ Carries(request'[t])
  BY <1>1, RequestShape
<1>3. Approved' = Approved /\ There' = There /\ \A u \in User : Exists(u)' = Exists(u)
  BY <1>1 DEF Approved, There, Exists
<1>4. Types' BY <1>1 DEF MembershipTypeOK
<1> HIDE DEF Types
<1>5. BeforeCreation' /\ OwnerNamed'
  BY <1>1 DEF BeforeCreation, OwnerNamed, Accepted
<1>6. BeforeOwnerRow'
  <2> SUFFICES ASSUME NEW x \in Slot, request'[x].op = "own"
               PROVE  /\ There /\ request'[x].on = group.ownerId
                      /\ Approved = {} /\ ~Exists(group.ownerId)
                      /\ \A t \in Slot :
                           /\ request'[t].op = "own" => t = x
                           /\ request'[t].op \notin Managing \cup {"erase_rows", "erase_group"}
                           /\ request'[t].op \in {"ask", "leave"} =>
                                request'[t].on # group.ownerId
    BY <1>1, <1>2, <1>3 DEF BeforeOwnerRow, Carries, Changing
  <2>1. x # s /\ request[x].op = "own" BY <1>1 DEF Accepted
  <2>2. /\ There /\ request[x].on = group.ownerId
        /\ Approved = {} /\ ~Exists(group.ownerId)
        /\ \A t \in Slot :
             /\ request[t].op = "own" => t = x
             /\ request[t].op \notin Managing \cup {"erase_rows", "erase_group"}
             /\ request[t].op \in {"ask", "leave"} => request[t].on # group.ownerId
    BY <2>1 DEF BeforeOwnerRow
  <2>3. /\ r.op \notin Managing \cup {"own", "erase_rows", "erase_group"}
        /\ r.op \in {"ask", "leave"} => r.on # group.ownerId
    <3>1. x \in InFlight({"own"}) BY <2>1 DEF InFlight
    <3> QED BY <2>2, <3>1 DEF Accepted, Born
  <2> QED BY <1>1, <2>1, <2>2, <2>3
<1>7. OwnerSafe'
  <2> SUFFICES ASSUME There, InFlight({"own", "erase_group"})' = {}
               PROVE  /\ member[group.ownerId].role = "owner"
                      /\ member[group.ownerId].status = "approved"
                      /\ \A t \in Slot : request'[t].op \in Changing =>
                            request'[t].on # group.ownerId
    BY <1>1, <1>3 DEF OwnerSafe
  <2>1. InFlight({"own", "erase_group"}) = {} BY <1>1 DEF InFlight
  <2> QED BY <1>1, <2>1 DEF OwnerSafe, Accepted, Changing
<1>8. OnlyTheOwner' BY <1>1 DEF OnlyTheOwner
<1>9. IdsKnown'
  <2>1. \A u \in User : member[u].id <= member[u].id
    <3>1. \A u \in User : member[u].id \in Int BY DEF Types, MembershipTypeOK
    <3> QED BY <3>1
  <2> QED BY <1>1, <1>2, <2>1 DEF IdsKnown, Accepted, Carries, Changing
<1>10. AfterErasure'
  <2> SUFFICES ASSUME group.phase = "deleted" \/ InFlight({"erase_group"})' # {}
               PROVE  /\ Approved = {} /\ InFlight({"own"})' = {}
                      /\ \A t \in Slot : request'[t].op = "approve" =>
                           \/ ~Exists(request'[t].on)
                           \/ request'[t].id < member[request'[t].on].id
    BY <1>1, <1>2, <1>3 DEF AfterErasure, Carries, Changing
  <2>1. group.phase = "deleted" \/ InFlight({"erase_group"}) # {}
    BY <1>1 DEF InFlight, Accepted
  <2> QED BY <1>1, <2>1 DEF AfterErasure, Accepted, InFlight, Managing
<1> QED BY <1>4, <1>5, <1>6, <1>7, <1>8, <1>9, <1>10

Row == [id : 0..MaxRows, role : Roles \cup {"none"}, status : {"none", "pending", "approved"}]

\* A request that ends by writing one row keeps the owner's: it leaves that row
\* alone, makes nobody the owner, and revives no row in a group that is erased.
LEMMA RowKeepsOwner ==
  ASSUME OwnerInv, NEW s \in Slot, group' = group, Finish(s),
         request[s].op \notin {"own", "erase_group"},
         NEW u \in User, NEW x \in Row, member' = [member EXCEPT ![u] = x],
         x.id >= member[u].id, x.role = "owner" => member[u].role = "owner",
         InFlight({"own"}) # {} => u # group.ownerId /\ x.status # "approved",
         There /\ InFlight({"own", "erase_group"}) = {} =>
           u # group.ownerId \/ x = member[u],
         group.phase = "deleted" \/ InFlight({"erase_group"}) # {} =>
           /\ x.status # "approved"
           /\ \/ x.status = "none" \/ x.id > member[u].id
              \/ x.status = member[u].status /\ x.id = member[u].id,
         group.phase # "none"
  PROVE  OwnerInv'
<1> USE DEF OwnerInv, Types
<1>1. /\ \A t \in Slot : request'[t] = IF t = s THEN Idle ELSE request[t]
      /\ request' \in [Slot -> Requests] /\ Idle.op = "idle"
      /\ \A v \in User : member'[v] = IF v = u THEN x ELSE member[v]
      /\ \A v \in User : member[v] \in Row
      /\ member' \in [User -> Row]
  BY RequestRecords DEF Finish, Idle, MembershipTypeOK, Row
<1>2. \A t \in Slot : Carries(request[t]) /\ Carries(request'[t]) BY <1>1, RequestShape
<1>3. /\ There' = There
      /\ \A v \in User : Exists(v)' <=> member'[v].status # "none"
      /\ \A v \in User : v \in Approved' <=> member'[v].status = "approved"
      /\ \A v \in User : v \in Approved <=> member[v].status = "approved"
      /\ Approved' \subseteq User /\ Approved \subseteq User
  BY DEF There, Exists, Approved
<1>4. Types' BY <1>1 DEF MembershipTypeOK, Row
<1> HIDE DEF Types
<1>5. BeforeCreation' /\ OwnerNamed' BY DEF BeforeCreation, OwnerNamed
<1>6. BeforeOwnerRow'
  <2> SUFFICES ASSUME NEW o \in Slot, request'[o].op = "own"
               PROVE  /\ There /\ request'[o].on = group.ownerId
                      /\ Approved' = {} /\ member'[group.ownerId].status = "none"
                      /\ \A t \in Slot :
                           /\ request'[t].op = "own" => t = o
                           /\ request'[t].op \notin Managing \cup {"erase_rows", "erase_group"}
                           /\ request'[t].op \in {"ask", "leave"} =>
                                request'[t].on # group.ownerId
    BY <1>3 DEF BeforeOwnerRow, Exists
  <2>1. o # s /\ request[o].op = "own" BY <1>1
  <2>2. /\ There /\ request[o].on = group.ownerId
        /\ Approved = {} /\ ~Exists(group.ownerId)
        /\ \A t \in Slot :
             /\ request[t].op = "own" => t = o
             /\ request[t].op \notin Managing \cup {"erase_rows", "erase_group"}
             /\ request[t].op \in {"ask", "leave"} => request[t].on # group.ownerId
    BY <2>1 DEF BeforeOwnerRow
  <2>3. u # group.ownerId /\ x.status # "approved" BY <2>1 DEF InFlight
  <2>4. Approved' = {} BY <1>1, <1>3, <2>2, <2>3
  <2>5. group.ownerId \in User BY <1>2, <2>1, <2>2 DEF Carries, Changing
  <2>6. member'[group.ownerId].status = "none" BY <1>1, <2>2, <2>3, <2>5 DEF Exists
  <2>7. "idle" \notin Managing BY DEF Managing
  <2> QED BY <1>1, <2>1, <2>2, <2>4, <2>6, <2>7
<1>7. OwnerSafe'
  <2> SUFFICES ASSUME There, InFlight({"own", "erase_group"})' = {}
               PROVE  /\ member'[group.ownerId].role = "owner"
                      /\ member'[group.ownerId].status = "approved"
                      /\ \A t \in Slot : request'[t].op \in Changing =>
                            request'[t].on # group.ownerId
    BY <1>3 DEF OwnerSafe
  <2>1. InFlight({"own", "erase_group"}) = {} BY <1>1 DEF InFlight
  <2>2. member'[group.ownerId] = member[group.ownerId]
    BY <1>1, <2>1 DEF OwnerNamed, There
  <2>3. "idle" \notin Changing BY DEF Changing
  <2> QED BY <1>1, <2>1, <2>2, <2>3 DEF OwnerSafe
<1>8. OnlyTheOwner' BY <1>1 DEF OnlyTheOwner
<1>9. IdsKnown'
  <2> SUFFICES ASSUME NEW t \in Slot, request'[t].op \in {"approve", "reject"}
               PROVE  request'[t].id <= member'[request'[t].on].id
    BY DEF IdsKnown
  <2>1. request'[t] = request[t] BY <1>1
  <2>2. request[t].on \in User /\ request[t].id \in 0..MaxRows
    BY <1>2, <2>1 DEF Carries, Changing
  <2>3. request[t].id <= member[request[t].on].id BY <2>1 DEF IdsKnown
  <2>4. \A v \in User : member[v].id \in Int /\ member'[v].id \in Int BY <1>1 DEF Row
  <2>5. member[request[t].on].id <= member'[request[t].on].id BY <1>1, <2>2, <2>4
  <2> QED BY <2>1, <2>2, <2>3, <2>4, <2>5
<1>10. AfterErasure'
  <2> SUFFICES ASSUME group.phase = "deleted" \/ InFlight({"erase_group"})' # {}
               PROVE  /\ Approved' = {} /\ InFlight({"own"})' = {}
                      /\ \A t \in Slot : request'[t].op = "approve" =>
                           \/ member'[request'[t].on].status = "none"
                           \/ request'[t].id < member'[request'[t].on].id
    BY <1>1, <1>2, <1>3 DEF AfterErasure, Carries, Changing, Exists
  <2>1. group.phase = "deleted" \/ InFlight({"erase_group"}) # {} BY <1>1 DEF InFlight
  <2>2. /\ Approved = {} /\ InFlight({"own"}) = {}
        /\ \A t \in Slot : request[t].op = "approve" =>
             \/ ~Exists(request[t].on) \/ request[t].id < member[request[t].on].id
    BY <2>1 DEF AfterErasure
  <2>3. Approved' = {} BY <1>1, <1>3, <2>1, <2>2
  <2>4. InFlight({"own"})' = {} BY <1>1, <2>2 DEF InFlight
  <2>5. ASSUME NEW t \in Slot, request'[t].op = "approve"
        PROVE  \/ member'[request'[t].on].status = "none"
               \/ request'[t].id < member'[request'[t].on].id
    <3> DEFINE v == request[t].on
    <3>1. request'[t] = request[t] BY <1>1, <2>5
    <3>2. v \in User /\ request[t].id \in Int BY <1>2, <2>5, <3>1 DEF Carries, Changing
    <3>3. request[t].id <= member[v].id BY <2>5, <3>1 DEF IdsKnown
    <3>4. member[v].status = "none" \/ request[t].id < member[v].id
      BY <2>2, <2>5, <3>1 DEF Exists
    <3>5. member[v].id \in Int /\ member'[v].id \in Int BY <1>1, <3>2 DEF Row
    <3>6. member'[v].status = "none" \/ request[t].id < member'[v].id
      <4> HIDE DEF v
      <4>1. CASE v = u
        <5>1. member'[v] = x BY <1>1, <3>2, <4>1
        <5>2. \/ x.status = "none" \/ x.id > member[v].id
              \/ x.status = member[v].status /\ x.id = member[v].id
          BY <2>1, <4>1
        <5>3. x.id \in Int BY <3>5, <5>1
        <5> QED BY <3>2, <3>3, <3>4, <3>5, <5>1, <5>2, <5>3
      <4>2. CASE v # u BY <1>1, <3>2, <3>4, <4>2
      <4> QED BY <4>1, <4>2
    <3> QED BY <3>1, <3>6
  <2> QED BY <2>3, <2>4, <2>5
<1> QED BY <1>4, <1>5, <1>6, <1>7, <1>8, <1>9, <1>10

\* What the writes of one row are, by the request that makes them: a row for a
\* question, an answer, a departure, a removal, a role.
RowWritten(s) == AskRow(s) \/ Answer(s) \/ LeaveRow(s) \/ RemoveRow(s) \/ RoleRow(s)

\* The row u has after a request s about it: a new one that waits, the same with
\* another role, none, or the one its answer finds.
Written(s, u, x) ==
  /\ request[s].op \in {"ask", "approve", "reject", "leave", "remove", "role"}
  /\ request[s].on = u
  /\ \/ x = member[u]
     \/ /\ request[s].op = "ask" /\ ~Exists(u)
        /\ x.id > member[u].id /\ x.status = "pending" /\ x.role = "member"
     \/ /\ request[s].op = "approve" /\ Exists(u) /\ member[u].id = request[s].id
        /\ x.id = member[u].id /\ x.role = member[u].role /\ x.status = "approved"
     \/ /\ request[s].op \in {"reject", "leave", "remove"}
        /\ x.id = member[u].id /\ x.status = "none" /\ x.role = "none"
        /\ request[s].op = "reject" => Exists(u) /\ member[u].id = request[s].id
     \/ /\ request[s].op = "role"
        /\ x.id = member[u].id /\ x.status = member[u].status /\ x.role \in Assignable

LEMMA RowsWritten ==
  ASSUME Types, NEW s \in Slot, RowWritten(s)
  PROVE  /\ group' = group /\ Finish(s)
         /\ \E u \in User, x \in Row : member' = [member EXCEPT ![u] = x] /\ Written(s, u, x)
<1> DEFINE r == request[s]
           u == r.on
<1>1. r.op \in {"ask", "approve", "reject", "leave", "remove", "role"} /\ Carries(r)
  BY RequestShape DEF Types, RowWritten, AskRow, Answer, LeaveRow, RemoveRow, RoleRow, At
<1>2. group' = group /\ Finish(s)
  BY DEF RowWritten, AskRow, Answer, LeaveRow, RemoveRow, RoleRow
<1>3. u \in User /\ member \in [User -> Row]
  BY <1>1 DEF Carries, Changing, Types, MembershipTypeOK, Row
<1>4. member[u] \in Row /\ member = [member EXCEPT ![u] = member[u]] BY <1>3
<1>same. ASSUME member' = member
         PROVE  \E x \in Row : member' = [member EXCEPT ![u] = x] /\ Written(s, u, x)
  BY <1>same, <1>1, <1>4 DEF Written
<1>5. CASE AskRow(s)
  <2>1. r.op = "ask" /\ CreateRow(u, "member", "pending") BY <1>5 DEF AskRow, At
  <2>2. CASE Exists(u) BY <2>1, <2>2, <1>2, <1>3, <1>same DEF CreateRow
  <2>3. CASE ~Exists(u)
    <3> DEFINE x == [id |-> member[u].id + 1, role |-> "member", status |-> "pending"]
    <3>1. member' = [member EXCEPT ![u] = x] /\ member[u].id < MaxRows
      BY <2>1, <2>3, <1>3 DEF CreateRow
    <3>2. member[u].id \in 0..MaxRows BY <1>4 DEF Row
    <3>3. x \in Row BY <3>1, <3>2, MembershipAssumption DEF Row, Roles
    <3>4. x.id > member[u].id /\ x.status = "pending" /\ x.role = "member" BY <3>2
    <3>5. Written(s, u, x) BY <2>1, <2>3, <3>4 DEF Written
    <3> QED BY <1>2, <1>3, <3>1, <3>3, <3>5
  <2> QED BY <2>2, <2>3, <1>2, <1>3
<1>6. CASE Answer(s)
  <2>1. /\ r.op \in {"approve", "reject"}
        /\ member' = IF ~(Exists(u) /\ member[u].id = r.id) THEN member
                     ELSE IF r.op = "reject" THEN [member EXCEPT ![u] = NoRow(r.id)]
                     ELSE [member EXCEPT ![u].status = "approved"]
    BY <1>6 DEF Answer
  <2>2. CASE ~(Exists(u) /\ member[u].id = r.id) BY <2>1, <2>2, <1>2, <1>3, <1>same
  <2>3. CASE Exists(u) /\ member[u].id = r.id /\ r.op = "reject"
    <3> DEFINE x == NoRow(r.id)
    <3>1. member' = [member EXCEPT ![u] = x] BY <2>1, <2>3
    <3>2. x.id = member[u].id /\ x.status = "none" /\ x.role = "none" BY <2>3 DEF NoRow
    <3>3. x \in Row BY <1>4, <2>3 DEF Row, NoRow
    <3>4. Written(s, u, x) BY <2>3, <3>2 DEF Written
    <3> QED BY <1>2, <1>3, <3>1, <3>3, <3>4
  <2>4. CASE Exists(u) /\ member[u].id = r.id /\ r.op # "reject"
    <3> DEFINE x == [member[u] EXCEPT !.status = "approved"]
    <3>1. member' = [member EXCEPT ![u] = x] BY <2>1, <2>4
    <3>2. x \in Row /\ x.id = member[u].id /\ x.status = "approved" /\ x.role = member[u].role
      BY <1>4 DEF Row
    <3> HIDE DEF x
    <3>3. Written(s, u, x) BY <2>1, <2>4, <3>2 DEF Written
    <3> QED BY <1>2, <1>3, <3>1, <3>2, <3>3
  <2> QED BY <2>2, <2>3, <2>4
<1>7. CASE LeaveRow(s)
  <2>1. /\ r.op = "leave"
        /\ member' = IF member[u].id = r.id THEN [member EXCEPT ![u] = NoRow(r.id)]
                     ELSE member
    BY <1>7 DEF LeaveRow, At
  <2>2. CASE member[u].id # r.id BY <2>1, <2>2, <1>2, <1>3, <1>same
  <2>3. CASE member[u].id = r.id
    <3> DEFINE x == NoRow(r.id)
    <3>1. member' = [member EXCEPT ![u] = x] BY <2>1, <2>3
    <3>2. x.id = member[u].id /\ x.status = "none" /\ x.role = "none" BY <2>3 DEF NoRow
    <3>3. x \in Row BY <1>4, <2>3 DEF Row, NoRow
    <3>4. Written(s, u, x) BY <2>1, <3>2 DEF Written
    <3> QED BY <1>2, <1>3, <3>1, <3>3, <3>4
  <2> QED BY <2>2, <2>3
<1>8. CASE RemoveRow(s)
  <2>1. r.op = "remove" /\ member' = [member EXCEPT ![u] = NoRow(@.id)]
    BY <1>8 DEF RemoveRow, At
  <2> DEFINE x == NoRow(member[u].id)
  <2>2. member' = [member EXCEPT ![u] = x] BY <2>1
  <2>3. x.id = member[u].id /\ x.status = "none" /\ x.role = "none" BY DEF NoRow
  <2>4. x \in Row BY <1>4 DEF Row, NoRow
  <2>5. Written(s, u, x) BY <2>1, <2>3 DEF Written
  <2> QED BY <1>2, <1>3, <2>2, <2>4, <2>5
<1>9. CASE RoleRow(s)
  <2>1. /\ r.op = "role"
        /\ member' = IF Exists(u) THEN [member EXCEPT ![u].role = r.role] ELSE member
    BY <1>9 DEF RoleRow, At
  <2>2. CASE ~Exists(u) BY <2>1, <2>2, <1>2, <1>3, <1>same
  <2>3. CASE Exists(u)
    <3> DEFINE x == [member[u] EXCEPT !.role = r.role]
    <3>1. member' = [member EXCEPT ![u] = x] BY <2>1, <2>3
    <3>2. r.role \in Assignable BY <1>1, <2>1 DEF Carries
    <3>3. x \in Row /\ x.id = member[u].id /\ x.status = member[u].status /\ x.role = r.role
      BY <1>4, <3>2 DEF Row, Assignable
    <3> HIDE DEF x
    <3>4. Written(s, u, x) BY <2>1, <3>2, <3>3 DEF Written
    <3> QED BY <1>2, <1>3, <3>1, <3>3, <3>4
  <2> QED BY <2>2, <2>3
<1> QED BY <1>2, <1>3, <1>5, <1>6, <1>7, <1>8, <1>9 DEF RowWritten

\* A written row is nobody's who owns the group, and revives none after erasure.
LEMMA RowsKeepOwner ==
  ASSUME "birth" \in Exclusive, OwnerInv, NEW s \in Slot, RowWritten(s)
  PROVE  OwnerInv'
<1> USE DEF OwnerInv
<1>1. group' = group /\ Finish(s) BY RowsWritten
<1>2. PICK u \in User, x \in Row : member' = [member EXCEPT ![u] = x] /\ Written(s, u, x)
  BY RowsWritten
<1>3. /\ request[s].op \in {"ask", "approve", "reject", "leave", "remove", "role"}
      /\ request[s].on = u /\ request[s] # Idle
  BY <1>2 DEF Written, Idle
<1>4. member[u] \in Row /\ member[u].id \in Int /\ x.id \in Int
  BY DEF Types, MembershipTypeOK, Row
<1>5. x.id >= member[u].id /\ (x.role = "owner" => member[u].role = "owner")
  BY <1>2, <1>4 DEF Written, Assignable
<1>6. group.phase # "none" BY <1>3 DEF BeforeCreation
<1>7. ASSUME InFlight({"own"}) # {} PROVE u # group.ownerId /\ x.status # "approved"
  <2>1. PICK o \in Slot : request[o].op = "own" BY <1>7 DEF InFlight
  <2>2. /\ request[s].op \notin Managing /\ Approved = {}
        /\ request[s].op \in {"ask", "leave"} => request[s].on # group.ownerId
    BY <2>1 DEF BeforeOwnerRow
  <2>3. request[s].op \in {"ask", "leave"} BY <1>3, <2>2 DEF Managing
  <2>4. member[u].status # "approved" BY <2>2 DEF Approved
  <2> QED BY <1>2, <1>3, <2>2, <2>3, <2>4 DEF Written
<1>8. ASSUME There, InFlight({"own", "erase_group"}) = {}
      PROVE  u # group.ownerId \/ x = member[u]
  <2> SUFFICES ASSUME u = group.ownerId PROVE x = member[u] OBVIOUS
  <2>1. /\ request[s].op \notin Changing
        /\ member[u].status = "approved"
    BY <1>3, <1>8 DEF OwnerSafe
  <2>2. request[s].op = "ask" BY <1>3, <2>1 DEF Changing
  <2>3. Exists(u) BY <2>1 DEF Exists
  <2> QED BY <1>2, <2>2, <2>3 DEF Written
<1>9. ASSUME group.phase = "deleted" \/ InFlight({"erase_group"}) # {}
      PROVE  /\ x.status # "approved"
             /\ \/ x.status = "none" \/ x.id > member[u].id
                \/ x.status = member[u].status /\ x.id = member[u].id
  <2>1. /\ Approved = {}
        /\ request[s].op = "approve" =>
             ~Exists(request[s].on) \/ request[s].id < member[request[s].on].id
    BY <1>9 DEF AfterErasure
  <2>2. member[u].status # "approved" BY <2>1 DEF Approved
  <2>3. ~(request[s].op = "approve" /\ Exists(u) /\ member[u].id = request[s].id)
    BY <1>3, <1>4, <2>1
  <2> QED BY <1>2, <2>2, <2>3 DEF Written
<1> HIDE DEF OwnerInv
<1> QED BY <1>1, <1>2, <1>3, <1>5, <1>6, <1>7, <1>8, <1>9, RowKeepsOwner

\* Creating the group: nobody asks about the owner yet.
LEMMA CreateKeepsOwner ==
  ASSUME OwnerInv, NEW s \in Slot, NEW u \in User, Create(s, u)
  PROVE  OwnerInv'
<1> USE DEF OwnerInv
<1> DEFINE r == [op |-> "own", on |-> u]
<1>1. PICK n \in Limits :
        group' = [group EXCEPT !.phase = "there", !.ownerId = u, !.maxPlayers = n]
  BY DEF Create
<1>2. /\ group.phase = "none" /\ member' = member /\ request' = [request EXCEPT ![s] = r]
      /\ \A t \in Slot : request[t] = Idle
      /\ \A v \in User : member[v] = NoRow(0)
  BY DEF Create, BeforeCreation
<1>3. /\ group'.phase = "there" /\ group'.ownerId = u /\ group'.maxPlayers = n
      /\ group' \in [phase : Phases, ownerId : User \cup {Null}, cashierId : User \cup {Null},
                     maxPlayers : Limits \cup {0}, code : {"none", "valid"}]
  BY <1>1 DEF Types, MembershipTypeOK, Phases
<1>4. \A t \in Slot : request'[t] = IF t = s THEN r ELSE Idle BY <1>2 DEF Types
<1>5. r \in Requests /\ Idle \in Requests /\ r.op = "own" /\ r.on = u /\ Idle.op = "idle"
  BY RequestRecords DEF Idle
<1> HIDE DEF r
<1>6. Types' BY <1>2, <1>3, <1>4, <1>5 DEF Types, MembershipTypeOK
<1>7. BeforeCreation' /\ OwnerNamed' BY <1>3 DEF BeforeCreation, OwnerNamed
<1>8. \A v \in User : member'[v].status = "none" /\ member'[v].role = "none"
  BY <1>2 DEF NoRow
<1>9. Approved' = {} BY <1>8 DEF Approved
<1>10. BeforeOwnerRow'
  BY <1>3, <1>4, <1>5, <1>8, <1>9 DEF BeforeOwnerRow, There, Exists, Managing
<1>11. OwnerSafe'
  <2>1. s \in InFlight({"own", "erase_group"})' BY <1>4, <1>5 DEF InFlight
  <2> QED BY <2>1 DEF OwnerSafe
<1>12. OnlyTheOwner' BY <1>8 DEF OnlyTheOwner
<1>13. IdsKnown' BY <1>4, <1>5 DEF IdsKnown
<1>14. AfterErasure' BY <1>3, <1>4, <1>5 DEF AfterErasure, InFlight
<1> QED BY <1>6, <1>7, <1>10, <1>11, <1>12, <1>13, <1>14

\* Making the owner's row: it is new, and no request in flight is about them.
LEMMA OwnerRowKeepsOwner ==
  ASSUME OwnerInv, NEW s \in Slot, OwnerRow(s)
  PROVE  OwnerInv'
<1> USE DEF OwnerInv
<1> DEFINE o == group.ownerId
           x == [id |-> member[o].id + 1, role |-> "owner", status |-> "approved"]
<1>1. request[s].op = "own" /\ CreateRow(request[s].on, "owner", "approved")
      /\ Finish(s) /\ group' = group
  BY DEF OwnerRow, At
<1>2. /\ There /\ request[s].on = o /\ Approved = {} /\ ~Exists(o)
      /\ \A t \in Slot :
           /\ request[t].op = "own" => t = s
           /\ request[t].op \notin Managing \cup {"erase_rows", "erase_group"}
           /\ request[t].op \in {"ask", "leave"} => request[t].on # o
  BY <1>1 DEF BeforeOwnerRow
<1>3. o \in User BY <1>2 DEF OwnerNamed, There
<1>4. member[o].id < MaxRows /\ member' = [member EXCEPT ![o] = x]
  BY <1>1, <1>2 DEF CreateRow
<1>5. \A v \in User : member[v] \in Row BY DEF Types, MembershipTypeOK, Row
<1>6. x \in Row
  <2>1. member[o].id \in 0..MaxRows BY <1>3, <1>5 DEF Row
  <2> QED BY <1>4, <2>1, MembershipAssumption DEF Row, Roles
<1>7. x.role = "owner" /\ x.status = "approved" OBVIOUS
<1> HIDE DEF x
<1>8. \A v \in User : member'[v] = IF v = o THEN x ELSE member[v]
  BY <1>4 DEF Types, MembershipTypeOK
<1>9. /\ \A t \in Slot : request'[t] = IF t = s THEN Idle ELSE request[t]
      /\ Idle \in Requests /\ Idle.op = "idle"
  BY <1>1, RequestRecords DEF Finish, Types, Idle
<1>10. Types'
  <2>1. member' \in [User -> Row] BY <1>4, <1>6 DEF Types, MembershipTypeOK, Row
  <2>2. request' \in [Slot -> Requests] BY <1>1, <1>9 DEF Finish, Types
  <2> QED BY <1>1, <2>1, <2>2 DEF Types, MembershipTypeOK, Row
<1>11. BeforeCreation' /\ OwnerNamed' BY <1>1, <1>2 DEF BeforeCreation, OwnerNamed, There
<1>12. \A t \in Slot : request'[t].op \notin Managing \cup {"own", "erase_rows", "erase_group"}
  BY <1>2, <1>9 DEF Managing
<1>13. BeforeOwnerRow' BY <1>12 DEF BeforeOwnerRow
<1>14. OwnerSafe'
  <2>1. member'[o].role = "owner" /\ member'[o].status = "approved" BY <1>3, <1>7, <1>8
  <2>2. \A t \in Slot : request'[t].op \in Changing => request'[t].on # o
    BY <1>2, <1>9, <1>12 DEF Managing, Changing
  <2> QED BY <1>1, <2>1, <2>2 DEF OwnerSafe
<1>15. OnlyTheOwner' BY <1>1, <1>8 DEF OnlyTheOwner
<1>16. IdsKnown' BY <1>12 DEF IdsKnown, Managing
<1>17. AfterErasure'
  <2>1. group'.phase # "deleted" BY <1>1, <1>2 DEF There
  <2>2. InFlight({"erase_group"})' = {} BY <1>12 DEF InFlight
  <2> QED BY <2>1, <2>2 DEF AfterErasure
<1> QED BY <1>10, <1>11, <1>13, <1>14, <1>15, <1>16, <1>17

\* Requests about the group's own fields, and its code.
LEMMA FieldsKeepOwner ==
  ASSUME OwnerInv,
         \/ \E s \in Slot : CashierField(s) \/ LimitField(s)
         \/ GetQr \/ CodeExpires
  PROVE  OwnerInv'
<1> USE DEF OwnerInv
<1>1. /\ member' = member /\ group'.phase = group.phase /\ group'.ownerId = group.ownerId
      /\ group' \in [phase : Phases, ownerId : User \cup {Null}, cashierId : User \cup {Null},
                     maxPlayers : Limits \cup {0}, code : {"none", "valid"}]
      /\ group.phase # "none" => group'.maxPlayers \in Limits
  <2>1. ASSUME NEW s \in Slot, CashierField(s) PROVE <1>1!:
    <3>1. /\ request[s].op = "cashier" /\ member' = member
          /\ group' = IF There THEN [group EXCEPT !.cashierId = request[s].on] ELSE group
      BY <2>1 DEF CashierField, At
    <3>2. request[s].on \in User \cup {Null} BY <3>1, RequestShape DEF Carries, Types
    <3> QED BY <3>1, <3>2 DEF Types, MembershipTypeOK, OwnerNamed
  <2>2. ASSUME NEW s \in Slot, LimitField(s) PROVE <1>1!:
    <3>1. /\ request[s].op = "limit" /\ member' = member
          /\ group' = IF There THEN [group EXCEPT !.maxPlayers = request[s].on] ELSE group
      BY <2>2 DEF LimitField, At
    <3>2. request[s].on \in Limits BY <3>1, RequestShape DEF Carries, Types
    <3> QED BY <3>1, <3>2 DEF Types, MembershipTypeOK, OwnerNamed
  <2>3. CASE GetQr \/ CodeExpires
    BY <2>3 DEF GetQr, CodeExpires, Types, MembershipTypeOK, OwnerNamed
  <2> QED BY <2>1, <2>2, <2>3
<1>2. \A t \in Slot :
        \/ request'[t] = request[t]
        \/ request'[t] = Idle /\ request[t].op \in {"cashier", "limit"}
  BY DEF CashierField, LimitField, GetQr, CodeExpires, Finish, At, Types
<1>3. Idle \in Requests /\ Idle.op = "idle" BY RequestRecords DEF Idle
<1>4. request' \in [Slot -> Requests]
  BY <1>3 DEF CashierField, LimitField, GetQr, CodeExpires, Finish, Types
<1>5. /\ There' = There /\ Approved' = Approved
      /\ \A u \in User : member'[u] = member[u]
  BY <1>1 DEF There, Approved
<1>6. \A t \in Slot : Carries(request[t]) /\ Carries(request'[t]) BY <1>4, RequestShape DEF Types
<1>7. /\ InFlight({"own"})' = InFlight({"own"})
      /\ InFlight({"erase_group"})' = InFlight({"erase_group"})
      /\ InFlight({"own", "erase_group"})' = InFlight({"own", "erase_group"})
  BY <1>2, <1>3 DEF InFlight
<1>8. Types' BY <1>1, <1>4 DEF Types, MembershipTypeOK
<1>9. BeforeCreation' /\ OwnerNamed'
  <2>1. group.phase = "none" => \A t \in Slot : request'[t] = Idle
    BY <1>2 DEF BeforeCreation
  <2> QED BY <1>1, <2>1 DEF BeforeCreation, OwnerNamed
<1>10. BeforeOwnerRow'
  <2> SUFFICES ASSUME NEW s \in Slot, request'[s].op = "own"
               PROVE  /\ There /\ request'[s].on = group.ownerId
                      /\ Approved = {} /\ member[group.ownerId].status = "none"
                      /\ \A t \in Slot :
                           /\ request'[t].op = "own" => t = s
                           /\ request'[t].op \notin Managing \cup {"erase_rows", "erase_group"}
                           /\ request'[t].op \in {"ask", "leave"} =>
                                request'[t].on # group.ownerId
    BY <1>1, <1>5 DEF BeforeOwnerRow, Exists
  <2>1. request[s].op = "own" /\ request'[s] = request[s] BY <1>2, <1>3
  <2> QED BY <1>2, <1>3, <2>1 DEF BeforeOwnerRow, Exists, Managing
<1>11. OwnerSafe'
  <2>1. \A t \in Slot : request'[t].op \in Changing => request'[t] = request[t]
    BY <1>2, <1>3 DEF Changing
  <2> QED BY <1>1, <1>5, <1>7, <2>1 DEF OwnerSafe
<1>12. OnlyTheOwner' BY <1>1 DEF OnlyTheOwner
<1>13. IdsKnown'
  <2>1. \A t \in Slot : request'[t].op \in {"approve", "reject"} => request'[t] = request[t]
    BY <1>2, <1>3
  <2> QED BY <1>1, <2>1 DEF IdsKnown
<1>14. AfterErasure'
  <2>1. \A t \in Slot : request'[t].op = "approve" => request'[t] = request[t]
    BY <1>2, <1>3
  <2> QED BY <1>1, <1>5, <1>7, <2>1 DEF AfterErasure, Exists
<1> QED BY <1>8, <1>9, <1>10, <1>11, <1>12, <1>13, <1>14

\* Deleting the group: its rows go first, and nothing is approved after them.
LEMMA ErasureKeepsOwner ==
  ASSUME OwnerInv, NEW s \in Slot, EraseRows(s) \/ EraseGroup(s)
  PROVE  OwnerInv'
<1> USE DEF OwnerInv
<1> DEFINE gone == [op |-> "erase_group"]
<1>1. request[s].op \in {"erase_rows", "erase_group"}
  BY DEF EraseRows, EraseGroup, At
<1>2. request[s] = [op |-> request[s].op]
  <2>1. request[s] \in Requests BY DEF Types
  <2> QED BY <1>1, <2>1 DEF Requests, Idle
<1>3. Idle \in Requests /\ Idle.op = "idle" /\ gone \in Requests /\ gone.op = "erase_group"
  BY RequestRecords DEF Idle
<1>4. group.phase # "none" BY <1>1, <1>3 DEF BeforeCreation
<1>5. \A t \in Slot : request[t].op # "own" BY <1>1 DEF BeforeOwnerRow
<1>6. \A v \in User : member[v] \in Row /\ member[v].id \in 0..MaxRows
  BY DEF Types, MembershipTypeOK, Row
<1>7. CASE EraseRows(s)
  <2>1. /\ group' = group /\ request' = [request EXCEPT ![s].op = "erase_group"]
        /\ member' = [u \in User |-> NoRow(member[u].id)]
    BY <1>7 DEF EraseRows
  <2>2. /\ \A t \in Slot : request'[t] = IF t = s THEN gone ELSE request[t]
        /\ request' \in [Slot -> Requests]
    BY <1>2, <1>3, <2>1 DEF Types
  <2>3. \A v \in User : /\ member'[v] = NoRow(member[v].id) /\ member'[v].id = member[v].id
                        /\ member'[v].status = "none" /\ member'[v].role = "none"
    BY <2>1 DEF NoRow
  <2> HIDE DEF gone
  <2>4. Types'
    <3>1. member' \in [User -> Row] BY <1>6, <2>1 DEF NoRow, Row
    <3> QED BY <2>1, <2>2, <3>1 DEF Types, MembershipTypeOK, Row
  <2>5. BeforeCreation' /\ OwnerNamed' BY <1>4, <2>1 DEF BeforeCreation, OwnerNamed
  <2>6. \A t \in Slot : request'[t].op # "own" BY <1>3, <1>5, <2>2
  <2>7. BeforeOwnerRow' BY <2>6 DEF BeforeOwnerRow
  <2>8. s \in InFlight({"erase_group"})' /\ s \in InFlight({"own", "erase_group"})'
    BY <1>3, <2>2 DEF InFlight
  <2>9. OwnerSafe' BY <2>8 DEF OwnerSafe
  <2>10. OnlyTheOwner' BY <2>3 DEF OnlyTheOwner
  <2>11. IdsKnown'
    <3> SUFFICES ASSUME NEW t \in Slot, request'[t].op \in {"approve", "reject"}
                 PROVE  request'[t].id <= member'[request'[t].on].id
      BY DEF IdsKnown
    <3>1. request'[t] = request[t] BY <1>3, <2>2
    <3>2. request[t].on \in User BY <3>1, RequestShape DEF Carries, Changing, Types
    <3> QED BY <2>3, <3>1, <3>2 DEF IdsKnown
  <2>12. AfterErasure'
    <3>1. Approved' = {} BY <2>3 DEF Approved
    <3>2. InFlight({"own"})' = {} BY <2>6 DEF InFlight
    <3>3. ASSUME NEW t \in Slot, request'[t].op = "approve"
          PROVE  member'[request'[t].on].status = "none"
      <4>1. request'[t].on \in User BY <2>2, <3>3, RequestShape DEF Carries, Changing
      <4> QED BY <2>3, <4>1
    <3> QED BY <3>1, <3>2, <3>3 DEF AfterErasure, Exists
  <2> QED BY <2>4, <2>5, <2>7, <2>9, <2>10, <2>11, <2>12
<1>8. CASE EraseGroup(s)
  <2>1. /\ request[s].op = "erase_group" /\ Finish(s) /\ member' = member
        /\ group' = [group EXCEPT !.phase = "deleted", !.cashierId = Null, !.code = "none"]
    BY <1>8 DEF EraseGroup, At
  <2>2. /\ \A t \in Slot : request'[t] = IF t = s THEN Idle ELSE request[t]
        /\ request' \in [Slot -> Requests]
    BY <1>3, <2>1 DEF Finish, Types
  <2>3. /\ group'.phase = "deleted" /\ group'.ownerId = group.ownerId
        /\ group'.maxPlayers = group.maxPlayers
        /\ group' \in [phase : Phases, ownerId : User \cup {Null}, cashierId : User \cup {Null},
                       maxPlayers : Limits \cup {0}, code : {"none", "valid"}]
    BY <2>1 DEF Types, MembershipTypeOK, Phases
  <2>4. Types' BY <2>1, <2>2, <2>3 DEF Types, MembershipTypeOK
  <2>5. BeforeCreation' /\ OwnerNamed' BY <1>4, <2>3 DEF BeforeCreation, OwnerNamed
  <2>6. \A t \in Slot : request'[t].op # "own" BY <1>3, <1>5, <2>2
  <2>7. BeforeOwnerRow' BY <2>6 DEF BeforeOwnerRow
  <2>8. OwnerSafe' BY <2>3 DEF OwnerSafe, There
  <2>9. OnlyTheOwner' BY <2>1, <2>3 DEF OnlyTheOwner
  <2>10. IdsKnown'
    <3>1. \A t \in Slot : request'[t].op \in {"approve", "reject"} => request'[t] = request[t]
      BY <1>3, <2>2
    <3> QED BY <2>1, <3>1 DEF IdsKnown
  <2>11. AfterErasure'
    <3>1. s \in InFlight({"erase_group"}) BY <2>1 DEF InFlight
    <3>2. \A t \in Slot : request'[t].op = "approve" => request'[t] = request[t]
      BY <1>3, <2>2
    <3>3. Approved' = Approved BY <2>1 DEF Approved
    <3>4. InFlight({"own"})' = {} BY <2>6 DEF InFlight
    <3> QED BY <2>1, <3>1, <3>2, <3>3, <3>4 DEF AfterErasure, Exists
  <2> QED BY <2>4, <2>5, <2>7, <2>8, <2>9, <2>10, <2>11
<1> QED BY <1>7, <1>8

LEMMA StepKeepsOwner ==
  ASSUME "birth" \in Exclusive, OwnerInv, Next
  PROVE  OwnerInv'
<1>1. ASSUME Beginning PROVE OwnerInv'
  <2>1. PICK s \in Slot, r \in Requests : Accepted(r) /\ Begin(s, r) BY <1>1 DEF Beginning
  <2> QED BY <2>1, BeginningKeepsOwner
<1>2. ASSUME NEW s \in Slot, Writing(s) PROVE OwnerInv'
  BY <1>2, OwnerRowKeepsOwner, RowsKeepOwner, FieldsKeepOwner, ErasureKeepsOwner
  DEF Writing, RowWritten
<1> QED BY <1>1, <1>2, NextSteps, CreateKeepsOwner, FieldsKeepOwner

\* What is unchanged keeps what is said of it.
LEMMA OwnerStutter == OwnerInv /\ UNCHANGED vars => OwnerInv'
<1> SUFFICES ASSUME OwnerInv, UNCHANGED vars PROVE OwnerInv' OBVIOUS
<1>1. group' = group /\ member' = member /\ request' = request BY DEF vars, store
<1> QED
  BY <1>1 DEF OwnerInv, Types, MembershipTypeOK, BeforeCreation, OwnerNamed, BeforeOwnerRow,
     OwnerSafe, OnlyTheOwner, IdsKnown, AfterErasure, There, Approved, Exists, InFlight

LEMMA OwnerInvHolds ==
  ASSUME "birth" \in Exclusive
  PROVE  Spec => []OwnerInv
<1>1. OwnerInv /\ [Next]_vars => OwnerInv' BY StepKeepsOwner, OwnerStutter
<1> QED BY <1>1, InitOwner, PTL DEF Spec

\* A group has exactly one owner, whatever requests overlap: from the moment its
\* creation has returned until its rows are erased, the owner's row is approved and
\* says so, and no other row ever does (create, leave, removeMember,
\* updateMemberRole, respond and remove of groups.service.ts).  It needs that a
\* group's owner does not ask to join it while it is being created.
THEOREM OneOwnerHolds ==
  ASSUME "birth" \in Exclusive
  PROVE  Spec => []OneOwner
<1>1. OwnerInv => OneOwner
  <2> SUFFICES ASSUME OwnerInv, There, InFlight({"own", "erase_group"}) = {}
               PROVE  member[group.ownerId].role = "owner" /\ group.ownerId \in Approved
    BY DEF OneOwner, OwnerInv, Types, OnlyTheOwner
  <2> QED BY DEF OwnerInv, OwnerSafe, OwnerNamed, Approved, There
<1> QED BY <1>1, OwnerInvHolds, PTL

-----------------------------------------------------------------------------
(* Membership: answers *)

\* Counting: the slots of a kind are at most the slots, and one fewer when one ends.
LEMMA SlotCount ==
  ASSUME NEW A \in SUBSET Slot
  PROVE  IsFiniteSet(A) /\ Cardinality(A) \in Nat /\ Cardinality(A) <= Cardinality(Slot)
         /\ Cardinality(Slot) \in Nat
BY FS_Subset, FS_CardinalityType, MembershipAssumption

LEMMA MemberCount ==
  ASSUME NEW A \in SUBSET User
  PROVE  IsFiniteSet(A) /\ Cardinality(A) \in Nat
BY FS_Subset, FS_CardinalityType, MembershipAssumption

\* A step that begins no answer, writes no row and keeps the limit, or ends the
\* rows of all, keeps what is asked of answers.
LEMMA AnswersElsewhere ==
  ASSUME OwnerInv, AnswersInv,
         \A t \in Slot : request'[t].op \in {"approve", "reject"} => request'[t] = request[t],
         \A t \in Slot : request[t].op = "approve" => request'[t] = request[t],
         \A t \in Slot : request'[t].op = "limit" => request[t].op = "limit",
         InFlight({"limit"}) = {} => group'.maxPlayers = group.maxPlayers,
         \/ \A u \in User : member'[u] = member[u]
         \/ \A u \in User : member'[u].status = "none"
  PROVE  AnswersInv'
<1> USE DEF AnswersInv
<1>1. \A t \in Slot : request[t].op \in {"approve", "reject"} => request[t].on \in User
  BY RequestShape DEF OwnerInv, Types, Carries, Changing
<1>2. ASSUME "answers" \in Exclusive PROVE AnswersApart'
  <2> SUFFICES ASSUME NEW s \in Slot, request'[s].op \in {"approve", "reject"}
               PROVE  /\ \A t \in Slot : request'[t].op \in {"approve", "reject"}
                                         /\ request'[t].on = request'[s].on => t = s
                      /\ \/ member'[request'[s].on].status = "none"
                         \/ member'[request'[s].on].id # request'[s].id
                         \/ member'[request'[s].on].status = "pending"
    BY DEF AnswersApart, Exists
  <2>1. request'[s] = request[s] OBVIOUS
  <2>2. /\ \A t \in Slot : request[t].op \in {"approve", "reject"}
                           /\ request[t].on = request[s].on => t = s
        /\ \/ member[request[s].on].status = "none"
           \/ member[request[s].on].id # request[s].id
           \/ member[request[s].on].status = "pending"
    BY <1>2, <2>1 DEF AnswersApart, Exists
  <2>3. ASSUME NEW t \in Slot, request'[t].op \in {"approve", "reject"},
               request'[t].on = request'[s].on
        PROVE  t = s
    <3>1. request'[t] = request[t] BY <2>3
    <3> QED BY <2>1, <2>2, <2>3, <3>1
  <2>4. request[s].on \in User BY <1>1, <2>1
  <2> QED BY <2>1, <2>2, <2>3, <2>4
<1>3. ASSUME "limit" \in Exclusive PROVE ApprovalsBounded'
  <2> SUFFICES ASSUME InFlight({"approve"})' # {}
               PROVE  /\ InFlight({"limit"})' = {}
                      /\ Cardinality(Approved') + Cardinality(InFlight({"approve"})')
                           <= group'.maxPlayers + Cardinality(Slot) - 1
    BY DEF ApprovalsBounded
  <2>1. InFlight({"approve"})' = InFlight({"approve"}) BY DEF InFlight
  <2>2. /\ InFlight({"limit"}) = {}
        /\ Cardinality(Approved) + Cardinality(InFlight({"approve"}))
             <= group.maxPlayers + Cardinality(Slot) - 1
    BY <1>3, <2>1 DEF ApprovalsBounded
  <2>3. InFlight({"limit"})' = {} BY <2>2 DEF InFlight
  <2>4. /\ Approved' = Approved \/ Approved' = {}
        /\ Approved \in SUBSET User /\ Approved' \in SUBSET User
    BY DEF Approved
  <2>5. Cardinality(Approved') <= Cardinality(Approved)
    <3>1. Cardinality(Approved) \in Nat BY <2>4, MemberCount
    <3>2. Cardinality({}) = 0 BY FS_EmptySet
    <3> QED BY <2>4, <3>1, <3>2
  <2>6. /\ Cardinality(Approved) \in Nat /\ Cardinality(Approved') \in Nat
        /\ Cardinality(InFlight({"approve"})) \in Nat /\ Cardinality(Slot) \in Nat
        /\ group.maxPlayers \in Int
    <3>1. InFlight({"approve"}) \in SUBSET Slot BY DEF InFlight
    <3>2. Cardinality(Approved) \in Nat /\ Cardinality(Approved') \in Nat
      BY <2>4, MemberCount
    <3>3. Cardinality(InFlight({"approve"})) \in Nat /\ Cardinality(Slot) \in Nat
      BY <3>1, SlotCount
    <3>4. group.maxPlayers \in Limits \cup {0} BY DEF OwnerInv, Types, MembershipTypeOK
    <3>5. \A n \in Limits : n \in Int BY LimitNumbers
    <3>6. group.maxPlayers \in Int BY <3>4, <3>5
    <3> QED BY <3>2, <3>3, <3>6
  <2>7. group'.maxPlayers = group.maxPlayers BY <2>2
  <2> QED BY <2>1, <2>2, <2>3, <2>5, <2>6, <2>7
<1> QED BY <1>2, <1>3

\* A request begins: an approval below the limit, an answer to a request that
\* waits and that nobody else is answering.
LEMMA BeginningKeepsAnswers ==
  ASSUME OwnerInv, AnswersInv, NEW s \in Slot, NEW r \in Requests, Accepted(r), Begin(s, r)
  PROVE  AnswersInv'
<1>1. /\ group' = group /\ member' = member /\ request[s].op = "idle"
      /\ \A t \in Slot : request'[t] = IF t = s THEN r ELSE request[t]
  BY DEF Begin, store, Idle, OwnerInv, Types
<1>2. CASE r.op \notin {"approve", "reject", "limit"}
  BY <1>1, <1>2, AnswersElsewhere
<1>3. CASE r.op \in {"approve", "reject", "limit"}
  <2>1. ASSUME "answers" \in Exclusive PROVE AnswersApart'
    <3> SUFFICES ASSUME NEW x \in Slot, request'[x].op \in {"approve", "reject"}
                 PROVE  /\ \A t \in Slot : request'[t].op \in {"approve", "reject"}
                                           /\ request'[t].on = request'[x].on => t = x
                        /\ \/ member[request'[x].on].status = "none"
                           \/ member[request'[x].on].id # request'[x].id
                           \/ member[request'[x].on].status = "pending"
      BY <1>1 DEF AnswersApart, Exists
    <3>0. AnswersApart BY <2>1 DEF AnswersInv
    <3>1. r.op \in {"approve", "reject"} =>
            \A t \in Slot : request[t].op \in {"approve", "reject"} => request[t].on # r.on
      BY <2>1 DEF Accepted, InFlight
    <3>2. \A t \in Slot : request'[t].op \in {"approve", "reject"}
                          /\ request'[t].on = request'[x].on => t = x
      BY <1>1, <3>0, <3>1 DEF AnswersApart
    <3>3. CASE x = s BY <1>1, <3>2, <3>3 DEF Accepted
    <3>4. CASE x # s BY <1>1, <3>0, <3>2, <3>4 DEF AnswersApart, Exists
    <3> QED BY <3>3, <3>4
  <2>2. ASSUME "limit" \in Exclusive PROVE ApprovalsBounded'
    <3>1. CASE r.op = "reject" \/ (r.op = "limit" /\ InFlight({"approve"})' = {})
      <4>1. CASE r.op = "reject"
        <5>1. /\ InFlight({"approve"})' = InFlight({"approve"})
              /\ InFlight({"limit"})' = InFlight({"limit"})
          BY <1>1, <4>1 DEF InFlight
        <5>2. Approved' = Approved BY <1>1 DEF Approved
        <5> QED BY <1>1, <2>2, <5>1, <5>2 DEF AnswersInv, ApprovalsBounded
      <4> QED BY <3>1, <4>1 DEF ApprovalsBounded
    <3>2. CASE r.op = "limit"
      <4>1. InFlight({"approve"}) = {} BY <2>2, <3>2 DEF Accepted
      <4>2. InFlight({"approve"})' = {} BY <1>1, <3>2, <4>1 DEF InFlight
      <4> QED BY <3>1, <3>2, <4>2
    <3>3. CASE r.op = "approve"
      <4>1. Approved # {} /\ ~(There /\ Full) /\ InFlight({"limit"}) = {}
        BY <2>2, <3>3 DEF Accepted, Managing
      <4>2. There
        BY <4>1 DEF OwnerInv, AfterErasure, Types, MembershipTypeOK, Phases, There, Accepted
      <4>3. ~(Cardinality(Approved) >= group.maxPlayers) BY <4>1, <4>2 DEF Full
      <4>4. Approved' = Approved /\ Approved \in SUBSET User BY <1>1 DEF Approved
      <4>5. Cardinality(Approved) \in Nat BY <4>4, MemberCount
      <4>6. InFlight({"approve"})' \in SUBSET Slot BY DEF InFlight
      <4>7. /\ Cardinality(InFlight({"approve"})') \in Nat /\ Cardinality(Slot) \in Nat
            /\ Cardinality(InFlight({"approve"})') <= Cardinality(Slot)
        BY <4>6, SlotCount
      <4>8. group.maxPlayers \in Int
        <5>1. group.maxPlayers \in Limits \cup {0} BY DEF OwnerInv, Types, MembershipTypeOK
        <5>2. \A n \in Limits : n \in Int BY LimitNumbers
        <5> QED BY <5>1, <5>2
      <4>9. Cardinality(Approved) + Cardinality(InFlight({"approve"})')
              <= group.maxPlayers + Cardinality(Slot) - 1
        BY <4>3, <4>5, <4>7, <4>8
      <4>10. InFlight({"limit"})' = {} BY <1>1, <3>3, <4>1 DEF InFlight
      <4> QED BY <1>1, <4>4, <4>9, <4>10 DEF ApprovalsBounded
    <3> QED BY <1>3, <3>1, <3>2, <3>3
  <2> QED BY <2>1, <2>2 DEF AnswersInv
<1> QED BY <1>2, <1>3

\* A written row: an answer finds what it read or nothing, and an approval makes
\* one member at most, and is no longer in flight.
LEMMA RowsKeepAnswers ==
  ASSUME OwnerInv, AnswersInv, NEW s \in Slot, RowWritten(s)
  PROVE  /\ AnswersInv'
         /\ "answers" \in Exclusive => MembershipEnds
         /\ "limit" \in Exclusive => OvershootBounded
<1>0. Types /\ IdsKnown BY DEF OwnerInv
<1>1. group' = group /\ Finish(s) BY <1>0, RowsWritten
<1>2. PICK u \in User, x \in Row : member' = [member EXCEPT ![u] = x] /\ Written(s, u, x)
  BY <1>0, RowsWritten
<1>3. /\ request[s].op \in {"ask", "approve", "reject", "leave", "remove", "role"}
      /\ request[s].on = u
  BY <1>2 DEF Written
<1>4. /\ \A t \in Slot : request'[t] = IF t = s THEN Idle ELSE request[t]
      /\ Idle.op = "idle"
      /\ \A v \in User : member'[v] = IF v = u THEN x ELSE member[v]
      /\ \A v \in User : member[v] \in Row
  BY <1>0, <1>1, <1>2 DEF Finish, Types, MembershipTypeOK, Row, Idle
<1>5. \A t \in Slot : request[t].op \in {"approve", "reject"} =>
        /\ request[t].on \in User /\ request[t].id \in Int
        /\ request[t].id <= member[request[t].on].id
  BY <1>0, RequestShape DEF IdsKnown, Types, Carries, Changing
<1>6. \A v \in User : member[v].id \in Int BY <1>4 DEF Row
<1>7. x.id \in Int BY DEF Row
<1>8. /\ Approved \in SUBSET User /\ Approved' \in SUBSET User
      /\ \A v \in User : v \in Approved <=> member[v].status = "approved"
      /\ \A v \in User : v \in Approved' <=> member'[v].status = "approved"
  BY DEF Approved
<1>9. ASSUME "answers" \in Exclusive PROVE AnswersApart'
  <2> SUFFICES ASSUME NEW y \in Slot, request'[y].op \in {"approve", "reject"}
               PROVE  /\ \A t \in Slot : request'[t].op \in {"approve", "reject"}
                                         /\ request'[t].on = request'[y].on => t = y
                      /\ \/ member'[request'[y].on].status = "none"
                         \/ member'[request'[y].on].id # request'[y].id
                         \/ member'[request'[y].on].status = "pending"
    BY DEF AnswersApart, Exists
  <2>0. AnswersApart BY <1>9 DEF AnswersInv
  <2>1. y # s /\ request'[y] = request[y] BY <1>4
  <2>2. /\ \A t \in Slot : request[t].op \in {"approve", "reject"}
                           /\ request[t].on = request[y].on => t = y
        /\ \/ member[request[y].on].status = "none"
           \/ member[request[y].on].id # request[y].id
           \/ member[request[y].on].status = "pending"
    BY <2>0, <2>1 DEF AnswersApart, Exists
  <2>3. \A t \in Slot : request'[t].op \in {"approve", "reject"}
                        /\ request'[t].on = request'[y].on => t = y
    BY <1>4, <2>1, <2>2
  <2> DEFINE v == request[y].on
  <2>4. v \in User /\ request[y].id \in Int /\ request[y].id <= member[v].id BY <1>5, <2>1
  <2>5. v = u => request[s].op \notin {"approve", "reject"} BY <1>3, <2>1, <2>2
  <2>6. \/ member'[v].status = "none" \/ member'[v].id # request[y].id
        \/ member'[v].status = "pending"
    <3> HIDE DEF v
    <3>1. CASE v # u BY <1>4, <2>2, <2>4, <3>1 DEF v
    <3>2. CASE v = u
      <4>1. member'[v] = x BY <1>4, <2>4, <3>2
      <4>2. \/ x = member[u] \/ x.id > member[u].id \/ x.status = "none"
            \/ x.id = member[u].id /\ x.status = member[u].status
        BY <1>2, <2>5, <3>2 DEF Written
      <4>3. \/ member[u].status = "none" \/ member[u].id # request[y].id
            \/ member[u].status = "pending"
        BY <2>2, <3>2 DEF v
      <4> QED BY <1>6, <1>7, <2>4, <3>2, <4>1, <4>2, <4>3
    <3> QED BY <3>1, <3>2
  <2> QED BY <2>1, <2>3, <2>6
<1>10. ASSUME "answers" \in Exclusive PROVE MembershipEnds
  <2> SUFFICES ASSUME NEW v \in Approved, v \notin Approved'
               PROVE  \E t \in Slot : /\ request[t].op \in {"leave", "remove", "erase_rows"}
                                      /\ request'[t] # request[t]
    BY DEF MembershipEnds
  <2>0. AnswersApart BY <1>10 DEF AnswersInv
  <2>1. v = u /\ member[u].status = "approved" /\ x.status # "approved"
    BY <1>4, <1>8
  <2>2. request[s].op \in {"reject", "leave", "remove"}
        /\ (request[s].op = "reject" => member[u].id = request[s].id)
    BY <1>2, <2>1 DEF Written, Exists
  <2>3. request[s].op # "reject"
    <3> SUFFICES ASSUME request[s].op = "reject" PROVE FALSE OBVIOUS
    <3>1. member[u].status = "pending"
      BY <1>3, <2>0, <2>1, <2>2 DEF AnswersApart, Exists
    <3> QED BY <2>1, <3>1
  <2> QED BY <1>4, <2>2, <2>3
<1>11. ASSUME "limit" \in Exclusive PROVE ApprovalsBounded' /\ OvershootBounded
  <2> DEFINE A == InFlight({"approve"})
  <2>1. ApprovalsBounded BY <1>11 DEF AnswersInv
  <2>2. /\ A \in SUBSET Slot /\ A' = A \ {s}
        /\ InFlight({"limit"})' = InFlight({"limit"})
        /\ s \in A <=> request[s].op = "approve"
    BY <1>3, <1>4 DEF InFlight
  <2>3. Approved' \subseteq IF s \in A THEN Approved \cup {u} ELSE Approved
    <3>1. x.status = "approved" => request[s].op = "approve" \/ member[u].status = "approved"
      BY <1>2 DEF Written
    <3> QED BY <1>4, <1>8, <2>2, <3>1
  <2>4. /\ IsFiniteSet(A) /\ Cardinality(A) \in Nat /\ Cardinality(Slot) \in Nat
    BY <2>2, SlotCount
  <2>5. IsFiniteSet(Approved) /\ Cardinality(Approved) \in Nat /\ Cardinality(Approved') \in Nat
    BY <1>8, MemberCount
  <2>6. Cardinality(A') = IF s \in A THEN Cardinality(A) - 1 ELSE Cardinality(A)
    <3>1. CASE s \in A BY <2>2, <2>4, <3>1, FS_RemoveElement
    <3>2. CASE s \notin A
      <4>1. A' = A BY <2>2, <3>2
      <4> QED BY <3>2, <4>1
    <3> QED BY <3>1, <3>2
  <2>7. Cardinality(Approved') <= IF s \in A THEN Cardinality(Approved) + 1
                                  ELSE Cardinality(Approved)
    <3>1. CASE s \in A
      <4>0. /\ IsFiniteSet(Approved \cup {u})
            /\ Cardinality(Approved \cup {u}) =
                 IF u \in Approved THEN Cardinality(Approved) ELSE Cardinality(Approved) + 1
        BY <2>5, FS_AddElement
      <4>1. /\ IsFiniteSet(Approved \cup {u})
            /\ Cardinality(Approved \cup {u}) <= Cardinality(Approved) + 1
        BY <2>5, <4>0
      <4>2. Approved' \subseteq Approved \cup {u} BY <2>3, <3>1
      <4>3. /\ Cardinality(Approved') <= Cardinality(Approved \cup {u})
            /\ Cardinality(Approved \cup {u}) \in Nat
        BY <4>1, <4>2, FS_Subset, FS_CardinalityType
      <4> QED BY <2>5, <3>1, <4>1, <4>3
    <3>2. CASE s \notin A
      <4>1. Approved' \subseteq Approved BY <2>3, <3>2
      <4>2. Cardinality(Approved') <= Cardinality(Approved) BY <2>5, <4>1, FS_Subset
      <4> QED BY <3>2, <4>2
    <3> QED BY <3>1, <3>2
  <2>8. group.maxPlayers \in Int
    <3>1. group.maxPlayers \in Limits \cup {0} BY <1>0 DEF Types, MembershipTypeOK
    <3>2. \A n \in Limits : n \in Int BY LimitNumbers
    <3> QED BY <3>1, <3>2
  <2>9. A # {} => /\ InFlight({"limit"}) = {}
                  /\ Cardinality(Approved) + Cardinality(A)
                       <= group.maxPlayers + Cardinality(Slot) - 1
    BY <2>1 DEF ApprovalsBounded
  <2>10. ApprovalsBounded'
    <3> SUFFICES ASSUME A' # {}
                 PROVE  /\ InFlight({"limit"})' = {}
                        /\ Cardinality(Approved') + Cardinality(A')
                             <= group'.maxPlayers + Cardinality(Slot) - 1
      BY DEF ApprovalsBounded
    <3>1. A # {} BY <2>2
    <3>2. Cardinality(Approved') + Cardinality(A') <= Cardinality(Approved) + Cardinality(A)
      <4> HIDE DEF A
      <4> QED BY <2>4, <2>5, <2>6, <2>7
    <3>3. Cardinality(A') \in Nat
      <4>1. A' \in SUBSET Slot BY <2>2
      <4> QED BY <4>1, SlotCount
    <3> HIDE DEF A
    <3> QED BY <1>1, <2>2, <2>4, <2>5, <2>8, <2>9, <3>1, <3>2, <3>3
  <2>11. OvershootBounded
    <3> SUFFICES ASSUME Approved' \ Approved # {}
                 PROVE  Cardinality(Approved') <= group.maxPlayers + Cardinality(Slot) - 1
      BY DEF OvershootBounded
    <3>1. s \in A BY <2>3
    <3>2. Cardinality(A) >= 1
      <4>1. A # {} BY <3>1
      <4>2. Cardinality(A) # 0 BY <2>4, <4>1, FS_EmptySet
      <4> QED BY <2>4, <4>2
    <3> HIDE DEF A
    <3> QED BY <2>4, <2>5, <2>7, <2>8, <2>9, <3>1, <3>2
  <2> QED BY <2>10, <2>11
<1> QED BY <1>9, <1>10, <1>11 DEF AnswersInv

\* Every step keeps what is asked of answers, and does what they promise.
LEMMA StepKeepsAnswers ==
  ASSUME "birth" \in Exclusive, OwnerInv, AnswersInv, Next
  PROVE  /\ AnswersInv'
         /\ "answers" \in Exclusive => MembershipEnds
         /\ "limit" \in Exclusive => OvershootBounded
<1>0. \A t \in Slot : Carries(request[t]) /\ (request[t].op = "idle" => request[t] = Idle)
  BY RequestShape DEF OwnerInv, Types, Carries
<1>i. Idle.op = "idle" BY DEF Idle
<1>same. ASSUME member' = member
         PROVE  MembershipEnds /\ OvershootBounded
  <2>1. Approved' = Approved BY <1>same DEF Approved
  <2> QED BY <2>1 DEF MembershipEnds, OvershootBounded
<1>1. ASSUME NEW s \in Slot, NEW u \in User, Create(s, u)
      PROVE  AnswersInv' /\ MembershipEnds /\ OvershootBounded
  <2>1. /\ group.phase = "none" /\ member' = member
        /\ request' = [request EXCEPT ![s] = [op |-> "own", on |-> u]]
    BY <1>1 DEF Create
  <2>2. \A t \in Slot : request'[t].op \notin {"approve", "reject"}
    BY <1>i, <2>1 DEF OwnerInv, BeforeCreation, Types
  <2>3. AnswersInv' BY <2>2 DEF AnswersInv, AnswersApart, ApprovalsBounded, InFlight
  <2> QED BY <1>same, <2>1, <2>3
<1>2. ASSUME Beginning PROVE AnswersInv' /\ MembershipEnds /\ OvershootBounded
  <2>1. PICK s \in Slot, r \in Requests : Accepted(r) /\ Begin(s, r) BY <1>2 DEF Beginning
  <2>2. AnswersInv' BY <2>1, BeginningKeepsAnswers
  <2> QED BY <1>same, <2>1, <2>2 DEF Begin, store
<1>3. ASSUME NEW s \in Slot, OwnerRow(s)
      PROVE  AnswersInv' /\ MembershipEnds /\ OvershootBounded
  <2>1. /\ request[s].op = "own" /\ Finish(s) /\ group' = group
        /\ CreateRow(request[s].on, "owner", "approved")
    BY <1>3 DEF OwnerRow, At
  <2>2. /\ Approved = {} /\ There /\ request[s].on \in User
        /\ \A t \in Slot : request[t].op \notin Managing
    BY <1>0, <2>1 DEF OwnerInv, BeforeOwnerRow, Carries
  <2>3. \A t \in Slot : request'[t].op \notin {"approve", "reject"}
    BY <1>i, <2>1, <2>2 DEF Finish, OwnerInv, Types, Managing
  <2>4. AnswersInv' BY <2>3 DEF AnswersInv, AnswersApart, ApprovalsBounded, InFlight
  <2>5. MembershipEnds BY <2>2 DEF MembershipEnds
  <2>6. Approved' \subseteq {request[s].on}
    BY <2>1, <2>2 DEF CreateRow, Approved, OwnerInv, Types, MembershipTypeOK
  <2>7. Cardinality(Approved') <= 1
    <3>1. Approved' = {} \/ Approved' = {request[s].on} BY <2>6
    <3>2. Cardinality({}) = 0 /\ Cardinality({request[s].on}) = 1
      BY FS_EmptySet, FS_Singleton
    <3> QED BY <3>1, <3>2
  <2>8. Cardinality(Slot) \in Nat /\ Cardinality(Slot) # 0
    BY MembershipAssumption, FS_CardinalityType, FS_EmptySet
  <2>9. group.maxPlayers \in Nat /\ group.maxPlayers # 0
    <3>1. group.maxPlayers \in Limits BY <2>2 DEF OwnerInv, OwnerNamed, There
    <3>2. \A n \in Limits : n \in Nat /\ n # 0 BY LimitNumbers
    <3> QED BY <3>1, <3>2
  <2>10. Cardinality(Approved') \in Nat
    <3>1. Approved' \in SUBSET User BY DEF Approved
    <3> QED BY <3>1, MemberCount
  <2>11. OvershootBounded BY <2>7, <2>8, <2>9, <2>10 DEF OvershootBounded
  <2> QED BY <2>4, <2>5, <2>11
<1>4. ASSUME NEW s \in Slot, CashierField(s) \/ LimitField(s)
      PROVE  AnswersInv' /\ MembershipEnds /\ OvershootBounded
  <2>1. /\ request[s].op \in {"cashier", "limit"} /\ Finish(s) /\ member' = member
        /\ request[s].op = "cashier" => group'.maxPlayers = group.maxPlayers
    BY <1>4 DEF CashierField, LimitField, At, OwnerInv, Types, MembershipTypeOK
  <2>2. \A t \in Slot : request'[t] = IF t = s THEN Idle ELSE request[t]
    BY <2>1 DEF Finish, OwnerInv, Types
  <2>3. InFlight({"limit"}) = {} => group'.maxPlayers = group.maxPlayers
    BY <2>1 DEF InFlight
  <2>4. AnswersInv' BY <1>i, <2>1, <2>2, <2>3, AnswersElsewhere
  <2> QED BY <1>same, <2>1, <2>4
<1>5. ASSUME GetQr \/ CodeExpires PROVE AnswersInv' /\ MembershipEnds /\ OvershootBounded
  <2>1. member' = member /\ request' = request /\ group'.maxPlayers = group.maxPlayers
    BY <1>5 DEF GetQr, CodeExpires, OwnerInv, Types, MembershipTypeOK
  <2>2. AnswersInv' BY <2>1, AnswersElsewhere
  <2> QED BY <1>same, <2>1, <2>2
<1>6. ASSUME NEW s \in Slot, EraseRows(s)
      PROVE  AnswersInv' /\ MembershipEnds /\ OvershootBounded
  <2>1. /\ request[s].op = "erase_rows" /\ group' = group
        /\ request' = [request EXCEPT ![s].op = "erase_group"]
        /\ member' = [u \in User |-> NoRow(member[u].id)]
    BY <1>6 DEF EraseRows, At
  <2>2. request[s] = [op |-> "erase_rows"]
    <3>1. request[s] \in Requests BY DEF OwnerInv, Types
    <3> QED BY <2>1, <3>1 DEF Requests, Idle
  <2>3. \A t \in Slot : request'[t] = IF t = s THEN [op |-> "erase_group"] ELSE request[t]
    BY <2>1, <2>2 DEF OwnerInv, Types
  <2>4. \A u \in User : member'[u].status = "none" BY <2>1 DEF NoRow
  <2>5. AnswersInv' BY <2>1, <2>3, <2>4, AnswersElsewhere
  <2>6. Approved' = {} BY <2>4 DEF Approved
  <2>7. OvershootBounded BY <2>6 DEF OvershootBounded
  <2>8. request'[s] # request[s] BY <2>2, <2>3
  <2>9. MembershipEnds BY <2>1, <2>8 DEF MembershipEnds
  <2> QED BY <2>5, <2>7, <2>9
<1>7. ASSUME NEW s \in Slot, EraseGroup(s)
      PROVE  AnswersInv' /\ MembershipEnds /\ OvershootBounded
  <2>1. /\ request[s].op = "erase_group" /\ Finish(s) /\ member' = member
        /\ group'.maxPlayers = group.maxPlayers
    BY <1>7 DEF EraseGroup, At, OwnerInv, Types, MembershipTypeOK
  <2>2. \A t \in Slot : request'[t] = IF t = s THEN Idle ELSE request[t]
    BY <2>1 DEF Finish, OwnerInv, Types
  <2>3. AnswersInv' BY <1>i, <2>1, <2>2, AnswersElsewhere
  <2> QED BY <1>same, <2>1, <2>3
<1> QED
  BY <1>1, <1>2, <1>3, <1>4, <1>5, <1>6, <1>7, NextSteps, RowsKeepAnswers
  DEF Writing, RowWritten

LEMMA InitAnswers == Init => AnswersInv
<1>1. Init => \A s \in Slot : request[s].op \notin {"approve", "reject"} BY DEF Init, Idle
<1> QED BY <1>1 DEF AnswersInv, AnswersApart, ApprovalsBounded, InFlight

LEMMA AnswersStutter == AnswersInv /\ UNCHANGED vars => AnswersInv'
<1> SUFFICES ASSUME AnswersInv, UNCHANGED vars PROVE AnswersInv' OBVIOUS
<1>1. group' = group /\ member' = member /\ request' = request BY DEF vars, store
<1> QED BY <1>1 DEF AnswersInv, AnswersApart, ApprovalsBounded, Approved, Exists, InFlight

\* Answers settle: a member stays one unless they leave, are removed or the group
\* is deleted, never by an answer to a request of theirs; and approvals, which
\* count the members before they save, pass the limit by no more than the other
\* requests in flight (respond in groups.service.ts and invitations.service.ts).
\* It needs that answers about one person do not overlap, and that the limit
\* stays while they are decided.
THEOREM AnswersSettleForGood ==
  ASSUME {"answers", "birth", "limit"} \subseteq Exclusive
  PROVE  Spec => [][AnswerSettles]_vars
<1> "birth" \in Exclusive /\ "answers" \in Exclusive /\ "limit" \in Exclusive OBVIOUS
<1>1. OwnerInv /\ AnswersInv /\ [Next]_vars => AnswersInv'
  BY StepKeepsAnswers, AnswersStutter
<1>2. OwnerInv /\ AnswersInv /\ [Next]_vars => [AnswerSettles]_vars
  BY StepKeepsAnswers DEF AnswerSettles
<1> QED BY <1>1, <1>2, OwnerInvHolds, InitAnswers, PTL DEF Spec

-----------------------------------------------------------------------------
(* Locations: steps *)

\* A request moves on, or a new one is taken.
LEMMA MovesOn ==
  ASSUME LocationShapes, NEW s \in Slot, NEW r, L!Hold(s, r)
  PROVE  /\ moving' = [t \in Slot |-> moving'[t]]
         /\ moving'[s] = r
         /\ \A t \in Slot : t # s => moving'[t] = moving[t]
BY DEF LocationShapes, L!Hold

LEMMA MovingFields ==
  ASSUME LocationShapes, NEW s \in Slot
  PROVE  LET r == moving[s]
         IN  /\ r.op # "idle" => r.g \in Group
             /\ r.op \in Placing => r.l \in Location
             /\ r.op \in Bearing => r.ids \subseteq Location
             /\ r.op \in {"idle", "insert"} \cup Placing \cup Bearing \cup Ending
BY DEF LocationShapes, MovingShape, Placing, Bearing, Adding, Erasing, Ending

LEMMA LocationInit ==
  ASSUME LocationBounds, L!Init PROVE LocationInv
<1>1. /\ location = [l \in Location |-> L!NoLocation] /\ club = [g \in Group |-> L!NoGroup]
      /\ moving = [s \in Slot |-> [op |-> "idle"]]
  BY DEF L!Init, L!Idle
<1>2. LocationShapes BY <1>1 DEF LocationShapes, L!NoLocation, L!NoGroup, MovingShape
<1>3. /\ \A s \in Slot : moving[s].op = "idle"
      /\ \A l \in Location : location[l].groupId = Null /\ location[l].phase = "none"
      /\ \A g \in Group : club[g].locations = {} /\ club[g].phase = "none"
  BY <1>1 DEF L!NoLocation, L!NoGroup
<1>4. UnderTheCap
  <2>1. Cardinality({}) = 0 BY FS_EmptySet
  <2>2. MaxGroupLocations \in Nat BY DEF LocationBounds
  <2>3. 0 <= MaxGroupLocations BY <2>2
  <2>4. ASSUME NEW g \in Group
        PROVE  /\ club[g].locations \subseteq Location
               /\ Cardinality(club[g].locations) <= MaxGroupLocations
    <3>1. club[g].locations = {} BY <1>3
    <3> QED BY <2>1, <2>3, <3>1
  <2>5. \A s \in Slot : moving[s].op # "birth" BY <1>3
  <2> QED BY <2>4, <2>5, Zenon DEF UnderTheCap
<1>5. Referred BY <1>3 DEF Referred, Placing, Adding, Erasing, Bearing
<1>6. KeptApart BY <1>3 DEF KeptApart, Bearing, Ending, Adding
<1>7. Informed BY <1>3 DEF Informed, Adding
<1>8. ListsLive BY <1>3 DEF ListsLive
<1>9. OwnedListed BY <1>3 DEF OwnedListed
<1> QED BY <1>2, <1>4, <1>5, <1>6, <1>7, <1>8, <1>9 DEF LocationInv

LEMMA PersonalStep ==
  ASSUME LocationInv, LocationBounds, NEW k \in Location, NEW u \in Person, L!CreatePersonal(k, u)
  PROVE  LocationInv'
<1>1. /\ location[k] = L!NoLocation /\ club' = club /\ moving' = moving
      /\ location' = [location EXCEPT ![k] = [phase |-> "there", createdBy |-> u, groupId |-> Null]]
  BY DEF L!CreatePersonal, L!Insert
<1>2. location[k].phase = "none" /\ location[k].groupId = Null BY <1>1 DEF L!NoLocation
<1>3. /\ location' = [l \in Location |-> location'[l]]
      /\ location'[k] = [phase |-> "there", createdBy |-> u, groupId |-> Null]
      /\ \A l \in Location : l # k => location'[l] = location[l]
  BY <1>1 DEF LocationInv, LocationShapes
<1>4. location'[k].phase = "there" /\ location'[k].groupId = Null /\ location'[k].createdBy = u
  BY <1>3
<1>5. LocationShapes' BY <1>1, <1>3, <1>4 DEF LocationInv, LocationShapes
<1>6. UnderTheCap' BY <1>1 DEF LocationInv, UnderTheCap
<1> DEFINE fields(s) == LET r == moving[s]
                        IN  /\ r.op # "idle" => r.g \in Group
                            /\ r.op \in Placing => r.l \in Location
                            /\ r.op \in Bearing => r.ids \subseteq Location
<1>f. \A s \in Slot : fields(s) BY MovingFields DEF LocationInv
<1>l. \A g \in Group : club[g].locations \subseteq Location BY DEF LocationInv, UnderTheCap
<1>7. Referred' BY <1>1, <1>2, <1>3, <1>4, <1>f, <1>l DEF LocationInv, Referred
<1>8. KeptApart' BY <1>1 DEF LocationInv, KeptApart
<1>9. Informed'
  <2>1. \A s \in Slot : moving[s].op \in Adding => moving[s].l # k
    BY <1>2 DEF LocationInv, Referred, Placing
  <2>2. \A s \in Slot : moving[s].op \in {"detach", "pull"} => moving[s].l # k
    BY <1>2 DEF LocationInv, Referred, Placing, Erasing
  <2> QED
    BY <1>1, <1>3, <1>4, <1>f, <2>1, <2>2
    DEF LocationInv, Informed, Placing, Adding, Erasing, Bearing, LocationBounds
<1>10. ListsLive'
  BY <1>1, <1>2, <1>3, <1>4, <1>f, <1>l
  DEF LocationInv, ListsLive, WentAlong, Dropping, Pulling, Referred, Bearing
<1>11. OwnedListed' BY <1>1, <1>2, <1>3, <1>4 DEF LocationInv, OwnedListed
<1> QED BY <1>5, <1>6, <1>7, <1>8, <1>9, <1>10, <1>11 DEF LocationInv

\* A request is taken, or goes on, and its shape is known.
LEMMA LocationShapesKept ==
  ASSUME LocationShapes, NEW s \in Slot, NEW r, MovingShape(r), L!Hold(s, r),
         location' = [l \in Location |-> location'[l]],
         \A l \in Location : location'[l] = [phase |-> location'[l].phase,
                                             createdBy |-> location'[l].createdBy,
                                             groupId |-> location'[l].groupId],
         club' = [g \in Group |-> club'[g]],
         \A g \in Group : club'[g] = [phase |-> club'[g].phase, owner |-> club'[g].owner,
                                      staff |-> club'[g].staff, locations |-> club'[g].locations]
  PROVE  LocationShapes'
<1>1. /\ moving' = [t \in Slot |-> moving'[t]] /\ moving'[s] = r
      /\ \A t \in Slot : t # s => moving'[t] = moving[t]
  BY MovesOn
<1>2. \A t \in Slot : MovingShape(moving'[t]) BY <1>1 DEF LocationShapes
<1> QED BY <1>1, <1>2 DEF LocationShapes

\* A request that does not write yet: what it says must fit what there is.
LEMMA Taken ==
  ASSUME LocationInv, NEW s \in Slot, moving[s] = L!Idle, NEW r, L!Hold(s, r), MovingShape(r),
         location' = location, club' = club,
         r.op \in {"insert", "birth", "purge", "delete", "detach"},
         r.op = "birth" =>
           /\ club[r.g].phase = "none" /\ Cardinality(r.ids) <= MaxGroupLocations
           /\ \A l \in r.ids : location[l].phase = "there"
           /\ \A t \in Slot : /\ moving[t].op \in Erasing => moving[t].l \notin r.ids
                              /\ moving[t].op \in Adding => moving[t].l \notin r.ids
                              /\ moving[t].op = "birth" => moving[t].g # r.g,
         r.op # "birth" =>
           /\ club[r.g].phase = "there"
           /\ \A t \in Slot : moving[t].op = "adopt" => moving[t].g # r.g,
         r.op \in {"delete", "detach"} =>
           /\ location[r.l].phase = "there"
           /\ \A t \in Slot : /\ moving[t].op \in Adding => moving[t].l # r.l
                              /\ moving[t].op \in Bearing => r.l \notin moving[t].ids,
         r.op = "detach" => location[r.l].groupId # r.g,
         r.op = "insert" => \A t \in Slot : moving[t].op \in Ending => moving[t].g # r.g,
         r.op = "purge" =>
           \A t \in Slot : moving[t].op \in Adding \cup {"insert"} => moving[t].g # r.g
  PROVE  LocationInv'
<1>1. /\ moving' = [t \in Slot |-> moving'[t]] /\ moving'[s] = r
      /\ \A t \in Slot : t # s => moving'[t] = moving[t]
  BY MovesOn DEF LocationInv
<1>2. moving[s].op = "idle" BY DEF L!Idle
<1>3. LocationShapes' BY LocationShapesKept DEF LocationInv, LocationShapes
<1>4. UnderTheCap' BY <1>1 DEF LocationInv, UnderTheCap
<1>5. Referred'
  BY <1>1, <1>2 DEF LocationInv, Referred, Placing, Adding, Erasing, Bearing
<1>6. KeptApart'
  <2> SUFFICES ASSUME NEW p \in Slot, NEW q \in Slot
               PROVE  (/\ moving[p].op \in Bearing /\ moving[q].op # "idle" /\ p # q
                          => moving[q].g # moving[p].g
                       /\ moving[p].op \in Ending /\ moving[q].op \in Adding \cup {"insert"}
                          => moving[q].g # moving[p].g
                       /\ moving[p].op \in Bearing /\ moving[q].op \in Erasing
                          => moving[q].l \notin moving[p].ids
                       /\ moving[p].op \in Adding /\ moving[q].op \in Placing /\ p # q
                          => moving[q].l # moving[p].l)'
    BY DEF KeptApart
  <2>1. CASE p # s /\ q # s BY <1>1, <2>1 DEF LocationInv, KeptApart
  <2>2. CASE p = s /\ q = s BY <1>1, <2>2 DEF Bearing, Ending, Adding, Erasing
  <2>3. CASE p = s /\ q # s
    BY <1>1, <2>3 DEF LocationInv, Referred, Bearing, Ending, Adding, Erasing
  <2>4. CASE p # s /\ q = s
    <3>1. CASE moving[p].op = "birth"
      BY <1>1, <2>4, <3>1 DEF LocationInv, Referred, Bearing, Ending, Adding, Erasing
    <3>2. CASE moving[p].op # "birth"
      BY <1>1, <2>4, <3>2 DEF LocationInv, Referred, Bearing, Ending, Adding, Erasing, Placing
    <3> QED BY <3>1, <3>2
  <2> QED BY <2>1, <2>2, <2>3, <2>4
<1>7. Informed' BY <1>1, <1>2 DEF LocationInv, Informed, Adding, Bearing
<1>8. ListsLive'
  BY <1>1, <1>2 DEF LocationInv, ListsLive, WentAlong, Dropping, Pulling
<1>9. OwnedListed' BY <1>1, <1>2 DEF LocationInv, OwnedListed, Adding
<1> QED BY <1>3, <1>4, <1>5, <1>6, <1>7, <1>8, <1>9 DEF LocationInv

LEMMA CreateForGroupStep ==
  ASSUME LocationInv, Orderly, NEW s \in Slot, NEW u \in Person, NEW g \in Group,
         L!CreateForGroup(s, u, g)
  PROVE  LocationInv'
<1> DEFINE r == [op |-> "insert", g |-> g, by |-> u]
<1>1. /\ moving[s] = L!Idle /\ L!Hold(s, r) /\ location' = location /\ club' = club
      /\ club[g].phase = "there"
      /\ \A t \in Slot : moving[t].op = "adopt" => moving[t].g # g
      /\ \A t \in Slot : moving[t].op \in Ending => moving[t].g # g
  BY DEF L!CreateForGroup, L!Staff, L!Settled, L!Live, L!InFlight, Orderly, Ending
<1>2. MovingShape(r) BY DEF MovingShape
<1>3. r.op = "insert" /\ r.g = g OBVIOUS
<1> HIDE DEF r
<1> QED BY <1>1, <1>2, <1>3, Taken

LEMMA CreateGroupStep ==
  ASSUME LocationInv, Orderly, NEW s \in Slot, NEW u \in Person, NEW g \in Group,
         NEW ids \in SUBSET Location, L!CreateGroup(s, u, g, ids)
  PROVE  LocationInv'
<1> DEFINE r == [op |-> "birth", g |-> g, by |-> u, ids |-> ids]
<1>1. /\ moving[s] = L!Idle /\ L!Hold(s, r) /\ location' = location /\ club' = club
      /\ club[g].phase = "none" /\ Cardinality(ids) <= MaxGroupLocations
      /\ \A l \in ids : location[l].phase = "there"
      /\ \A t \in Slot : /\ moving[t].op \in Erasing => moving[t].l \notin ids
                         /\ moving[t].op \in Adding => moving[t].l \notin ids
                         /\ moving[t].op = "birth" => moving[t].g # g
  <2>1. \A S : L!Cardinality(S) = Cardinality(S) BY Zenon DEF L!Cardinality, Cardinality
  <2> QED
    BY <2>1 DEF L!CreateGroup, L!NoGroup, L!Known, L!There, L!InFlight, Orderly, Adding, Erasing
<1>2. MovingShape(r) BY DEF MovingShape, Bearing
<1>3. r.op = "birth" /\ r.g = g /\ r.ids = ids OBVIOUS
<1> HIDE DEF r
<1> QED BY <1>1, <1>2, <1>3, Taken

LEMMA DeleteGroupStep ==
  ASSUME LocationInv, Orderly, NEW s \in Slot, NEW g \in Group, L!DeleteGroup(s, g)
  PROVE  LocationInv'
<1> DEFINE r == [op |-> "purge", g |-> g]
<1>1. /\ moving[s] = L!Idle /\ L!Hold(s, r) /\ location' = location /\ club' = club
      /\ club[g].phase = "there"
      /\ \A t \in Slot : moving[t].op = "adopt" => moving[t].g # g
      /\ \A t \in Slot : moving[t].op \in Adding \cup {"insert"} => moving[t].g # g
  BY DEF L!DeleteGroup, L!Staff, L!Settled, L!Live, L!InFlight, Orderly, Adding
<1>2. MovingShape(r) BY DEF MovingShape, Ending
<1>3. r.op = "purge" /\ r.g = g OBVIOUS
<1> HIDE DEF r
<1> QED BY <1>1, <1>2, <1>3, Taken

LEMMA RemoveForGroupStep ==
  ASSUME LocationInv, Orderly, NEW s \in Slot, NEW u \in Person, NEW g \in Group,
         NEW k \in Location, L!RemoveForGroup(s, u, g, k)
  PROVE  LocationInv'
<1> DEFINE op == IF location[k].groupId = g THEN "delete" ELSE "detach"
           r == [op |-> op, g |-> g, l |-> k]
<1>1. /\ moving[s] = L!Idle /\ L!Hold(s, r) /\ location' = location /\ club' = club
      /\ club[g].phase = "there" /\ location[k].phase = "there"
      /\ \A t \in Slot : moving[t].op = "adopt" => moving[t].g # g
      /\ \A t \in Slot : /\ moving[t].op \in Adding => moving[t].l # k
                         /\ moving[t].op \in Bearing => k \notin moving[t].ids
  BY DEF L!RemoveForGroup, L!Staff, L!Settled, L!Live, L!Known, L!There, L!InFlight, Orderly,
         Adding, Bearing
<1>2. op \in {"delete", "detach"} /\ (op = "detach" => location[k].groupId # g) OBVIOUS
<1> HIDE DEF op
<1>3. r.op = op /\ r.g = g /\ r.l = k OBVIOUS
<1>4. MovingShape(r) BY <1>2, <1>3 DEF MovingShape, Placing, Erasing
<1> HIDE DEF r
<1> QED BY <1>1, <1>2, <1>3, <1>4, Taken

\* A request that goes on to another stage keeps the rest of what it says.
LEMMA PlacingGoes ==
  ASSUME LocationInv, NEW s \in Slot, moving[s].op \in Placing, NEW op, op \in Placing, L!Go(s, op)
  PROVE  L!Hold(s, [op |-> op, g |-> moving[s].g, l |-> moving[s].l])
<1> DEFINE m == moving[s]
<1>1. L!Hold(s, [m EXCEPT !.op = op]) BY DEF L!Go
<1>2. m = [op |-> m.op, g |-> m.g, l |-> m.l]
  BY DEF LocationInv, LocationShapes, MovingShape, Placing, Adding, Erasing, Bearing, Ending
<1> HIDE DEF m
<1>3. [m EXCEPT !.op = op] = [op |-> op, g |-> m.g, l |-> m.l] BY <1>2
<1> QED BY <1>1, <1>3 DEF m

\* The row that is written.
LEMMA LocationWritten ==
  ASSUME LocationInv, NEW k \in Location, L!Delete(k)
  PROVE  /\ location' = [l \in Location |-> location'[l]]
         /\ location'[k] = [phase |-> "deleted", createdBy |-> location[k].createdBy,
                            groupId |-> location[k].groupId]
         /\ \A l \in Location : l # k => location'[l] = location[l]
<1> DEFINE m == location[k]
<1>1. /\ location' = [l \in Location |-> location'[l]]
      /\ location'[k] = [m EXCEPT !.phase = "deleted"]
      /\ \A l \in Location : l # k => location'[l] = location[l]
  BY DEF LocationInv, LocationShapes, L!Delete
<1>2. m = [phase |-> m.phase, createdBy |-> m.createdBy, groupId |-> m.groupId]
  BY DEF LocationInv, LocationShapes
<1> HIDE DEF m
<1>3. [m EXCEPT !.phase = "deleted"]
        = [phase |-> "deleted", createdBy |-> m.createdBy, groupId |-> m.groupId]
  BY <1>2
<1> QED BY <1>1, <1>3 DEF m

LEMMA InsertRowStep ==
  ASSUME LocationInv, LocationBounds, NEW s \in Slot, L!InsertRow(s)
  PROVE  LocationInv'
<1> DEFINE g == moving[s].g
<1>1. PICK k \in Location :
        /\ L!Insert(k, moving[s].by, g) /\ L!Hold(s, [op |-> "attach", g |-> g, l |-> k])
  BY DEF L!InsertRow
<1>2. /\ moving[s].op = "insert" /\ club' = club /\ location[k] = L!NoLocation
      /\ location' = [location EXCEPT ![k] = [phase |-> "there", createdBy |-> moving[s].by,
                                              groupId |-> g]]
  BY <1>1 DEF L!InsertRow, L!Insert
<1>3. location[k].phase = "none" /\ location[k].groupId = Null BY <1>2 DEF L!NoLocation
<1>4. /\ location' = [l \in Location |-> location'[l]]
      /\ location'[k] = [phase |-> "there", createdBy |-> moving[s].by, groupId |-> g]
      /\ \A l \in Location : l # k => location'[l] = location[l]
  BY <1>2 DEF LocationInv, LocationShapes
<1>5. location'[k].phase = "there" /\ location'[k].groupId = g BY <1>4
<1>6. /\ g \in Group /\ club[g].phase # "none"
      /\ \A t \in Slot : /\ moving[t].op # "idle" => moving[t].g \in Group
                         /\ moving[t].op \in Placing => moving[t].l \in Location
                         /\ moving[t].op \in Bearing => moving[t].ids \subseteq Location
      /\ \A h \in Group : club[h].locations \subseteq Location
  BY <1>2, MovingFields DEF LocationInv, Referred, UnderTheCap
<1> DEFINE r == [op |-> "attach", g |-> g, l |-> k]
<1>7. MovingShape(r) BY <1>6 DEF MovingShape, Placing, Adding
<1>8. r.op = "attach" /\ r.g = g /\ r.l = k OBVIOUS
<1>9. L!Hold(s, r) BY <1>1
<1>10. \A h \in Group : k \notin club[h].locations BY <1>3 DEF LocationInv, Referred
<1>11. \A t \in Slot : /\ moving[t].op \in Placing => moving[t].l # k
                       /\ moving[t].op \in Bearing => k \notin moving[t].ids
  BY <1>3 DEF LocationInv, Referred
<1>12. \A t \in Slot : moving[t].op \in Bearing \cup Ending => moving[t].g # g
  BY <1>2 DEF LocationInv, KeptApart, Bearing, Ending
<1> HIDE DEF r, g
<1>13. /\ moving' = [t \in Slot |-> moving'[t]] /\ moving'[s] = r
       /\ \A t \in Slot : t # s => moving'[t] = moving[t]
  BY <1>9, MovesOn DEF LocationInv
<1>14. LocationShapes'
  BY <1>2, <1>4, <1>7, <1>9, LocationShapesKept DEF LocationInv, LocationShapes
<1>15. UnderTheCap' BY <1>2, <1>8, <1>13 DEF LocationInv, UnderTheCap
<1>16. Referred'
  BY <1>2, <1>3, <1>4, <1>5, <1>6, <1>8, <1>13 DEF LocationInv, Referred, Placing, Adding, Bearing
<1>17. KeptApart'
  BY <1>2, <1>8, <1>11, <1>12, <1>13 DEF LocationInv, KeptApart, Placing, Adding, Bearing, Ending, Erasing
<1>18. Informed'
  <2>1. ASSUME NEW t \in Slot, t # s, moving[t].op = "drop" PROVE moving[t].g # g
    BY <1>12, <2>1 DEF Ending
  <2> QED
    BY <1>2, <1>4, <1>5, <1>6, <1>8, <1>10, <1>11, <1>13, <2>1
    DEF LocationInv, Informed, Placing, Adding, Bearing, Erasing
<1>19. ListsLive'
  BY <1>2, <1>4, <1>6, <1>8, <1>10, <1>11, <1>13, SMTT(30)
  DEF LocationInv, ListsLive, WentAlong, Dropping, Pulling, Bearing
<1>20. OwnedListed'
  BY <1>2, <1>4, <1>5, <1>8, <1>13 DEF LocationInv, OwnedListed, Adding
<1> QED BY <1>14, <1>15, <1>16, <1>17, <1>18, <1>19, <1>20 DEF LocationInv

-----------------------------------------------------------------------------
\* What the requests in flight name exists.
LEMMA Ranges ==
  ASSUME LocationInv
  PROVE  /\ \A t \in Slot : /\ moving[t].op # "idle" => moving[t].g \in Group
                            /\ moving[t].op \in Placing => moving[t].l \in Location
                            /\ moving[t].op \in Bearing => moving[t].ids \subseteq Location
         /\ \A h \in Group : club[h].locations \subseteq Location
BY MovingFields DEF LocationInv, UnderTheCap

LEMMA IdleShape == MovingShape(L!Idle) /\ L!Idle.op = "idle"
BY DEF MovingShape, L!Idle

\* The list of a group changes.
LEMMA ListWritten ==
  ASSUME LocationInv, NEW g \in Group, NEW list, club' = [club EXCEPT ![g].locations = list]
  PROVE  /\ club' = [h \in Group |-> club'[h]]
         /\ club'[g] = [phase |-> club[g].phase, owner |-> club[g].owner,
                        staff |-> club[g].staff, locations |-> list]
         /\ \A h \in Group : h # g => club'[h] = club[h]
<1> DEFINE m == club[g]
<1>1. /\ club' = [h \in Group |-> club'[h]] /\ club'[g] = [m EXCEPT !.locations = list]
      /\ \A h \in Group : h # g => club'[h] = club[h]
  BY DEF LocationInv, LocationShapes
<1>2. m = [phase |-> m.phase, owner |-> m.owner, staff |-> m.staff, locations |-> m.locations]
  BY DEF LocationInv, LocationShapes
<1> HIDE DEF m
<1>3. [m EXCEPT !.locations = list]
        = [phase |-> m.phase, owner |-> m.owner, staff |-> m.staff, locations |-> list]
  BY <1>2
<1> QED BY <1>1, <1>3 DEF m

LEMMA AttachStep ==
  ASSUME LocationInv, LocationBounds, NEW s \in Slot, L!Attach(s)
  PROVE  LocationInv'
<1> DEFINE g == moving[s].g
           k == moving[s].l
<1>1. moving[s].op = "attach" /\ location' = location BY DEF L!Attach
<1>2. /\ g \in Group /\ k \in Location /\ location[k].phase = "there" /\ location[k].groupId = g
      /\ \A h \in Group : k \notin club[h].locations
      /\ \A t \in Slot : moving[t].op \in Bearing => k \notin moving[t].ids
  BY <1>1, Ranges DEF LocationInv, Informed, Placing, Adding
<1>3. \A t \in Slot : /\ moving[t].op \in Ending \cup Bearing => moving[t].g # g
                      /\ t # s /\ moving[t].op \in Placing => moving[t].l # k
  BY <1>1 DEF LocationInv, KeptApart, Ending, Adding, Bearing
<1>4. CASE L!Room(g)
  <2>1. /\ club' = [club EXCEPT ![g].locations = club[g].locations \cup {k}]
        /\ L!Hold(s, L!Idle) /\ club[g].phase = "there"
        /\ Cardinality(club[g].locations) < MaxGroupLocations
    <3>1. \A S : L!Cardinality(S) = Cardinality(S) BY Zenon DEF L!Cardinality, Cardinality
    <3> QED BY <1>4, <3>1 DEF L!Attach, L!Room, L!Live
  <2>2. \A h \in Group : club[h].locations \subseteq Location BY Ranges
  <2>0. k = moving[s].l OBVIOUS
  <2> HIDE DEF g, k
  <2> DEFINE list == club[g].locations \cup {k}
  <2>3. Cardinality(list) <= MaxGroupLocations /\ list \subseteq Location
    <3>1. IsFiniteSet(club[g].locations) BY <1>2, <2>2, FS_Subset DEF LocationBounds
    <3>2. Cardinality(list) = Cardinality(club[g].locations) + 1
      BY <1>2, <3>1, FS_AddElement
    <3>3. Cardinality(club[g].locations) \in Nat BY <3>1, FS_CardinalityType
    <3> QED BY <1>2, <2>1, <2>2, <3>2, <3>3 DEF LocationBounds
  <2>4. club' = [club EXCEPT ![g].locations = list] BY <2>1
  <2>5. \A l : l \in list <=> l \in club[g].locations \/ l = k OBVIOUS
  <2> HIDE DEF list
  <2>6. /\ club' = [h \in Group |-> club'[h]]
        /\ club'[g] = [phase |-> club[g].phase, owner |-> club[g].owner,
                       staff |-> club[g].staff, locations |-> list]
        /\ \A h \in Group : h # g => club'[h] = club[h]
    BY <1>2, <2>4, ListWritten
  <2>7. club'[g].phase = "there" /\ club'[g].locations = list BY <2>1, <2>6
  <2>8. /\ moving' = [t \in Slot |-> moving'[t]] /\ moving'[s] = L!Idle
        /\ \A t \in Slot : t # s => moving'[t] = moving[t]
    BY <2>1, MovesOn DEF LocationInv
  <2>9. moving'[s].op = "idle" BY <2>8, IdleShape
  <2>10. LocationShapes'
    <3>1. \A h \in Group : club'[h] = [phase |-> club'[h].phase, owner |-> club'[h].owner,
                                       staff |-> club'[h].staff, locations |-> club'[h].locations]
      BY <2>6 DEF LocationInv, LocationShapes
    <3> QED BY <1>1, <2>1, <2>6, <3>1, IdleShape, LocationShapesKept DEF LocationInv, LocationShapes
  <2>11. UnderTheCap' BY <1>2, <2>3, <2>6, <2>7, <2>8, <2>9 DEF LocationInv, UnderTheCap
  <2>12. Referred'
    BY <1>1, <1>2, <2>1, <2>5, <2>6, <2>7, <2>8, <2>9
    DEF LocationInv, Referred, Placing, Adding, Erasing, Bearing
  <2>13. KeptApart'
    BY <2>8, <2>9 DEF LocationInv, KeptApart, Placing, Adding, Erasing, Bearing, Ending
  <2>14. Informed'
    BY <1>1, <1>2, <1>3, <2>1, <2>2, <2>5, <2>6, <2>7, <2>8, <2>9, Ranges
    DEF LocationInv, Informed, Placing, Adding, Erasing, Bearing
  <2>15. ListsLive'
    BY <1>1, <1>2, <2>1, <2>2, <2>5, <2>6, <2>7, <2>8, <2>9, Ranges
    DEF LocationInv, ListsLive, WentAlong, Dropping, Pulling, Bearing
  <2>16. OwnedListed'
    BY <1>1, <1>2, <2>0, <2>1, <2>5, <2>6, <2>7, <2>8, <2>9
    DEF LocationInv, OwnedListed, Adding
  <2> QED BY <2>10, <2>11, <2>12, <2>13, <2>14, <2>15, <2>16 DEF LocationInv
<1>5. CASE ~L!Room(g)
  <2>1. club' = club /\ L!Go(s, "undo") BY <1>5 DEF L!Attach
  <2> DEFINE r == [op |-> "undo", g |-> g, l |-> k]
  <2>2. L!Hold(s, r) BY <1>1, <2>1, PlacingGoes DEF Placing, Adding
  <2>3. MovingShape(r) BY <1>2 DEF MovingShape, Placing, Adding
  <2>4. r.op = "undo" /\ r.g = g /\ r.l = k OBVIOUS
  <2> HIDE DEF r
  <2>5. /\ moving' = [t \in Slot |-> moving'[t]] /\ moving'[s] = r
        /\ \A t \in Slot : t # s => moving'[t] = moving[t]
    BY <2>2, MovesOn DEF LocationInv
  <2>6. LocationShapes'
    BY <1>1, <2>1, <2>2, <2>3, LocationShapesKept DEF LocationInv, LocationShapes
  <2>7. UnderTheCap' BY <2>1, <2>4, <2>5 DEF LocationInv, UnderTheCap
  <2>8. Referred'
    BY <1>1, <2>1, <2>4, <2>5 DEF LocationInv, Referred, Placing, Adding, Bearing
  <2>9. KeptApart'
    BY <1>1, <2>4, <2>5 DEF LocationInv, KeptApart, Placing, Adding, Bearing, Erasing, Ending
  <2>10. Informed' BY <1>1, <2>1, <2>4, <2>5 DEF LocationInv, Informed, Adding, Bearing
  <2>11. ListsLive'
    BY <1>1, <2>1, <2>4, <2>5 DEF LocationInv, ListsLive, WentAlong, Dropping, Pulling
  <2>12. OwnedListed' BY <1>1, <2>1, <2>4, <2>5 DEF LocationInv, OwnedListed, Adding
  <2> QED BY <2>6, <2>7, <2>8, <2>9, <2>10, <2>11, <2>12 DEF LocationInv
<1> QED BY <1>4, <1>5

-----------------------------------------------------------------------------
LEMMA UndoStep ==
  ASSUME LocationInv, LocationBounds, NEW s \in Slot, L!Undo(s)
  PROVE  LocationInv'
<1> DEFINE k == moving[s].l
<1>1. /\ moving[s].op = "undo" /\ club' = club /\ L!Hold(s, L!Idle) /\ L!Delete(k)
      /\ k \in Location
  BY Ranges DEF L!Undo, Placing, Adding
<1>2. /\ \A h \in Group : k \notin club[h].locations
      /\ \A t \in Slot : moving[t].op \in Bearing => k \notin moving[t].ids
      /\ \A t \in Slot : t # s /\ moving[t].op \in Placing => moving[t].l # k
  BY <1>1 DEF LocationInv, Informed, KeptApart, Adding
<1>0. k = moving[s].l OBVIOUS
<1> HIDE DEF k
<1>3. /\ location' = [l \in Location |-> location'[l]]
      /\ location'[k] = [phase |-> "deleted", createdBy |-> location[k].createdBy,
                         groupId |-> location[k].groupId]
      /\ \A l \in Location : l # k => location'[l] = location[l]
  BY <1>1, LocationWritten
<1>4. location'[k].phase = "deleted" /\ location'[k].groupId = location[k].groupId BY <1>3
<1>5. /\ moving' = [t \in Slot |-> moving'[t]] /\ moving'[s] = L!Idle
      /\ \A t \in Slot : t # s => moving'[t] = moving[t]
  BY <1>1, MovesOn DEF LocationInv
<1>6. moving'[s].op = "idle" BY <1>5, IdleShape
<1>7. LocationShapes'
  <2>1. \A l \in Location : location'[l] = [phase |-> location'[l].phase,
                                            createdBy |-> location'[l].createdBy,
                                            groupId |-> location'[l].groupId]
    BY <1>3 DEF LocationInv, LocationShapes
  <2> QED BY <1>1, <1>3, <2>1, IdleShape, LocationShapesKept DEF LocationInv, LocationShapes
<1>8. UnderTheCap' BY <1>1, <1>5, <1>6 DEF LocationInv, UnderTheCap
<1>9. Referred'
  BY <1>1, <1>3, <1>4, <1>5, <1>6, Ranges DEF LocationInv, Referred, Placing, Adding, Erasing, Bearing
<1>10. KeptApart'
  BY <1>5, <1>6 DEF LocationInv, KeptApart, Placing, Adding, Erasing, Bearing, Ending
<1>11. Informed'
  BY <1>1, <1>2, <1>3, <1>4, <1>5, <1>6, Ranges
  DEF LocationInv, Informed, Placing, Adding, Erasing, Bearing
<1>12. ListsLive'
  BY <1>1, <1>2, <1>3, <1>5, <1>6, Ranges
  DEF LocationInv, ListsLive, WentAlong, Dropping, Pulling, Bearing
<1>13. OwnedListed'
  BY <1>0, <1>1, <1>3, <1>4, <1>5, <1>6 DEF LocationInv, OwnedListed, Adding
<1> QED BY <1>7, <1>8, <1>9, <1>10, <1>11, <1>12, <1>13 DEF LocationInv

LEMMA DeleteRowStep ==
  ASSUME LocationInv, LocationBounds, NEW s \in Slot, L!DeleteRow(s)
  PROVE  LocationInv'
<1> DEFINE k == moving[s].l
           g == moving[s].g
           r == [op |-> "pull", g |-> g, l |-> k]
<1>1. /\ moving[s].op = "delete" /\ club' = club /\ L!Hold(s, r) /\ L!Delete(k)
      /\ k \in Location /\ g \in Group
  BY Ranges, PlacingGoes DEF L!DeleteRow, Placing, Erasing
<1>2. /\ \A t \in Slot : moving[t].op \in Bearing => k \notin moving[t].ids
      /\ \A t \in Slot : moving[t].op \in Adding => moving[t].l # k
  BY <1>1 DEF LocationInv, Informed, KeptApart, Adding, Erasing, Placing
<1>0. k = moving[s].l /\ g = moving[s].g OBVIOUS
<1> HIDE DEF k, g
<1>3. r.op = "pull" /\ r.g = g /\ r.l = k OBVIOUS
<1>4. MovingShape(r) BY <1>1 DEF MovingShape, Placing, Erasing
<1> HIDE DEF r
<1>5. /\ location' = [l \in Location |-> location'[l]]
      /\ location'[k] = [phase |-> "deleted", createdBy |-> location[k].createdBy,
                         groupId |-> location[k].groupId]
      /\ \A l \in Location : l # k => location'[l] = location[l]
  BY <1>1, LocationWritten
<1>6. location'[k].phase = "deleted" /\ location'[k].groupId = location[k].groupId BY <1>5
<1>7. /\ moving' = [t \in Slot |-> moving'[t]] /\ moving'[s] = r
      /\ \A t \in Slot : t # s => moving'[t] = moving[t]
  BY <1>1, MovesOn DEF LocationInv
<1>8. LocationShapes'
  <2>1. \A l \in Location : location'[l] = [phase |-> location'[l].phase,
                                            createdBy |-> location'[l].createdBy,
                                            groupId |-> location'[l].groupId]
    BY <1>5 DEF LocationInv, LocationShapes
  <2> QED BY <1>1, <1>4, <1>5, <2>1, LocationShapesKept DEF LocationInv, LocationShapes
<1>9. UnderTheCap' BY <1>1, <1>3, <1>7 DEF LocationInv, UnderTheCap
<1>10. Referred'
  <2>0. \A l \in Location : location[l].phase # "none" => location'[l].phase # "none"
    BY <1>5, <1>6
  <2>1. \A o \in Group : \A l \in club'[o].locations : location'[l].phase # "none"
    <3> TAKE o \in Group
    <3> TAKE l \in club'[o].locations
    <3>1. l \in club[o].locations BY <1>1
    <3>2. l \in Location BY <3>1, Ranges
    <3>3. location[l].phase # "none" BY <3>1 DEF LocationInv, Referred
    <3> QED BY <2>0, <3>2, <3>3
  <2>2. \A l \in Location : location'[l].groupId # Null =>
          location'[l].groupId \in Group /\ club'[location'[l].groupId].phase # "none"
    BY <1>1, <1>5, <1>6 DEF LocationInv, Referred
  <2>4. ASSUME NEW t \in Slot
        PROVE  /\ moving'[t].op \in Placing => location'[moving'[t].l].phase # "none"
               /\ moving'[t].op \in Bearing => \A l \in moving'[t].ids : location'[l].phase # "none"
               /\ moving'[t].op = "birth" => club'[moving'[t].g].phase = "none"
               /\ moving'[t].op \notin {"idle", "birth"} => club'[moving'[t].g].phase # "none"
    <3>1. CASE t = s
      BY <1>0, <1>1, <1>3, <1>6, <1>7, <3>1 DEF LocationInv, Referred, Placing, Adding, Erasing, Bearing
    <3>2. CASE t # s
      BY <1>1, <1>7, <2>0, <3>2, Ranges DEF LocationInv, Referred, Placing, Adding, Erasing, Bearing
    <3> QED BY <3>1, <3>2
  <2> QED BY <2>1, <2>2, <2>4 DEF Referred
<1>11. KeptApart'
  BY <1>0, <1>1, <1>3, <1>7 DEF LocationInv, KeptApart, Placing, Adding, Erasing, Bearing, Ending
<1>12. Informed'
  BY <1>1, <1>2, <1>3, <1>5, <1>6, <1>7, Ranges
  DEF LocationInv, Informed, Placing, Adding, Erasing, Bearing
<1>13. ListsLive'
  BY <1>1, <1>2, <1>3, <1>5, <1>6, <1>7, Ranges
  DEF LocationInv, ListsLive, WentAlong, Dropping, Pulling, Bearing
<1>14. OwnedListed'
  BY <1>0, <1>1, <1>3, <1>5, <1>6, <1>7 DEF LocationInv, OwnedListed, Adding
<1> QED BY <1>8, <1>9, <1>10, <1>11, <1>12, <1>13, <1>14 DEF LocationInv

LEMMA DetachStep ==
  ASSUME LocationInv, LocationBounds, NEW s \in Slot, L!Detach(s)
  PROVE  LocationInv'
<1> DEFINE g == moving[s].g
           k == moving[s].l
           list == club[g].locations \ {k}
<1>1. /\ moving[s].op = "detach" /\ location' = location /\ L!Hold(s, L!Idle)
      /\ club' = [club EXCEPT ![g].locations = list] /\ g \in Group /\ k \in Location
      /\ location[k].groupId # g
  BY Ranges DEF L!Detach, Placing, LocationInv, Informed
<1>2. \A t \in Slot : moving[t].op \in Bearing => moving[t].g # g
  BY <1>1 DEF LocationInv, KeptApart, Bearing
<1>3. \A l : l \in list <=> l \in club[g].locations /\ l # k OBVIOUS
<1>4. Cardinality(list) <= Cardinality(club[g].locations) /\ Cardinality(club[g].locations) \in Nat
      /\ Cardinality(list) \in Nat
  <2>1. IsFiniteSet(club[g].locations) BY <1>1, Ranges, FS_Subset DEF LocationBounds
  <2>2. list \subseteq club[g].locations OBVIOUS
  <2> HIDE DEF list
  <2> QED BY <2>1, <2>2, FS_Subset, FS_CardinalityType
<1> HIDE DEF k, g, list
<1>5. /\ club' = [h \in Group |-> club'[h]]
      /\ club'[g] = [phase |-> club[g].phase, owner |-> club[g].owner,
                     staff |-> club[g].staff, locations |-> list]
      /\ \A h \in Group : h # g => club'[h] = club[h]
  BY <1>1, ListWritten
<1>6. club'[g].phase = club[g].phase /\ club'[g].locations = list BY <1>5
<1>7. /\ moving' = [t \in Slot |-> moving'[t]] /\ moving'[s] = L!Idle
      /\ \A t \in Slot : t # s => moving'[t] = moving[t]
  BY <1>1, MovesOn DEF LocationInv
<1>8. moving'[s].op = "idle" BY <1>7, IdleShape
<1>9. LocationShapes'
  <2>1. \A h \in Group : club'[h] = [phase |-> club'[h].phase, owner |-> club'[h].owner,
                                     staff |-> club'[h].staff, locations |-> club'[h].locations]
    BY <1>5 DEF LocationInv, LocationShapes
  <2> QED BY <1>1, <1>5, <2>1, IdleShape, LocationShapesKept DEF LocationInv, LocationShapes
<1>10. UnderTheCap'
  BY <1>1, <1>3, <1>4, <1>5, <1>6, <1>7, <1>8 DEF LocationInv, UnderTheCap, LocationBounds
<1>11. Referred'
  BY <1>1, <1>3, <1>5, <1>6, <1>7, <1>8 DEF LocationInv, Referred, Placing, Adding, Erasing, Bearing
<1>12. KeptApart'
  BY <1>7, <1>8 DEF LocationInv, KeptApart, Placing, Adding, Erasing, Bearing, Ending
<1>13. Informed'
  BY <1>1, <1>2, <1>3, <1>5, <1>6, <1>7, <1>8, Ranges
  DEF LocationInv, Informed, Placing, Adding, Erasing, Bearing
<1>14. ListsLive'
  BY <1>1, <1>2, <1>3, <1>5, <1>6, <1>7, <1>8, Ranges
  DEF LocationInv, ListsLive, WentAlong, Dropping, Pulling, Bearing
<1>15. OwnedListed'
  BY <1>1, <1>3, <1>5, <1>6, <1>7, <1>8 DEF LocationInv, OwnedListed, Adding
<1> QED BY <1>9, <1>10, <1>11, <1>12, <1>13, <1>14, <1>15 DEF LocationInv

-----------------------------------------------------------------------------
LEMMA PullStep ==
  ASSUME LocationInv, LocationBounds, NEW s \in Slot, L!Pull(s)
  PROVE  LocationInv'
<1> DEFINE k == moving[s].l
<1>1. /\ moving[s].op = "pull" /\ location' = location /\ L!Hold(s, L!Idle)
      /\ club' = [h \in Group |-> [club[h] EXCEPT !.locations = club[h].locations \ {k}]]
      /\ k \in Location /\ location[k].phase # "there"
  BY Ranges DEF L!Pull, L!Pulled, Placing, Erasing, LocationInv, Informed
<1>2. \A t \in Slot : moving[t].op \in Bearing => k \notin moving[t].ids
  BY <1>1 DEF LocationInv, KeptApart, Erasing
<1>0. k = moving[s].l OBVIOUS
<1> HIDE DEF k
<1>3. /\ club' = [h \in Group |-> club'[h]]
      /\ \A h \in Group : club'[h] = [phase |-> club[h].phase, owner |-> club[h].owner,
                                      staff |-> club[h].staff, locations |-> club[h].locations \ {k}]
  <2>1. ASSUME NEW h \in Group
        PROVE  club'[h] = [phase |-> club[h].phase, owner |-> club[h].owner,
                           staff |-> club[h].staff, locations |-> club[h].locations \ {k}]
    <3> DEFINE m == club[h]
               list == club[h].locations \ {k}
    <3>1. m = [phase |-> m.phase, owner |-> m.owner, staff |-> m.staff, locations |-> m.locations]
      BY DEF LocationInv, LocationShapes
    <3>2. club'[h] = [m EXCEPT !.locations = list] BY <1>1
    <3> HIDE DEF m, list
    <3>3. club'[h] = [phase |-> m.phase, owner |-> m.owner, staff |-> m.staff, locations |-> list]
      BY <3>1, <3>2
    <3> QED BY <3>3 DEF m, list
  <2> QED BY <1>1, <2>1
<1>4. /\ \A h \in Group : club'[h].phase = club[h].phase
      /\ \A h \in Group : \A l : l \in club'[h].locations <=> l \in club[h].locations /\ l # k
  BY <1>3
<1>5. \A h \in Group : Cardinality(club'[h].locations) <= MaxGroupLocations
  <2> SUFFICES ASSUME NEW h \in Group PROVE Cardinality(club'[h].locations) <= MaxGroupLocations
    OBVIOUS
  <2>1. IsFiniteSet(club[h].locations) BY Ranges, FS_Subset DEF LocationBounds
  <2>2. club'[h].locations \subseteq club[h].locations BY <1>4
  <2>3. /\ Cardinality(club'[h].locations) <= Cardinality(club[h].locations)
        /\ Cardinality(club[h].locations) \in Nat /\ Cardinality(club'[h].locations) \in Nat
    BY <2>1, <2>2, FS_Subset, FS_CardinalityType
  <2>4. Cardinality(club[h].locations) <= MaxGroupLocations BY DEF LocationInv, UnderTheCap
  <2> QED BY <2>3, <2>4 DEF LocationBounds
<1>6. /\ moving' = [t \in Slot |-> moving'[t]] /\ moving'[s] = L!Idle
      /\ \A t \in Slot : t # s => moving'[t] = moving[t]
  BY <1>1, MovesOn DEF LocationInv
<1>7. moving'[s].op = "idle" BY <1>6, IdleShape
<1>8. LocationShapes'
  <2>1. \A h \in Group : club'[h] = [phase |-> club'[h].phase, owner |-> club'[h].owner,
                                     staff |-> club'[h].staff, locations |-> club'[h].locations]
    BY <1>3
  <2> QED BY <1>1, <1>3, <2>1, IdleShape, LocationShapesKept, ZenonT(30) DEF LocationInv, LocationShapes
<1>9. UnderTheCap'
  <2>1. \A h \in Group : club'[h].locations \subseteq Location BY <1>4, Ranges
  <2> QED BY <1>5, <1>6, <1>7, <2>1 DEF LocationInv, UnderTheCap
<1>10. Referred'
  BY <1>1, <1>4, <1>6, <1>7, Ranges DEF LocationInv, Referred, Placing, Adding, Erasing, Bearing
<1>11. KeptApart'
  BY <1>6, <1>7 DEF LocationInv, KeptApart, Placing, Adding, Erasing, Bearing, Ending
<1>12. Informed'
  <2> SUFFICES ASSUME NEW t \in Slot PROVE Informed!(t)'
    BY DEF Informed
  <2>1. CASE t = s BY <1>7, <2>1 DEF Adding
  <2>2. CASE t # s
    <3>1. moving'[t] = moving[t] BY <1>6, <2>2
    <3>2. Informed!(t) BY DEF LocationInv, Informed
    <3>3. moving[t].op \in Adding =>
            \A u \in Slot : moving'[u].op \in Bearing => moving[t].l \notin moving'[u].ids
      BY <1>6, <1>7, <3>2 DEF Bearing
    <3>4. moving[t].op = "adopt" => moving[t].g \in Group /\ k \notin moving[t].ids
      BY <1>2, Ranges DEF Bearing
    <3>5. moving[t].op \in Adding => \A g \in Group : moving[t].l \notin club'[g].locations
      BY <1>4, <3>2
    <3>6. moving[t].op = "adopt" =>
            club'[moving[t].g].phase = "there" /\ moving[t].ids \subseteq club'[moving[t].g].locations
      BY <1>4, <3>2, <3>4
    <3> QED BY <1>1, <3>1, <3>2, <3>3, <3>5, <3>6
  <2> QED BY <2>1, <2>2
<1>13. ListsLive'
  <2>1. ASSUME NEW l \in Location, WentAlong(l) PROVE WentAlong(l)'
    BY <1>1, <1>4, <1>6, <1>7, <2>1 DEF WentAlong, Dropping
  <2>2. ASSUME NEW l \in Location, l # k, Pulling(l) PROVE Pulling(l)'
    BY <1>0, <1>6, <1>7, <2>2 DEF Pulling
  <2>3. ASSUME NEW g \in Group, Dropping(g) PROVE Dropping(g)'
    BY <1>1, <1>6, <1>7, <2>3 DEF Dropping
  <2> QED
    BY <1>1, <1>2, <1>4, <1>6, <1>7, <2>1, <2>2, <2>3, Ranges, ZenonT(30) DEF LocationInv, ListsLive, Bearing
<1>14. OwnedListed'
  BY <1>1, <1>4, <1>6, <1>7 DEF LocationInv, OwnedListed, Adding, Referred
<1> QED BY <1>8, <1>9, <1>10, <1>11, <1>12, <1>13, <1>14 DEF LocationInv

LEMMA BirthStep ==
  ASSUME LocationInv, LocationBounds, NEW s \in Slot, L!Birth(s)
  PROVE  LocationInv'
<1> DEFINE g == moving[s].g
           by == moving[s].by
           ids == moving[s].ids
           r == [op |-> "adopt", g |-> g, by |-> by, ids |-> ids]
<1>1. PICK others \in SUBSET Person :
        club' = [club EXCEPT ![g] = [phase |-> "there", owner |-> by, staff |-> {by} \cup others,
                                     locations |-> ids]]
  BY DEF L!Birth
<1>2. /\ moving[s].op = "birth" /\ location' = location /\ g \in Group /\ ids \subseteq Location
      /\ club[g].phase = "none" /\ Cardinality(ids) <= MaxGroupLocations
      /\ \A l \in ids : location[l].phase # "none"
      /\ \A l \in ids : location[l].phase = "there" \/ WentAlong(l)
  BY Ranges DEF L!Birth, Bearing, LocationInv, UnderTheCap, Referred, ListsLive
<1>3. L!Hold(s, r)
  <2> DEFINE m == moving[s]
  <2>1. L!Hold(s, [m EXCEPT !.op = "adopt"]) BY DEF L!Birth, L!Go
  <2>2. m = [op |-> m.op, g |-> m.g, by |-> m.by, ids |-> m.ids]
    BY <1>2 DEF LocationInv, LocationShapes, MovingShape, Placing, Adding, Erasing, Bearing, Ending
  <2> HIDE DEF m
  <2>3. [m EXCEPT !.op = "adopt"] = [op |-> "adopt", g |-> m.g, by |-> m.by, ids |-> m.ids]
    BY <2>2
  <2> QED BY <2>1, <2>3 DEF m
<1>4. r.op = "adopt" /\ r.g = g /\ r.ids = ids OBVIOUS
<1>5. MovingShape(r) BY <1>2 DEF MovingShape, Bearing
<1>0. g = moving[s].g /\ ids = moving[s].ids OBVIOUS
<1> HIDE DEF g, by, ids, r
<1>6. /\ club' = [h \in Group |-> club'[h]]
      /\ club'[g] = [phase |-> "there", owner |-> by, staff |-> {by} \cup others, locations |-> ids]
      /\ \A h \in Group : h # g => club'[h] = club[h]
  BY <1>1, <1>2 DEF LocationInv, LocationShapes
<1>7. club'[g].phase = "there" /\ club'[g].locations = ids BY <1>6
<1>8. /\ moving' = [t \in Slot |-> moving'[t]] /\ moving'[s] = r
      /\ \A t \in Slot : t # s => moving'[t] = moving[t]
  BY <1>3, MovesOn DEF LocationInv
<1>9. /\ \A t \in Slot : t # s /\ moving[t].op # "idle" => moving[t].g # g
      /\ \A t \in Slot : moving[t].op \in Adding => moving[t].l \notin ids
      /\ \A l \in Location : location[l].groupId # g
  BY <1>0, <1>2 DEF LocationInv, KeptApart, Informed, Referred, Bearing, LocationBounds
<1>10. LocationShapes'
  <2>1. \A h \in Group : club'[h] = [phase |-> club'[h].phase, owner |-> club'[h].owner,
                                     staff |-> club'[h].staff, locations |-> club'[h].locations]
    BY <1>6 DEF LocationInv, LocationShapes
  <2> QED BY <1>2, <1>3, <1>5, <1>6, <2>1, LocationShapesKept DEF LocationInv, LocationShapes
<1>11. UnderTheCap' BY <1>2, <1>4, <1>6, <1>7, <1>8 DEF LocationInv, UnderTheCap
<1>12. Referred'
  BY <1>0, <1>2, <1>4, <1>6, <1>7, <1>8, <1>9, Ranges
  DEF LocationInv, Referred, Placing, Adding, Erasing, Bearing
<1>13. KeptApart'
  BY <1>0, <1>2, <1>4, <1>8, <1>9 DEF LocationInv, KeptApart, Placing, Adding, Erasing, Bearing, Ending
<1>14. Informed'
  BY <1>0, <1>2, <1>4, <1>6, <1>7, <1>8, <1>9, Ranges
  DEF LocationInv, Informed, Placing, Adding, Erasing, Bearing
<1>15. ListsLive'
  <2>1. ASSUME NEW l \in Location, WentAlong(l) PROVE WentAlong(l)'
    BY <1>2, <1>4, <1>6, <1>8, <1>9, <2>1 DEF WentAlong, Dropping
  <2> QED
    BY <1>2, <1>4, <1>6, <1>7, <1>8, <1>9, <2>1, Ranges
    DEF LocationInv, ListsLive, Dropping, Pulling, Bearing
<1>16. OwnedListed'
  BY <1>2, <1>4, <1>6, <1>8, <1>9 DEF LocationInv, OwnedListed, Adding, Referred
<1> QED BY <1>10, <1>11, <1>12, <1>13, <1>14, <1>15, <1>16 DEF LocationInv

-----------------------------------------------------------------------------
LEMMA AdoptStep ==
  ASSUME LocationInv, LocationBounds, NEW s \in Slot, L!Adopt(s)
  PROVE  LocationInv'
<1> DEFINE g == moving[s].g
           ids == moving[s].ids
           taken(l) == l \in ids /\ L!Unclaimed(l, moving[s].by)
<1>1. /\ moving[s].op = "adopt" /\ club' = club /\ L!Hold(s, L!Idle)
      /\ location' = [l \in Location |-> IF taken(l) THEN [location[l] EXCEPT !.groupId = g]
                                         ELSE location[l]]
      /\ g \in Group /\ ids \subseteq club[g].locations /\ club[g].phase = "there"
  BY Ranges DEF L!Adopt, Bearing, LocationInv, Informed
<1>2. \A l \in Location : taken(l) =>
        l \in ids /\ location[l].phase = "there" /\ location[l].groupId = Null
  BY DEF L!Unclaimed, L!There
<1>0. g = moving[s].g /\ ids = moving[s].ids OBVIOUS
<1> HIDE DEF g, ids, taken
<1>3. location' = [l \in Location |-> location'[l]] BY <1>1
<1>4. ASSUME NEW l \in Location, taken(l)
      PROVE  location'[l] = [phase |-> location[l].phase, createdBy |-> location[l].createdBy,
                             groupId |-> g]
  <2> DEFINE m == location[l]
  <2>1. location'[l] = [m EXCEPT !.groupId = g] BY <1>1, <1>4
  <2>2. m = [phase |-> m.phase, createdBy |-> m.createdBy, groupId |-> m.groupId]
    BY DEF LocationInv, LocationShapes
  <2> HIDE DEF m
  <2>3. location'[l] = [phase |-> m.phase, createdBy |-> m.createdBy, groupId |-> g]
    BY <2>1, <2>2
  <2> QED BY <2>3 DEF m
<1>5. \A l \in Location : ~taken(l) => location'[l] = location[l] BY <1>1
<1>6. ASSUME NEW l \in Location
      PROVE  /\ location'[l].phase = location[l].phase
             /\ taken(l) => location'[l].groupId = g
             /\ ~taken(l) => location'[l].groupId = location[l].groupId
             /\ location'[l] = [phase |-> location'[l].phase, createdBy |-> location'[l].createdBy,
                                groupId |-> location'[l].groupId]
  <2>1. CASE taken(l)
    <3>1. location'[l] = [phase |-> location[l].phase, createdBy |-> location[l].createdBy,
                          groupId |-> g]
      BY <1>4, <2>1
    <3> QED BY <2>1, <3>1
  <2>2. CASE ~taken(l) BY <1>5, <2>2 DEF LocationInv, LocationShapes
  <2> QED BY <2>1, <2>2
<1>7. /\ moving' = [t \in Slot |-> moving'[t]] /\ moving'[s] = L!Idle
      /\ \A t \in Slot : t # s => moving'[t] = moving[t]
  BY <1>1, MovesOn DEF LocationInv
<1>8. moving'[s].op = "idle" BY <1>7, IdleShape
<1>9. \A t \in Slot : t # s /\ moving[t].op # "idle" => moving[t].g # g
  BY <1>0, <1>1 DEF LocationInv, KeptApart, Bearing
<1>10. LocationShapes'
  <2>1. \A l \in Location : location'[l] = [phase |-> location'[l].phase,
                                            createdBy |-> location'[l].createdBy,
                                            groupId |-> location'[l].groupId]
    BY <1>6
  <2> QED BY <1>1, <1>3, <2>1, IdleShape, LocationShapesKept DEF LocationInv, LocationShapes
<1>11. UnderTheCap' BY <1>1, <1>7, <1>8 DEF LocationInv, UnderTheCap
<1>12. Referred'
  BY <1>1, <1>6, <1>7, <1>8, Ranges DEF LocationInv, Referred, Placing, Adding, Erasing, Bearing
<1>13. KeptApart'
  BY <1>7, <1>8 DEF LocationInv, KeptApart, Placing, Adding, Erasing, Bearing, Ending
<1>14. Informed'
  <2>1. \A t \in Slot : moving[t].op \in Adding => ~taken(moving[t].l)
    BY <1>0, <1>1, <1>2, Ranges DEF LocationInv, Informed, Placing, Bearing
  <2> QED
    BY <1>1, <1>6, <1>7, <1>8, <1>9, <2>1, Ranges
    DEF LocationInv, Informed, Placing, Adding, Erasing, Bearing
<1>15. ListsLive'
  <2>1. ASSUME NEW l \in Location, location[l].phase # "there", WentAlong(l)
        PROVE  WentAlong(l)' /\ location'[l].groupId = location[l].groupId
    BY <1>1, <1>2, <1>6, <1>7, <1>8, <2>1 DEF WentAlong, Dropping
  <2>2. ASSUME NEW l \in Location, Pulling(l) PROVE Pulling(l)'
    BY <1>1, <1>7, <1>8, <2>2 DEF Pulling
  <2>3. ASSUME NEW h \in Group, Dropping(h) PROVE Dropping(h)'
    BY <1>1, <1>7, <1>8, <2>3 DEF Dropping
  <2> QED
    BY <1>1, <1>6, <1>7, <1>8, <2>1, <2>2, <2>3, Ranges DEF LocationInv, ListsLive, Bearing
<1>16. OwnedListed'
  BY <1>1, <1>2, <1>6, <1>7, <1>8, Ranges DEF LocationInv, OwnedListed, Adding
<1> QED BY <1>10, <1>11, <1>12, <1>13, <1>14, <1>15, <1>16 DEF LocationInv

LEMMA PurgeStep ==
  ASSUME LocationInv, LocationBounds, NEW s \in Slot, L!Purge(s)
  PROVE  LocationInv'
<1> DEFINE g == moving[s].g
           gone(l) == l \in L!There /\ location[l].groupId = g
           r == [op |-> "drop", g |-> g]
<1>1. /\ moving[s].op = "purge" /\ club' = club /\ g \in Group
      /\ location' = [l \in Location |-> IF gone(l) THEN [location[l] EXCEPT !.phase = "deleted"]
                                         ELSE location[l]]
  BY Ranges DEF L!Purge
<1>2. \A l \in Location : gone(l) <=> location[l].phase = "there" /\ location[l].groupId = g
  BY DEF L!There
<1>3. L!Hold(s, r)
  <2> DEFINE m == moving[s]
  <2>1. L!Hold(s, [m EXCEPT !.op = "drop"]) BY DEF L!Purge, L!Go
  <2>2. m = [op |-> m.op, g |-> m.g]
    BY <1>1 DEF LocationInv, LocationShapes, MovingShape, Placing, Adding, Erasing, Bearing, Ending
  <2> HIDE DEF m
  <2>3. [m EXCEPT !.op = "drop"] = [op |-> "drop", g |-> m.g] BY <2>2
  <2> QED BY <2>1, <2>3 DEF m
<1>4. r.op = "drop" /\ r.g = g OBVIOUS
<1>5. MovingShape(r) BY <1>1 DEF MovingShape, Ending
<1>0. g = moving[s].g OBVIOUS
<1> HIDE DEF g, gone, r
<1>6. location' = [l \in Location |-> location'[l]] BY <1>1
<1>7. ASSUME NEW l \in Location, gone(l)
      PROVE  location'[l] = [phase |-> "deleted", createdBy |-> location[l].createdBy,
                             groupId |-> location[l].groupId]
  <2> DEFINE m == location[l]
  <2>1. location'[l] = [m EXCEPT !.phase = "deleted"] BY <1>1, <1>7
  <2>2. m = [phase |-> m.phase, createdBy |-> m.createdBy, groupId |-> m.groupId]
    BY DEF LocationInv, LocationShapes
  <2> HIDE DEF m
  <2>3. location'[l] = [phase |-> "deleted", createdBy |-> m.createdBy, groupId |-> m.groupId]
    BY <2>1, <2>2
  <2> QED BY <2>3 DEF m
<1>8. \A l \in Location : ~gone(l) => location'[l] = location[l] BY <1>1
<1>9. ASSUME NEW l \in Location
      PROVE  /\ location'[l].groupId = location[l].groupId
             /\ gone(l) => location'[l].phase = "deleted"
             /\ ~gone(l) => location'[l].phase = location[l].phase
             /\ location'[l] = [phase |-> location'[l].phase, createdBy |-> location'[l].createdBy,
                                groupId |-> location'[l].groupId]
  <2>1. CASE gone(l)
    <3>1. location'[l] = [phase |-> "deleted", createdBy |-> location[l].createdBy,
                          groupId |-> location[l].groupId]
      BY <1>7, <2>1
    <3> QED BY <2>1, <3>1
  <2>2. CASE ~gone(l) BY <1>8, <2>2 DEF LocationInv, LocationShapes
  <2> QED BY <2>1, <2>2
<1>10. /\ moving' = [t \in Slot |-> moving'[t]] /\ moving'[s] = r
       /\ \A t \in Slot : t # s => moving'[t] = moving[t]
  BY <1>3, MovesOn DEF LocationInv
<1>11. \A t \in Slot : /\ moving[t].op \in Adding \cup {"insert"} => moving[t].g # g
                       /\ moving[t].op \in Bearing => moving[t].g # g
  BY <1>0, <1>1 DEF LocationInv, KeptApart, Bearing, Ending, Adding
<1>12. LocationShapes'
  <2>1. \A l \in Location : location'[l] = [phase |-> location'[l].phase,
                                            createdBy |-> location'[l].createdBy,
                                            groupId |-> location'[l].groupId]
    BY <1>9
  <2> QED BY <1>1, <1>3, <1>5, <1>6, <2>1, LocationShapesKept DEF LocationInv, LocationShapes
<1>13. UnderTheCap' BY <1>1, <1>4, <1>10 DEF LocationInv, UnderTheCap
<1>14. Referred'
  BY <1>0, <1>1, <1>4, <1>9, <1>10, Ranges
  DEF LocationInv, Referred, Placing, Adding, Erasing, Bearing
<1>15. KeptApart'
  BY <1>0, <1>1, <1>4, <1>10, <1>11
  DEF LocationInv, KeptApart, Placing, Adding, Erasing, Bearing, Ending
<1>16. Informed'
  <2>1. \A t \in Slot : moving[t].op \in Adding => ~gone(moving[t].l)
    BY <1>2, <1>11, Ranges DEF LocationInv, Informed, Placing
  <2>2. \A l \in Location : location[l].groupId = g => location'[l].phase # "there"
    BY <1>2, <1>9
  <2>3. ASSUME NEW t \in Slot, moving'[t].op = "drop", NEW l \in Location,
               location'[l].groupId = moving'[t].g
        PROVE  location'[l].phase # "there"
    <3>1. CASE t = s BY <1>4, <1>9, <1>10, <2>2, <2>3, <3>1
    <3>2. CASE t # s
      <4>1. moving[t].op = "drop" /\ location[l].groupId = moving[t].g
        BY <1>9, <1>10, <2>3, <3>2
      <4>2. location[l].phase # "there" BY <4>1 DEF LocationInv, Informed
      <4> QED BY <1>2, <1>9, <4>2
    <3> QED BY <3>1, <3>2
  <2>4. ASSUME NEW t \in Slot, moving'[t].op = "pull"
        PROVE  location'[moving'[t].l].phase # "there"
    <3>1. t # s /\ moving'[t] = moving[t] BY <1>4, <1>10, <2>4
    <3>2. moving[t].l \in Location /\ location[moving[t].l].phase # "there"
      BY <2>4, <3>1, Ranges DEF LocationInv, Informed, Placing, Erasing
    <3> QED BY <1>2, <1>9, <3>1, <3>2
  <2> QED
    BY <1>1, <1>4, <1>9, <1>10, <2>1, <2>3, <2>4, Ranges
    DEF LocationInv, Informed, Placing, Adding, Erasing, Bearing
<1>17. ListsLive'
  <2>1. ASSUME NEW l \in Location, WentAlong(l) PROVE WentAlong(l)'
    BY <1>1, <1>4, <1>9, <1>10, <2>1 DEF WentAlong, Dropping
  <2>2. ASSUME NEW l \in Location, gone(l) PROVE WentAlong(l)'
    <3>1. location'[l].groupId = g BY <1>2, <1>9, <2>2
    <3>2. \E t \in Slot : moving'[t].op = "drop" /\ moving'[t].g = g BY <1>4, <1>10
    <3> QED BY <1>1, <3>1, <3>2 DEF WentAlong, Dropping
  <2>3. ASSUME NEW l \in Location, Pulling(l) PROVE Pulling(l)'
    BY <1>1, <1>4, <1>10, <2>3 DEF Pulling
  <2>4. ASSUME NEW h \in Group, Dropping(h) PROVE Dropping(h)'
    BY <1>1, <1>4, <1>10, <2>4 DEF Dropping
  <2>5. \E t \in Slot : moving'[t].op = "drop" /\ moving'[t].g = g BY <1>4, <1>10
  <2>6. ASSUME NEW h \in Group, club'[h].phase = "there", NEW l \in club'[h].locations
        PROVE  \/ location'[l].phase = "there"
               \/ location'[l].groupId # h /\ WentAlong(l)'
               \/ Pulling(l)' \/ Dropping(h)'
    <3>1. l \in Location /\ club[h].phase = "there" /\ l \in club[h].locations
      BY <1>1, <2>6, Ranges
    <3>2. CASE gone(l)
      <4>1. location'[l].groupId = g /\ WentAlong(l)' BY <1>2, <1>9, <2>2, <3>1, <3>2
      <4>2. h = g => Dropping(h)' BY <2>5 DEF Dropping
      <4> QED BY <4>1, <4>2
    <3>3. CASE ~gone(l)
      <4>1. \/ location[l].phase = "there"
            \/ location[l].groupId # h /\ WentAlong(l)
            \/ Pulling(l) \/ Dropping(h)
        BY <3>1 DEF LocationInv, ListsLive
      <4> QED BY <1>9, <2>1, <2>3, <2>4, <3>1, <3>3, <4>1
    <3> QED BY <3>2, <3>3
  <2>7. ASSUME NEW t \in Slot, moving'[t].op = "birth", NEW l \in moving'[t].ids
        PROVE  location'[l].phase = "there" \/ WentAlong(l)'
    <3>1. t # s /\ moving'[t] = moving[t] BY <1>4, <1>10, <2>7
    <3>2. /\ l \in Location
          /\ location[l].phase = "there" \/ WentAlong(l)
      BY <2>7, <3>1, Ranges DEF LocationInv, ListsLive, Bearing
    <3> QED BY <1>9, <2>1, <2>2, <3>2
  <2> QED BY <2>6, <2>7 DEF ListsLive
<1>18. OwnedListed'
  BY <1>1, <1>4, <1>9, <1>10, Ranges DEF LocationInv, OwnedListed, Adding
<1> QED BY <1>12, <1>13, <1>14, <1>15, <1>16, <1>17, <1>18 DEF LocationInv

LEMMA DropStep ==
  ASSUME LocationInv, LocationBounds, NEW s \in Slot, L!Drop(s)
  PROVE  LocationInv'
<1> DEFINE g == moving[s].g
<1>1. /\ moving[s].op = "drop" /\ location' = location /\ L!Hold(s, L!Idle) /\ g \in Group
      /\ club' = [club EXCEPT ![g] = [L!NoGroup EXCEPT !.phase = "deleted"]]
      /\ \A l \in Location : location[l].groupId = g => location[l].phase # "there"
  BY Ranges DEF L!Drop, LocationInv, Informed
<1>2. [L!NoGroup EXCEPT !.phase = "deleted"]
        = [phase |-> "deleted", owner |-> Null, staff |-> {}, locations |-> {}]
  BY DEF L!NoGroup
<1>0. g = moving[s].g OBVIOUS
<1> HIDE DEF g
<1>3. /\ club' = [h \in Group |-> club'[h]]
      /\ club'[g] = [phase |-> "deleted", owner |-> Null, staff |-> {}, locations |-> {}]
      /\ \A h \in Group : h # g => club'[h] = club[h]
  BY <1>1, <1>2 DEF LocationInv, LocationShapes
<1>4. club'[g].phase = "deleted" /\ club'[g].locations = {} BY <1>3
<1>5. /\ moving' = [t \in Slot |-> moving'[t]] /\ moving'[s] = L!Idle
      /\ \A t \in Slot : t # s => moving'[t] = moving[t]
  BY <1>1, MovesOn DEF LocationInv
<1>6. moving'[s].op = "idle" BY <1>5, IdleShape
<1>7. \A t \in Slot : /\ moving[t].op \in Bearing => moving[t].g # g
                      /\ moving[t].op \in Adding => moving[t].g # g
  BY <1>0, <1>1 DEF LocationInv, KeptApart, Bearing, Ending, Adding
<1>8. LocationShapes'
  <2>1. \A h \in Group : club'[h] = [phase |-> club'[h].phase, owner |-> club'[h].owner,
                                     staff |-> club'[h].staff, locations |-> club'[h].locations]
    BY <1>3 DEF LocationInv, LocationShapes
  <2> QED BY <1>1, <1>3, <2>1, IdleShape, LocationShapesKept DEF LocationInv, LocationShapes
<1>9. UnderTheCap'
  <2>1. Cardinality({}) = 0 BY FS_EmptySet
  <2>2. \A h \in Group : /\ club'[h].locations \subseteq Location
                         /\ Cardinality(club'[h].locations) <= MaxGroupLocations
    <3>1. 0 <= MaxGroupLocations BY DEF LocationBounds
    <3> SUFFICES ASSUME NEW h \in Group
                 PROVE  /\ club'[h].locations \subseteq Location
                        /\ Cardinality(club'[h].locations) <= MaxGroupLocations
      OBVIOUS
    <3>2. CASE h = g BY <1>4, <2>1, <3>1, <3>2
    <3>3. CASE h # g BY <1>3, <3>3 DEF LocationInv, UnderTheCap
    <3> QED BY <3>2, <3>3
  <2> QED BY <1>5, <1>6, <2>2 DEF LocationInv, UnderTheCap
<1>10. Referred'
  BY <1>1, <1>3, <1>4, <1>5, <1>6, <1>7, Ranges
  DEF LocationInv, Referred, Placing, Adding, Erasing, Bearing
<1>11. KeptApart'
  BY <1>5, <1>6 DEF LocationInv, KeptApart, Placing, Adding, Erasing, Bearing, Ending
<1>12. Informed'
  BY <1>1, <1>3, <1>4, <1>5, <1>6, <1>7, Ranges
  DEF LocationInv, Informed, Placing, Adding, Erasing, Bearing
<1>13. ListsLive'
  <2>1. ASSUME NEW l \in Location, WentAlong(l) PROVE WentAlong(l)'
    BY <1>0, <1>1, <1>3, <1>4, <1>5, <1>6, <2>1 DEF WentAlong, Dropping
  <2>2. ASSUME NEW l \in Location, Pulling(l) PROVE Pulling(l)'
    BY <1>1, <1>5, <1>6, <2>2 DEF Pulling
  <2>3. ASSUME NEW h \in Group, h # g, Dropping(h) PROVE Dropping(h)'
    BY <1>0, <1>1, <1>5, <1>6, <2>3 DEF Dropping
  <2> QED
    BY <1>1, <1>3, <1>4, <1>5, <1>6, <2>1, <2>2, <2>3, Ranges DEF LocationInv, ListsLive, Bearing
<1>14. OwnedListed'
  BY <1>1, <1>3, <1>5, <1>6, <1>7 DEF LocationInv, OwnedListed, Adding, Referred
<1> QED BY <1>8, <1>9, <1>10, <1>11, <1>12, <1>13, <1>14 DEF LocationInv

-----------------------------------------------------------------------------
LEMMA LocationNext ==
  ASSUME LocationInv, LocationBounds, Orderly, L!Next PROVE LocationInv'
<1>1. ASSUME NEW l \in Location, NEW u \in Person, L!CreatePersonal(l, u) PROVE LocationInv'
  BY <1>1, PersonalStep
<1>2. ASSUME NEW s \in Slot,
             \/ L!InsertRow(s) \/ L!Attach(s) \/ L!Undo(s)
             \/ L!Birth(s) \/ L!Adopt(s) \/ L!Purge(s) \/ L!Drop(s)
             \/ L!Detach(s) \/ L!DeleteRow(s) \/ L!Pull(s)
      PROVE  LocationInv'
  BY <1>2, InsertRowStep, AttachStep, UndoStep, BirthStep, AdoptStep, PurgeStep, DropStep,
     DetachStep, DeleteRowStep, PullStep
<1>3. ASSUME NEW s \in Slot, NEW g \in Group, L!DeleteGroup(s, g) PROVE LocationInv'
  BY <1>3, DeleteGroupStep
<1>4. ASSUME NEW s \in Slot, NEW g \in Group, NEW u \in Person,
             \/ L!CreateForGroup(s, u, g)
             \/ \E ids \in SUBSET Location : L!CreateGroup(s, u, g, ids)
             \/ \E l \in Location : L!RemoveForGroup(s, u, g, l)
      PROVE  LocationInv'
  BY <1>4, CreateForGroupStep, CreateGroupStep, RemoveForGroupStep
<1> QED BY <1>1, <1>2, <1>3, <1>4 DEF L!Next

\* A row keeps the group that owns it, for it is written only while it has none.
LEMMA OwnersStay ==
  ASSUME LocationInv, LocationBounds, L!Next PROVE L!NeverReassigned
<1> SUFFICES ASSUME NEW l \in Location, location[l].groupId # Null
             PROVE  location'[l].groupId = location[l].groupId
  BY DEF L!NeverReassigned
<1>1. location' = location => location'[l].groupId = location[l].groupId OBVIOUS
<1>2. ASSUME NEW k \in Location, NEW u, NEW g, L!Insert(k, u, g)
      PROVE  location'[l].groupId = location[l].groupId
  <2>1. l # k BY <1>2 DEF L!Insert, L!NoLocation
  <2> QED BY <1>2, <2>1 DEF L!Insert, LocationInv, LocationShapes
<1>3. ASSUME NEW k \in Location, L!Delete(k)
      PROVE  location'[l].groupId = location[l].groupId
  <2>1. CASE l = k
    <3>1. location'[k] = [phase |-> "deleted", createdBy |-> location[k].createdBy,
                          groupId |-> location[k].groupId]
      BY <1>3, LocationWritten
    <3> QED BY <2>1, <3>1
  <2>2. CASE l # k BY <1>3, <2>2, LocationWritten
  <2> QED BY <2>1, <2>2
<1>4. ASSUME NEW s \in Slot, L!Undo(s) \/ L!DeleteRow(s)
      PROVE  location'[l].groupId = location[l].groupId
  <2>1. moving[s].op \in Placing BY <1>4 DEF L!Undo, L!DeleteRow, Placing, Adding, Erasing
  <2> QED BY <1>3, <1>4, <2>1, Ranges DEF L!Undo, L!DeleteRow
<1>5. ASSUME NEW s \in Slot, L!Adopt(s)
      PROVE  location'[l].groupId = location[l].groupId
  BY <1>5 DEF L!Adopt, L!Unclaimed
<1>6. ASSUME NEW s \in Slot, L!Purge(s)
      PROVE  location'[l].groupId = location[l].groupId
  <2> DEFINE m == location[l]
  <2>1. location'[l] = m \/ location'[l] = [m EXCEPT !.phase = "deleted"] BY <1>6 DEF L!Purge
  <2>2. m = [phase |-> m.phase, createdBy |-> m.createdBy, groupId |-> m.groupId]
    BY DEF LocationInv, LocationShapes
  <2> HIDE DEF m
  <2>3. location'[l].groupId = m.groupId BY <2>1, <2>2
  <2> QED BY <2>3 DEF m
<1>7. ASSUME NEW s \in Slot, L!InsertRow(s)
      PROVE  location'[l].groupId = location[l].groupId
  BY <1>2, <1>7 DEF L!InsertRow
<1>8. ASSUME NEW k \in Location, NEW u \in Person, L!CreatePersonal(k, u)
      PROVE  location'[l].groupId = location[l].groupId
  BY <1>2, <1>8 DEF L!CreatePersonal
<1>9. ASSUME NEW s \in Slot,
             L!Attach(s) \/ L!Birth(s) \/ L!Drop(s) \/ L!Detach(s) \/ L!Pull(s)
      PROVE  location' = location
  BY <1>9 DEF L!Attach, L!Birth, L!Drop, L!Detach, L!Pull
<1>10. ASSUME NEW s \in Slot, NEW g \in Group,
              \/ L!DeleteGroup(s, g)
              \/ \E u \in Person :
                   \/ L!CreateForGroup(s, u, g)
                   \/ \E ids \in SUBSET Location : L!CreateGroup(s, u, g, ids)
                   \/ \E k \in Location : L!RemoveForGroup(s, u, g, k)
       PROVE  location' = location
  BY <1>10 DEF L!DeleteGroup, L!CreateForGroup, L!CreateGroup, L!RemoveForGroup
<1> QED BY <1>1, <1>4, <1>5, <1>6, <1>7, <1>8, <1>9, <1>10 DEF L!Next

\* A group's list never outgrows its cap, whoever adds at the same time; with no request
\* in flight, lists and rows agree, unless a list names what went with another group;
\* and what a group owns never comes to belong to another (locations.service.ts, and
\* groups.service.ts where a group is made or deleted).
THEOREM LocationsStaySound ==
  ASSUME LocationBounds, Orderly
  PROVE  L!Spec => [][L!LocationsStep]_(L!vars)
<1>1. L!Init => LocationInv BY LocationInit
<1>2. LocationInv /\ [L!Next]_(L!vars) => LocationInv'
  <2>1. ASSUME LocationInv, L!Next PROVE LocationInv' BY <2>1, LocationNext
  <2>2. ASSUME LocationInv, UNCHANGED L!vars PROVE LocationInv'
    <3>1. location' = location /\ club' = club /\ moving' = moving BY <2>2 DEF L!vars
    <3>2. LocationShapes' BY <2>2, <3>1 DEF LocationInv, LocationShapes
    <3>3. UnderTheCap' /\ Referred' /\ KeptApart'
      BY <2>2, <3>1 DEF LocationInv, UnderTheCap, Referred, KeptApart
    <3>4. Informed' /\ OwnedListed' BY <2>2, <3>1 DEF LocationInv, Informed, OwnedListed
    <3>5. ListsLive' BY <2>2, <3>1 DEF LocationInv, ListsLive, WentAlong, Dropping, Pulling
    <3> QED BY <3>2, <3>3, <3>4, <3>5 DEF LocationInv
  <2> QED BY <2>1, <2>2
<1>3. LocationInv /\ [L!Next]_(L!vars) => [L!LocationsStep]_(L!vars)
  <2> SUFFICES ASSUME LocationInv, L!Next PROVE L!LocationsStep OBVIOUS
  <2>1. \A S : L!Cardinality(S) = Cardinality(S) BY Zenon DEF L!Cardinality, Cardinality
  <2>2. L!CapHolds BY <2>1 DEF L!CapHolds, LocationInv, UnderTheCap
  <2>3. L!ListMatchesRows
    <3> SUFFICES ASSUME L!Rest
                 PROVE  /\ \A g \in L!Live : \A l \in club[g].locations :
                             \/ l \in L!There
                             \/ location[l].groupId \in Group \ (L!Live \cup {g})
                        /\ \A l \in L!There : location[l].groupId # Null =>
                             /\ location[l].groupId \in L!Live
                             /\ l \in club[location[l].groupId].locations
      BY DEF L!ListMatchesRows
    <3>1. \A s \in Slot : moving[s].op = "idle" BY DEF L!Rest, L!Idle
    <3>2. /\ \A l : ~Pulling(l)
          /\ \A g : ~Dropping(g)
      BY <3>1 DEF Pulling, Dropping
    <3>3. ASSUME NEW g \in L!Live, NEW l \in club[g].locations
          PROVE  \/ l \in L!There
                 \/ location[l].groupId \in Group \ (L!Live \cup {g})
      <4>1. g \in Group /\ club[g].phase = "there" /\ l \in Location BY Ranges DEF L!Live
      <4>2. \/ location[l].phase = "there"
            \/ /\ location[l].groupId # g /\ location[l].groupId \in Group
               /\ club[location[l].groupId].phase # "there"
        BY <3>2, <4>1 DEF LocationInv, ListsLive, WentAlong
      <4> QED BY <4>1, <4>2 DEF L!There, L!Live
    <3>4. ASSUME NEW l \in L!There, location[l].groupId # Null
          PROVE  location[l].groupId \in L!Live /\ l \in club[location[l].groupId].locations
      <4>1. l \in Location /\ location[l].phase = "there" BY DEF L!There
      <4>2. location[l].groupId \in Group BY <3>4, <4>1 DEF LocationInv, Referred
      <4> QED BY <3>1, <3>4, <4>1, <4>2 DEF LocationInv, OwnedListed, Adding, L!Live
    <3> QED BY <3>3, <3>4
  <2>4. L!NeverReassigned BY OwnersStay
  <2> QED BY <2>2, <2>3, <2>4 DEF L!LocationsStep
<1> QED BY <1>1, <1>2, <1>3, PTL DEF L!Spec

-----------------------------------------------------------------------------
(* The catalogue of sports: steps *)

LEMMA TheWritesAhead ==
  /\ Head(DeleteOn) = "delete" /\ Len(DeleteOn) = 1
  /\ Head(SwapOn) = "swap" /\ Len(SwapOn) # 1 /\ Tail(SwapOn) = DeleteOn
  /\ Head(DropOn) = "drop" /\ Len(DropOn) # 1 /\ Tail(DropOn) = SwapOn
  /\ Head(GroupOn) = "group" /\ Len(GroupOn) # 1 /\ Tail(GroupOn) = DropOn
  /\ Head(TakeOn) = "take" /\ Len(TakeOn) # 1 /\ Tail(TakeOn) = GroupOn
  /\ Head(MoveOn) = "move" /\ Len(MoveOn) # 1 /\ Tail(MoveOn) = GroupOn
  /\ Head(ClearOn) = "clear" /\ Len(ClearOn) # 1 /\ Tail(ClearOn) = MoveOn
  /\ Head(RowOn) = "row" /\ Len(RowOn) = 1
  /\ Head(RenameOn) = "rename" /\ Len(RenameOn) # 1 /\ Tail(RenameOn) = RowOn
  /\ Head(FitOn) = "fit" /\ Len(FitOn) = 1
  /\ Head(CarryOn) = "carry" /\ Len(CarryOn) # 1 /\ Tail(CarryOn) = FitOn
  /\ Head(SetOn) = "set" /\ Len(SetOn) # 1 /\ Tail(SetOn) = CarryOn
BY DEF DeleteOn, SwapOn, DropOn, GroupOn, TakeOn, MoveOn, ClearOn, RowOn, RenameOn, FitOn,
       CarryOn, SetOn

LEMMA AskMeans ==
  ASSUME SportShapes, SportsListed, NEW a \in Sports!Ask, Sports!Accepted(a), NullIsNothing
  PROVE  Sensible(a)
<1>1. CASE a.op = "group"
  <2>1. a \in [op : {"group"}, to : Sport] BY <1>1 DEF Sports!Ask
  <2> QED BY <1>1, <2>1 DEF Sports!Accepted, Sports!Listed, Sensible
<1>2. CASE a.op = "remove"
  <2>1. a \in [op : {"remove"}, of : Sport, to : Sport \cup {Null}] BY <1>2 DEF Sports!Ask
  <2>2. /\ a.of \in Sports!Listed /\ a.to # a.of
        /\ a.to = Null => ~Sports!Used(a.of)
        /\ a.to # Null => a.to \in Sports!Listed
    BY <1>2 DEF Sports!Accepted
  <2>3. ~Sports!Used(a.of) => /\ groupSport # a.of /\ ~(interest[a.of] > 0)
                              /\ \A h \in Holders : holder[h].sport # a.of
    BY <2>1 DEF Sports!Used, Sports!Interests, Sports!Holder, Holders
  <2>4. a.of \in Sport => interest[a.of] \in Nat BY DEF SportShapes
  <2> QED BY <1>2, <2>1, <2>2, <2>3, <2>4 DEF Sports!Listed, Sensible
<1>3. CASE a.op = "rename"
  <2>1. a \in [op : {"rename"}, of : Sport, from : Format, to : Format] BY <1>3 DEF Sports!Ask
  <2>2. /\ a.of \in Sports!Listed /\ a.from \in Sports!Formats(a.of)
        /\ a.to \notin Sports!Formats(a.of)
    BY <1>3 DEF Sports!Accepted
  <2> QED BY <1>3, <2>1, <2>2 DEF Sports!Listed, Sports!Formats, Sensible
<1>4. a.op \in {"group", "remove", "rename"} BY DEF Sports!Ask
<1> QED BY <1>1, <1>2, <1>3, <1>4

\* The writes of a request that is taken, or taken again.
LEMMA WritesStart ==
  ASSUME NEW a, Sensible(a)
  PROVE  Ahead(a, Sports!Writes(a))
<1>1. CASE a.op = "group" BY <1>1 DEF Sports!Writes, Sports!GroupWrites, Ahead, SetOn, CarryOn, FitOn
<1>2. CASE a.op = "rename" BY <1>2, TheWritesAhead DEF Sports!Writes, Sports!RenameWrites, Ahead, RenameOn, RowOn
<1>3. CASE a.op = "remove" /\ a.to = Null
  BY <1>3 DEF Sports!Writes, Ahead, DeleteOn
<1>4. CASE a.op = "remove" /\ a.to # Null
  <2>1. Sports!Writes(a) = Sports!Reassignment(a) BY <1>4 DEF Sports!Writes
  <2>2. CASE a.of \in catalogue[a.to].formats
    <3>1. Sports!Reassignment(a) = TakeOn BY <2>2 DEF Sports!Reassignment, Sports!Formats, TakeOn
    <3>2. TakeOn \notin {ClearOn, MoveOn, GroupOn, DropOn, SwapOn, DeleteOn} BY TheWritesAhead
    <3> QED BY <1>4, <2>1, <2>2, <3>1, <3>2 DEF Ahead
  <2>3. CASE a.of \notin catalogue[a.to].formats
    <3>1. Sports!Reassignment(a) = ClearOn BY <2>3 DEF Sports!Reassignment, Sports!Formats, ClearOn
    <3>2. ClearOn \notin {TakeOn, MoveOn, GroupOn, DropOn, SwapOn, DeleteOn} BY TheWritesAhead
    <3> QED BY <1>4, <2>1, <3>1, <3>2 DEF Ahead
  <2> QED BY <2>2, <2>3
<1> QED BY <1>1, <1>2, <1>3, <1>4 DEF Sensible

\* What each write makes of a holder.
LEMMA WriteMakes ==
  ASSUME NEW a, NEW h
  PROVE  LET d == holder[h]
             stray == d.format \notin catalogue[a.to].formats \cup {Null}
         IN  /\ Sports!Changed(a, "take", h) =
                  IF d.sport = a.of THEN [sport |-> a.to, format |-> a.of] ELSE d
             /\ Sports!Changed(a, "clear", h) =
                  IF d.sport = a.of /\ stray THEN [d EXCEPT !.format = Null] ELSE d
             /\ Sports!Changed(a, "move", h) =
                  IF d.sport = a.of THEN [d EXCEPT !.sport = a.to] ELSE d
             /\ Sports!Changed(a, "rename", h) =
                  IF d = [sport |-> a.of, format |-> a.from] THEN [d EXCEPT !.format = a.to] ELSE d
             /\ Sports!Changed(a, "carry", h) =
                  IF h \in Grouped \cap Sports!Existing THEN [d EXCEPT !.sport = a.to] ELSE d
             /\ Sports!Changed(a, "fit", h) =
                  IF h \in Grouped \cap Sports!Existing /\ stray THEN [d EXCEPT !.format = Null] ELSE d
             /\ \A w \in {"set", "group", "drop", "swap", "row", "delete"} : Sports!Changed(a, w, h) = d
BY DEF Sports!Changed, Sports!Formats

LEMMA HeldFailed ==
  ASSUME SportShapes', SportsListed', NEW a, work' = [op |-> "failed", asked |-> a],
         Sensible(a)', Halfway(a)'
  PROVE  SportInv'
<1>1. work'.asked = a OBVIOUS
<1> QED BY <1>1, SMTT(20) DEF SportInv, WorkInHand, Sensible, Halfway, Fits

LEMMA HeldDoing ==
  ASSUME SportShapes', SportsListed', NEW a, NEW left,
         work' = [op |-> "doing", asked |-> a, left |-> left],
         Sensible(a)', Halfway(a)', Ahead(a, left)'
  PROVE  SportInv'
<1>1. work'.asked = a /\ work'.left = left OBVIOUS
<1>2. Sensible(work.asked)' BY <1>1 DEF Sensible
<1>3. Halfway(work.asked)' BY <1>1 DEF Halfway, Fits
<1>4. Ahead(work.asked, work.left)' BY <1>1 DEF Ahead
<1> QED BY <1>1, <1>2, <1>3, <1>4 DEF SportInv, WorkInHand

LEMMA HeldAtRest ==
  ASSUME SportShapes', SportsListed', work' = Sports!Rest, AtRest'
  PROVE  SportInv'
BY DEF SportInv, WorkInHand, Sports!Rest

\* What is in hand, and nothing else is.
LEMMA InHand ==
  ASSUME SportInv
  PROVE  /\ work.op = "rest" <=> work = Sports!Rest
         /\ work.op = "rest" => AtRest
         /\ work.op = "failed" => /\ work = [op |-> "failed", asked |-> work.asked]
                                  /\ Sensible(work.asked) /\ Halfway(work.asked)
         /\ work.op = "doing" =>
              /\ work = [op |-> "doing", asked |-> work.asked, left |-> work.left]
              /\ Sensible(work.asked) /\ Halfway(work.asked) /\ Ahead(work.asked, work.left)
         /\ work.op \in {"rest", "failed", "doing"}
BY DEF SportInv, WorkInHand, Sports!Rest

-----------------------------------------------------------------------------
LEMMA SportInit ==
  ASSUME NullIsNothing, Sports!Init PROVE SportInv
<1>1. /\ catalogue \in [Sport -> {[listed |-> TRUE, formats |-> fs] : fs \in SUBSET Format}]
      /\ groupSport \in Sport \cup {Null} /\ interest = [x \in Sport |-> 0] /\ work = Sports!Rest
      /\ holder = [h \in Holders |-> [sport |-> Null, format |-> Null]]
  BY DEF Sports!Init, Sports!Holder, Holders, Sports!NoHolder
<1>2. \A x \in Sport : /\ catalogue[x] = [listed |-> catalogue[x].listed, formats |-> catalogue[x].formats]
                       /\ catalogue[x].listed
  <2> SUFFICES ASSUME NEW x \in Sport
               PROVE  /\ catalogue[x] = [listed |-> catalogue[x].listed, formats |-> catalogue[x].formats]
                      /\ catalogue[x].listed
    OBVIOUS
  <2>1. PICK fs \in SUBSET Format : catalogue[x] = [listed |-> TRUE, formats |-> fs] BY <1>1
  <2>2. catalogue[x].formats = fs /\ catalogue[x].listed = TRUE BY <2>1
  <2> QED BY <2>1, <2>2
<1>3. SportShapes
  <2>1. catalogue = [x \in Sport |-> catalogue[x]] BY <1>1
  <2>2. /\ holder = [h \in Holders |-> holder[h]]
        /\ \A h \in Holders : holder[h] = [sport |-> holder[h].sport, format |-> holder[h].format]
    BY <1>1
  <2>3. interest \in [Sport -> Nat] BY <1>1
  <2> QED BY <1>2, <2>1, <2>2, <2>3 DEF SportShapes
<1>4. \A h \in Holders : holder[h].sport = Null BY <1>1
<1>5. SportsListed BY <1>1, <1>2, <1>4 DEF SportsListed
<1>6. AtRest
  <2>1. \A h \in Grouped : h \in Holders BY DEF Holders
  <2> QED BY <1>4, <2>1 DEF AtRest
<1> QED BY <1>1, <1>3, <1>5, <1>6 DEF SportInv, WorkInHand, Sports!Rest

LEMMA SaveEventStep ==
  ASSUME SportInv, NullIsNothing, NEW k \in Holders, NEW x \in Sport, NEW f \in Format \cup {Null},
         Sports!SaveEvent(k, x, f)
  PROVE  SportInv'
<1>1. /\ work = Sports!Rest /\ catalogue[x].listed /\ (f # Null => f \in catalogue[x].formats)
      /\ k \in Grouped /\ groupSport # Null => x = groupSport
      /\ holder' = [holder EXCEPT ![k] = [sport |-> x, format |-> f]]
      /\ catalogue' = catalogue /\ groupSport' = groupSport /\ interest' = interest /\ repeated' = repeated /\ work' = work
  BY DEF Sports!SaveEvent, Sports!profile, Sports!Resting, Sports!Valid, Sports!Listed, Sports!Formats
<1>2. AtRest BY <1>1, InHand DEF Sports!Rest
<1>3. /\ holder' = [h \in Holders |-> holder'[h]]
      /\ holder'[k] = [sport |-> x, format |-> f]
      /\ \A h \in Holders : h # k => holder'[h] = holder[h]
  BY <1>1 DEF SportInv, SportShapes
<1>4. holder'[k].sport = x /\ holder'[k].format = f BY <1>3
<1>5. SportShapes' BY <1>1, <1>3, <1>4 DEF SportInv, SportShapes
<1>6. SportsListed' BY <1>1, <1>3, <1>4 DEF SportInv, SportsListed
<1>7. AtRest'
  <2>1. \A h \in Grouped : h \in Holders BY DEF Holders
  <2> QED BY <1>1, <1>2, <1>3, <1>4, <2>1 DEF AtRest, Fits
<1> QED BY <1>1, <1>5, <1>6, <1>7, HeldAtRest

LEMMA DeleteEventStep ==
  ASSUME SportInv, NEW k \in Holders, Sports!DeleteEvent(k)
  PROVE  SportInv'
<1>1. /\ work = Sports!Rest /\ holder' = [holder EXCEPT ![k] = [sport |-> Null, format |-> Null]]
      /\ catalogue' = catalogue /\ groupSport' = groupSport /\ interest' = interest /\ repeated' = repeated /\ work' = work
  BY DEF Sports!DeleteEvent, Sports!profile, Sports!Resting, Sports!NoHolder
<1>2. AtRest BY <1>1, InHand DEF Sports!Rest
<1>3. /\ holder' = [h \in Holders |-> holder'[h]]
      /\ holder'[k] = [sport |-> Null, format |-> Null]
      /\ \A h \in Holders : h # k => holder'[h] = holder[h]
  BY <1>1 DEF SportInv, SportShapes
<1>4. holder'[k].sport = Null /\ holder'[k].format = Null BY <1>3
<1>5. SportShapes' BY <1>1, <1>3, <1>4 DEF SportInv, SportShapes
<1>6. SportsListed' BY <1>1, <1>3, <1>4 DEF SportInv, SportsListed
<1>7. AtRest'
  <2>1. \A h \in Grouped : h \in Holders BY DEF Holders
  <2> QED BY <1>1, <1>2, <1>3, <1>4, <2>1 DEF AtRest, Fits
<1> QED BY <1>1, <1>5, <1>6, <1>7, HeldAtRest

LEMMA UpdateProfileStep ==
  ASSUME SportInv, NEW sports \in Sports!Profile, Sports!UpdateProfile(sports)
  PROVE  SportInv'
<1>1. /\ work = Sports!Rest /\ \A x \in Sport : sports[x] > 0 => catalogue[x].listed
      /\ interest' = sports /\ repeated' = (\E x \in Sport : sports[x] > 1)
      /\ catalogue' = catalogue /\ groupSport' = groupSport /\ holder' = holder /\ work' = work
  BY DEF Sports!UpdateProfile, Sports!Resting, Sports!Listed, Sports!Interests
<1> sports \in [Sport -> 0..2] BY DEF Sports!Profile
<1>2. AtRest BY <1>1, InHand DEF Sports!Rest
<1>3. SportShapes' BY <1>1 DEF SportInv, SportShapes
<1>4. SportsListed' BY <1>1 DEF SportInv, SportsListed
<1>5. AtRest' BY <1>1, <1>2 DEF AtRest, Fits
<1> QED BY <1>1, <1>3, <1>4, <1>5, HeldAtRest

\* One sport's formats change while nothing is under way, and no holder loses its own.
LEMMA FormatsChange ==
  ASSUME SportInv, work = Sports!Rest, NEW x \in Sport, NEW yes, yes, NEW fs,
         catalogue' = [catalogue EXCEPT ![x] = [listed |-> yes, formats |-> fs]],
         \A h \in Holders : holder[h].sport = x => holder[h].format = Null \/ holder[h].format \in fs,
         groupSport' = groupSport, interest' = interest /\ repeated' = repeated, holder' = holder, work' = work
  PROVE  SportInv'
<1>1. AtRest BY InHand DEF Sports!Rest
<1>2. /\ catalogue' = [y \in Sport |-> catalogue'[y]]
      /\ catalogue'[x] = [listed |-> yes, formats |-> fs]
      /\ \A y \in Sport : y # x => catalogue'[y] = catalogue[y]
  BY DEF SportInv, SportShapes
<1>3. catalogue'[x].listed = yes /\ catalogue'[x].formats = fs BY <1>2
<1>4. SportShapes' BY <1>2, <1>3 DEF SportInv, SportShapes
<1>5. SportsListed' BY <1>2, <1>3 DEF SportInv, SportsListed
<1>6. AtRest'
  <2>1. \A h \in Holders : holder[h].sport # Null => holder[h].sport \in Sport
    BY DEF SportInv, SportsListed
  <2> QED BY <1>1, <1>2, <1>3, <2>1 DEF AtRest, Fits
<1> QED BY <1>4, <1>5, <1>6, HeldAtRest

LEMMA CreateSportStep ==
  ASSUME SportInv, NullIsNothing, NEW x \in Sport, Sports!CreateSport(x)
  PROVE  SportInv'
<1>1. /\ work = Sports!Rest /\ ~catalogue[x].listed
      /\ groupSport' = groupSport /\ interest' = interest /\ repeated' = repeated /\ holder' = holder /\ work' = work
  BY DEF Sports!CreateSport, Sports!profile, Sports!Resting, Sports!Listed
<1>2. PICK fs \in SUBSET Format :
        catalogue' = [catalogue EXCEPT ![x] = [listed |-> TRUE, formats |-> fs]]
  BY DEF Sports!CreateSport
<1>3. \A h \in Holders : holder[h].sport # x BY <1>1 DEF SportInv, SportsListed, NullIsNothing
<1> QED BY <1>1, <1>2, <1>3, FormatsChange

\* The formats of a listed sport are written.
LEMMA FormatsWritten ==
  ASSUME SportInv, NEW x \in Sport, catalogue[x].listed, NEW fs
  PROVE  [catalogue EXCEPT ![x].formats = fs]
           = [catalogue EXCEPT ![x] = [listed |-> catalogue[x].listed, formats |-> fs]]
<1> DEFINE m == catalogue[x]
<1>1. m = [listed |-> m.listed, formats |-> m.formats] BY DEF SportInv, SportShapes
<1>2. [catalogue EXCEPT ![x].formats = fs] = [catalogue EXCEPT ![x] = [m EXCEPT !.formats = fs]]
  OBVIOUS
<1> HIDE DEF m
<1>3. [m EXCEPT !.formats = fs] = [listed |-> m.listed, formats |-> fs] BY <1>1
<1> QED BY <1>2, <1>3 DEF m

-----------------------------------------------------------------------------
LEMMA FormatsStep ==
  ASSUME SportInv, NullIsNothing, NEW x \in Sport, NEW f \in Format,
         Sports!AddSubType(x, f) \/ Sports!RemoveSubType(x, f)
  PROVE  SportInv'
<1>1. /\ work = Sports!Rest /\ catalogue[x].listed
      /\ groupSport' = groupSport /\ interest' = interest /\ repeated' = repeated /\ holder' = holder /\ work' = work
  BY DEF Sports!AddSubType, Sports!profile, Sports!RemoveSubType, Sports!Resting, Sports!Listed
<1>2. AtRest BY <1>1, InHand DEF Sports!Rest
<1> DEFINE fs == catalogue[x].formats
<1>3. \A h \in Holders : holder[h].sport = x => holder[h].format = Null \/ holder[h].format \in fs
  BY <1>2 DEF AtRest, Fits, NullIsNothing
<1>4. CASE Sports!AddSubType(x, f)
  <2> DEFINE more == fs \cup {f}
  <2>1. catalogue' = [catalogue EXCEPT ![x].formats = more]
    BY <1>4 DEF Sports!AddSubType, Sports!profile, Sports!Formats
  <2>2. \A h \in Holders : holder[h].sport = x => holder[h].format = Null \/ holder[h].format \in more
    BY <1>3
  <2> HIDE DEF fs, more
  <2>3. PICK new : new = more OBVIOUS
  <2>4. PICK yes : yes = catalogue[x].listed OBVIOUS
  <2>5. yes /\ catalogue' = [catalogue EXCEPT ![x] = [listed |-> yes, formats |-> new]]
    BY <1>1, <2>1, <2>3, <2>4, FormatsWritten
  <2> QED BY <1>1, <2>2, <2>3, <2>5, FormatsChange
<1>5. CASE Sports!RemoveSubType(x, f)
  <2> DEFINE fewer == fs \ {f}
  <2>1. catalogue' = [catalogue EXCEPT ![x].formats = fewer] /\ ~Sports!FormatUsed(x, f)
    BY <1>5 DEF Sports!RemoveSubType
  <2>2. ASSUME NEW h \in Holders, holder[h].sport = x
        PROVE  holder[h].format = Null \/ holder[h].format \in fewer
    <3>1. holder[h].format # f
      BY <2>1, <2>2 DEF Sports!FormatUsed, Sports!Holder, Holders, SportInv, SportShapes
    <3> QED BY <1>3, <2>2, <3>1
  <2> HIDE DEF fs, fewer
  <2>3. PICK new : new = fewer OBVIOUS
  <2>4. PICK yes : yes = catalogue[x].listed OBVIOUS
  <2>5. yes /\ catalogue' = [catalogue EXCEPT ![x] = [listed |-> yes, formats |-> new]]
    BY <1>1, <2>1, <2>3, <2>4, FormatsWritten
  <2> QED BY <1>1, <2>2, <2>3, <2>5, FormatsChange
<1> QED BY <1>4, <1>5

LEMMA BeginAskStep ==
  ASSUME SportInv, NullIsNothing, NEW a \in Sports!Ask, Sports!Begin(a)
  PROVE  SportInv'
<1>1. /\ work = Sports!Rest /\ Sports!Accepted(a)
      /\ work' = [op |-> "doing", asked |-> a, left |-> Sports!Writes(a)]
      /\ catalogue' = catalogue /\ groupSport' = groupSport /\ holder' = holder /\ interest' = interest /\ repeated' = repeated
  BY DEF Sports!Begin, Sports!profile, Sports!Resting
<1>2. AtRest BY <1>1, InHand DEF Sports!Rest
<1>3. Sensible(a) BY <1>1, AskMeans DEF SportInv
<1>4. Ahead(a, Sports!Writes(a)) BY <1>3, WritesStart
<1>5. Halfway(a)
  <2>1. \A h \in Grouped : h \in Holders BY DEF Holders
  <2> QED BY <1>2, <2>1 DEF AtRest, Halfway
<1> DEFINE left == Sports!Writes(a)
<1> HIDE DEF left
<1>6. PICK on : on = left OBVIOUS
<1>7. Ahead(a, on) /\ work' = [op |-> "doing", asked |-> a, left |-> on] BY <1>1, <1>4, <1>6 DEF left
<1>8. SportShapes' /\ SportsListed' BY <1>1 DEF SportInv, SportShapes, SportsListed
<1>9. Sensible(a)' BY <1>1, <1>3 DEF Sensible
<1>10. Halfway(a)' BY <1>1, <1>5 DEF Halfway, Fits
<1>11. Ahead(a, on)' BY <1>1, <1>7 DEF Ahead
<1> QED BY <1>7, <1>8, <1>9, <1>10, <1>11, HeldDoing

LEMMA RetryStep ==
  ASSUME SportInv, Sports!Retry
  PROVE  SportInv'
<1>1. PICK a : a = work.asked OBVIOUS
<1>2. /\ Sensible(a) /\ Halfway(a)
      /\ catalogue' = catalogue /\ groupSport' = groupSport /\ holder' = holder /\ interest' = interest /\ repeated' = repeated
  BY <1>1, InHand DEF Sports!Retry, Sports!profile
<1>3. work' = [op |-> "doing", asked |-> a, left |-> Sports!Writes(a)] BY <1>1 DEF Sports!Retry
<1>4. PICK on : on = Sports!Writes(a) OBVIOUS
<1>5. Ahead(a, on) BY <1>2, <1>4, WritesStart
<1>6. work' = [op |-> "doing", asked |-> a, left |-> on] BY <1>3, <1>4
<1>7. SportShapes' /\ SportsListed' BY <1>2 DEF SportInv, SportShapes, SportsListed
<1>8. Sensible(a)' BY <1>2 DEF Sensible
<1>9. Halfway(a)' BY <1>2 DEF Halfway, Fits
<1>10. Ahead(a, on)' BY <1>2, <1>5 DEF Ahead
<1> QED BY <1>6, <1>7, <1>8, <1>9, <1>10, HeldDoing

\* A holder d becomes e by a write of a.
Rewritten(a, h, d, e) ==
  \/ /\ a.op = "group" /\ h \in Grouped /\ d.sport # Null
     /\ \/ e = [sport |-> a.to, format |-> d.format]
        \/ e = [sport |-> d.sport, format |-> Null]
  \/ a.op = "rename" /\ d = [sport |-> a.of, format |-> a.from] /\ e = [sport |-> a.of, format |-> a.to]
  \/ /\ a.op = "remove" /\ a.to # Null /\ d.sport = a.of
     /\ \/ a.of \in catalogue[a.to].formats /\ e = [sport |-> a.to, format |-> a.of]
        \/ e = [sport |-> a.of, format |-> Null]
        \/ /\ d.format = Null \/ d.format \in catalogue[a.to].formats
           /\ e = [sport |-> a.to, format |-> d.format]

LEMMA Rewriting ==
  ASSUME SportInv, NEW a, NEW left, Sensible(a), Ahead(a, left), NEW h \in Holders, NEW e,
         e = Sports!Changed(a, Head(left), h)
  PROVE  e = holder[h] \/ Rewritten(a, h, holder[h], e)
<1> DEFINE d == holder[h]
           w == Head(left)
<1>1. d = [sport |-> d.sport, format |-> d.format] BY DEF SportInv, SportShapes
<1>2. h \in Sports!Existing <=> d.sport # Null BY DEF Sports!Existing, Sports!Holder, Holders
<1>3. a.op = "group" => w \in {"set", "carry", "fit"} BY TheWritesAhead DEF Ahead
<1>4. a.op = "rename" => w \in {"rename", "row"} BY TheWritesAhead DEF Ahead
<1>5. a.op = "remove" /\ a.to = Null => w = "delete" BY TheWritesAhead DEF Ahead
<1>6. a.op = "remove" /\ a.to # Null =>
        /\ w \in {"take", "clear", "move", "group", "drop", "swap", "delete"}
        /\ w = "take" => a.of \in catalogue[a.to].formats
        /\ w = "move" => (d.sport = a.of => d.format = Null \/ d.format \in catalogue[a.to].formats)
  BY TheWritesAhead DEF Ahead
<1>7. e = Sports!Changed(a, w, h) OBVIOUS
<1>8. /\ w = "take" => e = IF d.sport = a.of THEN [sport |-> a.to, format |-> a.of] ELSE d
      /\ w = "clear" => e = d \/ (d.sport = a.of /\ e = [d EXCEPT !.format = Null])
      /\ w = "move" => e = d \/ (d.sport = a.of /\ e = [d EXCEPT !.sport = a.to])
      /\ w = "rename" => e = d \/ (d = [sport |-> a.of, format |-> a.from] /\ e = [d EXCEPT !.format = a.to])
      /\ w = "carry" => e = d \/ (h \in Grouped /\ d.sport # Null /\ e = [d EXCEPT !.sport = a.to])
      /\ w = "fit" => e = d \/ (h \in Grouped /\ d.sport # Null /\ e = [d EXCEPT !.format = Null])
      /\ w \in {"set", "group", "drop", "swap", "row", "delete"} => e = d
  BY <1>2, <1>7, WriteMakes
<1> HIDE DEF w
<1> HIDE DEF d
<1>10. /\ [d EXCEPT !.format = Null] = [sport |-> d.sport, format |-> Null]
       /\ [d EXCEPT !.sport = a.to] = [sport |-> a.to, format |-> d.format]
       /\ [d EXCEPT !.format = a.to] = [sport |-> d.sport, format |-> a.to]
  BY <1>1
<1>11. d = [sport |-> a.of, format |-> a.from] => d.sport = a.of OBVIOUS
<1>12. a.op \in {"group", "rename", "remove"} BY DEF Sensible
<1>13. e = d \/ Rewritten(a, h, d, e)
  <2>1. CASE a.op = "group" BY <1>3, <1>8, <1>10, <2>1 DEF Rewritten
  <2>2. CASE a.op = "rename" BY <1>4, <1>8, <1>10, <1>11, <2>2 DEF Rewritten
  <2>3. CASE a.op = "remove" /\ a.to = Null BY <1>5, <1>8, <2>3
  <2>4. CASE a.op = "remove" /\ a.to # Null BY <1>6, <1>8, <1>10, <2>4 DEF Rewritten
  <2> QED BY <1>12, <2>1, <2>2, <2>3, <2>4
<1> QED BY <1>13 DEF d

\* Some or all of the holders are reached by a write, and nothing else is changed.
LEMMA Reaches ==
  ASSUME SportInv, NullIsNothing, NEW a, NEW left, Sensible(a), Halfway(a), Ahead(a, left),
         NEW reach \in SUBSET Holders,
         holder' = [h \in Holders |-> IF h \in reach THEN Sports!Changed(a, Head(left), h) ELSE holder[h]],
         catalogue' = catalogue, groupSport' = groupSport, interest' = interest /\ repeated' = repeated
  PROVE  SportShapes' /\ SportsListed' /\ Sensible(a)' /\ Halfway(a)'
<1>1. holder' = [h \in Holders |-> holder'[h]] OBVIOUS
<1>2. ASSUME NEW h \in Holders
      PROVE  holder'[h] = holder[h] \/ Rewritten(a, h, holder[h], holder'[h])
  <2>1. CASE h \notin reach BY <2>1
  <2>2. CASE h \in reach
    <3>1. PICK e : e = Sports!Changed(a, Head(left), h) OBVIOUS
    <3>2. e = holder[h] \/ Rewritten(a, h, holder[h], e) BY <3>1, Rewriting
    <3>3. holder'[h] = e BY <2>2, <3>1
    <3> QED BY <3>2, <3>3
  <2> QED BY <2>1, <2>2
<1>3. ASSUME NEW h \in Holders, Rewritten(a, h, holder[h], holder'[h])
      PROVE  /\ holder'[h] = [sport |-> holder'[h].sport, format |-> holder'[h].format]
             /\ holder[h].sport # Null
             /\ \/ a.op = "group" /\ h \in Grouped /\ holder'[h].sport \in {a.to, holder[h].sport}
                \/ /\ a.op = "rename" /\ holder'[h] = [sport |-> a.of, format |-> a.to]
                   /\ holder[h].sport = a.of /\ holder'[h].sport = a.of
                \/ /\ a.op = "remove" /\ a.to # Null /\ holder[h].sport = a.of
                   /\ holder'[h].sport \in {a.of, a.to}
                   /\ \/ holder'[h].format = Null
                      \/ /\ holder'[h].sport = a.to
                         /\ holder'[h].format \in catalogue[a.to].formats
  <2> DEFINE d == holder[h]
             n == holder'[h]
  <2>0. Rewritten(a, h, d, n) BY <1>3
  <2>1. /\ a.op # "group" => a.of # Null
        /\ Null \notin Sport
    BY DEF Sensible, NullIsNothing
  <2> HIDE DEF d, n
  <2>2. CASE a.op = "group"
    <3>1. /\ h \in Grouped /\ d.sport # Null
          /\ \/ n = [sport |-> a.to, format |-> d.format]
             \/ n = [sport |-> d.sport, format |-> Null]
      BY <2>0, <2>2 DEF Rewritten
    <3>2. n = [sport |-> n.sport, format |-> n.format] /\ n.sport \in {a.to, d.sport} BY <3>1
    <3> QED BY <2>2, <3>1, <3>2 DEF d, n
  <2>3. CASE a.op = "rename"
    <3>1. d = [sport |-> a.of, format |-> a.from] /\ n = [sport |-> a.of, format |-> a.to]
      BY <2>0, <2>3 DEF Rewritten
    <3>2. d.sport = a.of /\ n.sport = a.of /\ n = [sport |-> n.sport, format |-> n.format] BY <3>1
    <3> QED BY <2>1, <2>3, <3>1, <3>2 DEF d, n
  <2>4. CASE a.op = "remove"
    <3>1. /\ a.to # Null /\ d.sport = a.of
          /\ \/ a.of \in catalogue[a.to].formats /\ n = [sport |-> a.to, format |-> a.of]
             \/ n = [sport |-> a.of, format |-> Null]
             \/ /\ d.format = Null \/ d.format \in catalogue[a.to].formats
                /\ n = [sport |-> a.to, format |-> d.format]
      BY <2>0, <2>4 DEF Rewritten
    <3>2. /\ n = [sport |-> n.sport, format |-> n.format] /\ n.sport \in {a.of, a.to}
          /\ \/ n.format = Null
             \/ n.sport = a.to /\ n.format \in catalogue[a.to].formats
      BY <3>1
    <3> QED BY <2>1, <2>4, <3>1, <3>2 DEF d, n
  <2> QED BY <2>2, <2>3, <2>4 DEF Sensible
<1>4. SportShapes'
  <2>1. ASSUME NEW h \in Holders
        PROVE  holder'[h] = [sport |-> holder'[h].sport, format |-> holder'[h].format]
    <3>1. CASE holder'[h] = holder[h] BY <3>1 DEF SportInv, SportShapes
    <3>2. CASE Rewritten(a, h, holder[h], holder'[h]) BY <1>3, <3>2
    <3> QED BY <1>2, <3>1, <3>2
  <2> QED BY <1>1, <2>1 DEF SportInv, SportShapes
<1>5. SportsListed'
  <2>1. ASSUME NEW h \in Holders, holder'[h].sport # Null
        PROVE  holder'[h].sport \in Sport /\ catalogue[holder'[h].sport].listed
    <3>1. CASE holder'[h] = holder[h] BY <2>1, <3>1 DEF SportInv, SportsListed
    <3>2. CASE Rewritten(a, h, holder[h], holder'[h])
      <4>1. holder[h].sport \in Sport /\ catalogue[holder[h].sport].listed
        BY <1>3, <3>2 DEF SportInv, SportsListed
      <4>2. holder'[h].sport = holder[h].sport \/ holder'[h].sport = a.to BY <1>3, <3>2
      <4>3. a.op \in {"group", "remove"} /\ a.to # Null => a.to \in Sport /\ catalogue[a.to].listed
        BY DEF Sensible
      <4>4. holder'[h].sport = holder[h].sport \/ a.op \in {"group", "remove"} BY <1>3, <3>2
      <4> QED BY <2>1, <4>1, <4>2, <4>3, <4>4
    <3> QED BY <1>2, <3>1, <3>2
  <2> QED BY <2>1 DEF SportInv, SportsListed
<1>6. Sensible(a)'
  <2>1. a.op = "remove" /\ a.to = Null => \A h \in Holders : holder'[h].sport # a.of
    BY <1>2, <1>3 DEF Sensible
  <2> QED BY <2>1 DEF Sensible
<1>7. Halfway(a)'
  <2>1. ASSUME NEW h \in Holders, holder'[h].sport # Null
        PROVE  \/ Fits(holder'[h])
               \/ a.op = "group" /\ h \in Grouped
               \/ a.op = "rename" /\ holder'[h] = [sport |-> a.of, format |-> a.to]
    <3>1. CASE holder'[h] = holder[h] BY <2>1, <3>1 DEF Halfway
    <3>2. CASE Rewritten(a, h, holder[h], holder'[h]) BY <1>3, <3>2 DEF Fits
    <3> QED BY <1>2, <3>1, <3>2
  <2>2. ASSUME a.op # "group", NEW h \in Grouped, holder'[h].sport # Null, groupSport # Null
        PROVE  \/ holder'[h].sport = groupSport
               \/ a.op = "remove" /\ groupSport = a.of /\ holder'[h].sport = a.to
    <3>0. h \in Holders BY DEF Holders
    <3>1. CASE holder'[h] = holder[h] BY <2>2, <3>1 DEF Halfway
    <3>2. CASE Rewritten(a, h, holder[h], holder'[h])
      <4>1. \/ holder[h].sport = groupSport
            \/ a.op = "remove" /\ groupSport = a.of /\ holder[h].sport = a.to
        BY <1>3, <2>2, <3>0, <3>2 DEF Halfway
      <4> QED BY <1>3, <2>2, <3>0, <3>2, <4>1
    <3> QED BY <1>2, <3>0, <3>1, <3>2
  <2>3. \A h \in Holders : Fits(holder'[h]) => Fits(holder[h])' BY DEF Fits
  <2> QED BY <2>1, <2>2, <2>3 DEF Halfway, Fits
<1> QED BY <1>4, <1>5, <1>6, <1>7

LEMMA FailStep ==
  ASSUME SportInv, NullIsNothing, Sports!Fail
  PROVE  SportInv'
<1>1. PICK a, left : a = work.asked /\ left = work.left OBVIOUS
<1>2. PICK reach \in SUBSET Holders :
        holder' = [h \in Holders |-> IF h \in reach THEN Sports!Changed(a, Head(left), h) ELSE holder[h]]
  BY <1>1 DEF Sports!Fail, Sports!Holder, Holders
<1>3. /\ work.op = "doing" /\ work' = [op |-> "failed", asked |-> a]
      /\ catalogue' = catalogue /\ groupSport' = groupSport /\ interest' = interest /\ repeated' = repeated
  BY <1>1 DEF Sports!Fail, Sports!profile
<1>4. Sensible(a) /\ Halfway(a) /\ Ahead(a, left) BY <1>1, <1>3, InHand
<1>5. SportShapes' /\ SportsListed' /\ Sensible(a)' /\ Halfway(a)'
  BY <1>2, <1>3, <1>4, Reaches
<1> QED BY <1>3, <1>5, HeldFailed

-----------------------------------------------------------------------------
\* One write, and what is left after it.
LEMMA OneWrite ==
  ASSUME SportInv, Sports!Step, NEW a, NEW left, a = work.asked, left = work.left
  PROVE  /\ Sensible(a) /\ Halfway(a) /\ Ahead(a, left)
         /\ holder' = [h \in Holders |-> Sports!Changed(a, Head(left), h)]
         /\ holder' = [h \in Holders |-> IF h \in Holders THEN Sports!Changed(a, Head(left), h)
                                         ELSE holder[h]]
         /\ Len(left) = 1 => work' = Sports!Rest
         /\ Len(left) # 1 => work' = [op |-> "doing", asked |-> a, left |-> Tail(left)]
         /\ Sports!Write(a, Head(left))
<1>1. work.op = "doing" BY DEF Sports!Step
<1>2. /\ work = [op |-> "doing", asked |-> a, left |-> left]
      /\ Sensible(a) /\ Halfway(a) /\ Ahead(a, left)
  BY <1>1, InHand
<1>3. Sports!Write(a, Head(left)) BY DEF Sports!Step
<1>4. /\ holder' = [h \in Holders |-> Sports!Changed(a, Head(left), h)]
      /\ holder' = [h \in Holders |-> IF h \in Holders THEN Sports!Changed(a, Head(left), h)
                                      ELSE holder[h]]
  BY <1>3 DEF Sports!Write, Sports!Holder, Holders
<1>5. work' = IF Len(left) = 1 THEN Sports!Rest ELSE [work EXCEPT !.left = Tail(left)]
  BY DEF Sports!Step
<1>6. [work EXCEPT !.left = Tail(left)] = [op |-> "doing", asked |-> a, left |-> Tail(left)]
  <2> DEFINE m == work
             rest == Tail(left)
  <2>1. m = [op |-> "doing", asked |-> a, left |-> left] BY <1>2
  <2> HIDE DEF m, rest
  <2>2. [m EXCEPT !.left = rest] = [op |-> "doing", asked |-> a, left |-> rest] BY <2>1
  <2> QED BY <2>2 DEF m, rest
<1> QED BY <1>2, <1>3, <1>4, <1>5, <1>6

\* A write to something else leaves the holders alone.
LEMMA HoldersRest ==
  ASSUME SportInv, NEW a, NEW w \in {"set", "group", "drop", "swap", "row", "delete"},
         holder' = [h \in Holders |-> Sports!Changed(a, w, h)]
  PROVE  holder' = holder
<1>1. \A h \in Holders : Sports!Changed(a, w, h) = holder[h] BY WriteMakes
<1>2. holder = [h \in Holders |-> holder[h]] BY DEF SportInv, SportShapes
<1> QED BY <1>1, <1>2

LEMMA WriteGoesOn ==
  ASSUME SportInv, Sports!Step, NEW a, NEW left, a = work.asked, left = work.left,
         NEW w, NEW on, Head(left) = w, Len(left) # 1, Tail(left) = on
  PROVE  /\ Sensible(a) /\ Halfway(a) /\ Ahead(a, left)
         /\ holder' = [h \in Holders |-> Sports!Changed(a, w, h)]
         /\ work' = [op |-> "doing", asked |-> a, left |-> on]
         /\ Sports!Write(a, w)
<1>1. /\ Sensible(a) /\ Halfway(a) /\ Ahead(a, left)
      /\ holder' = [h \in Holders |-> Sports!Changed(a, Head(left), h)]
      /\ work' = [op |-> "doing", asked |-> a, left |-> Tail(left)]
      /\ Sports!Write(a, Head(left))
  BY OneWrite
<1> QED BY <1>1

LEMMA WriteEnds ==
  ASSUME SportInv, Sports!Step, NEW a, NEW left, a = work.asked, left = work.left,
         NEW w, Head(left) = w, Len(left) = 1
  PROVE  /\ Sensible(a) /\ Halfway(a) /\ Ahead(a, left)
         /\ holder' = [h \in Holders |-> Sports!Changed(a, w, h)]
         /\ work' = Sports!Rest
         /\ Sports!Write(a, w)
<1>1. /\ Sensible(a) /\ Halfway(a) /\ Ahead(a, left)
      /\ holder' = [h \in Holders |-> Sports!Changed(a, Head(left), h)]
      /\ work' = Sports!Rest
      /\ Sports!Write(a, Head(left))
  BY OneWrite
<1> QED BY <1>1

LEMMA SetWrite ==
  ASSUME SportInv, NullIsNothing, Sports!Step, NEW a, a = work.asked, work.left = SetOn
  PROVE  SportInv'
<1>1. PICK left : left = SetOn OBVIOUS
<1>2. /\ Sensible(a) /\ Halfway(a) /\ Ahead(a, left)
      /\ holder' = [h \in Holders |-> Sports!Changed(a, "set", h)]
      /\ work' = [op |-> "doing", asked |-> a, left |-> CarryOn]
      /\ Sports!Write(a, "set")
  <2>1. Head(left) = "set" /\ Len(left) # 1 /\ Tail(left) = CarryOn BY <1>1, TheWritesAhead
  <2> QED BY <1>1, <2>1, WriteGoesOn
<1>3. /\ holder' = holder /\ groupSport' = a.to /\ catalogue' = catalogue /\ interest' = interest /\ repeated' = repeated
  BY <1>2, HoldersRest DEF Sports!Write, Sports!Reassigned
<1>4. a.op = "group" /\ a.to \in Sport /\ catalogue[a.to].listed
  BY <1>1, <1>2, TheWritesAhead DEF Ahead, Sensible
<1>5. SportShapes' /\ SportsListed' BY <1>3, <1>4 DEF SportInv, SportShapes, SportsListed
<1>6. Sensible(a)' BY <1>2, <1>3, <1>4 DEF Sensible
<1>7. Halfway(a)' BY <1>2, <1>3, <1>4 DEF Halfway, Fits
<1>8. Ahead(a, CarryOn)' BY <1>3, <1>4, TheWritesAhead DEF Ahead
<1> QED BY <1>2, <1>5, <1>6, <1>7, <1>8, HeldDoing

\* A write that reaches every holder, of a request that goes on.
LEMMA HoldersWritten ==
  ASSUME SportInv, NullIsNothing, Sports!Step, NEW a, a = work.asked, NEW left, left = work.left,
         Head(left) \in {"carry", "fit", "rename", "take", "clear", "move"}
  PROVE  /\ SportShapes' /\ SportsListed' /\ Sensible(a)' /\ Halfway(a)'
         /\ catalogue' = catalogue /\ groupSport' = groupSport /\ interest' = interest /\ repeated' = repeated
<1>1. /\ Sensible(a) /\ Halfway(a) /\ Ahead(a, left)
      /\ holder' = [h \in Holders |-> IF h \in Holders THEN Sports!Changed(a, Head(left), h)
                                      ELSE holder[h]]
      /\ Sports!Write(a, Head(left))
  BY OneWrite
<1>2. catalogue' = catalogue /\ groupSport' = groupSport /\ interest' = interest /\ repeated' = repeated
  BY <1>1 DEF Sports!Write, Sports!Reassigned
<1>3. PICK reach \in SUBSET Holders : reach = Holders OBVIOUS
<1>4. holder' = [h \in Holders |-> IF h \in reach THEN Sports!Changed(a, Head(left), h)
                                   ELSE holder[h]]
  BY <1>1, <1>3
<1> QED BY <1>1, <1>2, <1>4, Reaches

LEMMA CarryWrite ==
  ASSUME SportInv, NullIsNothing, Sports!Step, NEW a, a = work.asked, work.left = CarryOn
  PROVE  SportInv'
<1>1. PICK left : left = CarryOn OBVIOUS
<1>2. /\ Sensible(a) /\ Ahead(a, left)
      /\ holder' = [h \in Holders |-> Sports!Changed(a, "carry", h)]
      /\ work' = [op |-> "doing", asked |-> a, left |-> FitOn]
  <2>1. Head(left) = "carry" /\ Len(left) # 1 /\ Tail(left) = FitOn BY <1>1, TheWritesAhead
  <2> QED BY <1>1, <2>1, WriteGoesOn
<1>3. /\ SportShapes' /\ SportsListed' /\ Sensible(a)' /\ Halfway(a)'
      /\ groupSport' = groupSport
  BY <1>1, TheWritesAhead, HoldersWritten
<1>4. a.op = "group" /\ groupSport = a.to BY <1>1, <1>2, TheWritesAhead DEF Ahead
<1>5. ASSUME NEW h \in Grouped, holder'[h].sport # Null PROVE holder'[h].sport = a.to
  <2> DEFINE d == holder[h]
  <2>1. h \in Holders /\ (h \in Sports!Existing <=> d.sport # Null)
    BY DEF Holders, Sports!Existing, Sports!Holder
  <2>2. holder'[h] = IF h \in Grouped \cap Sports!Existing THEN [d EXCEPT !.sport = a.to] ELSE d
    BY <1>2, <2>1, WriteMakes
  <2>3. d = [sport |-> d.sport, format |-> d.format] BY <2>1 DEF SportInv, SportShapes
  <2> HIDE DEF d
  <2>4. [d EXCEPT !.sport = a.to] = [sport |-> a.to, format |-> d.format] BY <2>3
  <2> QED BY <1>5, <2>1, <2>2, <2>4
<1>6. Ahead(a, FitOn)' BY <1>3, <1>4, <1>5 DEF Ahead
<1> QED BY <1>2, <1>3, <1>6, HeldDoing

LEMMA FitWrite ==
  ASSUME SportInv, NullIsNothing, Sports!Step, NEW a, a = work.asked, work.left = FitOn
  PROVE  SportInv'
<1>1. PICK left : left = FitOn OBVIOUS
<1>2. /\ Sensible(a) /\ Ahead(a, left) /\ work' = Sports!Rest
      /\ holder' = [h \in Holders |-> Sports!Changed(a, "fit", h)]
  <2>1. Head(left) = "fit" /\ Len(left) = 1 BY <1>1, TheWritesAhead
  <2> QED BY <1>1, <2>1, WriteEnds
<1>3. /\ SportShapes' /\ SportsListed' /\ Halfway(a)'
      /\ groupSport' = groupSport /\ catalogue' = catalogue
  BY <1>1, TheWritesAhead, HoldersWritten
<1>4. /\ a.op = "group" /\ groupSport = a.to
      /\ \A h \in Grouped : holder[h].sport # Null => holder[h].sport = a.to
  BY <1>1, <1>2, TheWritesAhead DEF Ahead
<1>5. ASSUME NEW h \in Grouped, holder'[h].sport # Null
      PROVE  holder'[h].sport = a.to /\ Fits(holder'[h])
  <2> DEFINE d == holder[h]
             stray == d.format \notin catalogue[a.to].formats \cup {Null}
  <2>1. h \in Holders /\ (h \in Sports!Existing <=> d.sport # Null)
    BY DEF Holders, Sports!Existing, Sports!Holder
  <2>2. holder'[h] = IF h \in Grouped \cap Sports!Existing /\ stray THEN [d EXCEPT !.format = Null] ELSE d
    BY <1>2, <2>1, WriteMakes
  <2>3. d = [sport |-> d.sport, format |-> d.format] BY <2>1 DEF SportInv, SportShapes
  <2>4. d.sport # Null => d.sport = a.to BY <1>4
  <2>5. ~stray => d.format = Null \/ d.format \in catalogue[a.to].formats OBVIOUS
  <2> HIDE DEF d, stray
  <2>6. [d EXCEPT !.format = Null] = [sport |-> d.sport, format |-> Null] BY <2>3
  <2> QED BY <1>5, <2>1, <2>2, <2>4, <2>5, <2>6 DEF Fits
<1>6. AtRest'
  <2>1. \A h \in Holders : holder'[h].sport # Null => Fits(holder'[h]) \/ h \in Grouped
    BY <1>3, <1>4 DEF Halfway, Fits
  <2> QED BY <1>3, <1>4, <1>5, <2>1 DEF AtRest, Fits
<1> QED BY <1>2, <1>3, <1>6, HeldAtRest

LEMMA RenameWrite ==
  ASSUME SportInv, NullIsNothing, Sports!Step, NEW a, a = work.asked, work.left = RenameOn
  PROVE  SportInv'
<1>1. PICK left : left = RenameOn OBVIOUS
<1>2. /\ Sensible(a) /\ Halfway(a) /\ Ahead(a, left)
      /\ holder' = [h \in Holders |-> Sports!Changed(a, "rename", h)]
      /\ work' = [op |-> "doing", asked |-> a, left |-> RowOn]
      /\ Sports!Write(a, "rename")
  <2>1. Head(left) = "rename" /\ Len(left) # 1 /\ Tail(left) = RowOn BY <1>1, TheWritesAhead
  <2> QED BY <1>1, <2>1, WriteGoesOn
<1>3. /\ SportShapes' /\ SportsListed' /\ Sensible(a)' /\ Halfway(a)'
  BY <1>1, TheWritesAhead, HoldersWritten
<1>4. a.op = "rename" /\ a.to # a.from BY <1>1, <1>2, TheWritesAhead DEF Ahead, Sensible
<1>5. ASSUME NEW h \in Holders PROVE holder'[h] # [sport |-> a.of, format |-> a.from]
  <2> DEFINE d == holder[h]
             old == [sport |-> a.of, format |-> a.from]
  <2>1. holder'[h] = IF d = old THEN [d EXCEPT !.format = a.to] ELSE d BY <1>2, WriteMakes
  <2>2. [old EXCEPT !.format = a.to] = [sport |-> a.of, format |-> a.to] OBVIOUS
  <2>3. [sport |-> a.of, format |-> a.to] # old BY <1>4
  <2> HIDE DEF d, old
  <2>4. holder'[h] # old BY <2>1, <2>2, <2>3
  <2> QED BY <2>4 DEF old
<1>6. Ahead(a, RowOn)' BY <1>3, <1>4, <1>5 DEF Ahead
<1> QED BY <1>2, <1>3, <1>6, HeldDoing

LEMMA TakeWrite ==
  ASSUME SportInv, NullIsNothing, Sports!Step, NEW a, a = work.asked, work.left = TakeOn
  PROVE  SportInv'
<1>1. PICK left : left = TakeOn OBVIOUS
<1>2. /\ Sensible(a) /\ Halfway(a) /\ Ahead(a, left)
      /\ holder' = [h \in Holders |-> Sports!Changed(a, "take", h)]
      /\ work' = [op |-> "doing", asked |-> a, left |-> GroupOn]
      /\ Sports!Write(a, "take")
  <2>1. Head(left) = "take" /\ Len(left) # 1 /\ Tail(left) = GroupOn BY <1>1, TheWritesAhead
  <2> QED BY <1>1, <2>1, WriteGoesOn
<1>3. /\ SportShapes' /\ SportsListed' /\ Sensible(a)' /\ Halfway(a)'
  BY <1>1, TheWritesAhead, HoldersWritten
<1>4. a.op = "remove" /\ a.to # Null /\ a.to # a.of
  BY <1>1, <1>2, TheWritesAhead DEF Ahead, Sensible
<1>5. ASSUME NEW h \in Holders PROVE holder'[h].sport # a.of
  <2> DEFINE d == holder[h]
  <2>1. holder'[h] = IF d.sport = a.of THEN [sport |-> a.to, format |-> a.of] ELSE d
    BY <1>2, WriteMakes
  <2>2. d = [sport |-> d.sport, format |-> d.format] BY DEF SportInv, SportShapes
  <2> HIDE DEF d
  <2>3. [sport |-> a.to, format |-> a.of].sport = a.to BY <2>2
  <2> QED BY <1>4, <2>1, <2>3
<1>6. Ahead(a, GroupOn)' BY <1>3, <1>4, <1>5, TheWritesAhead DEF Ahead
<1> QED BY <1>2, <1>3, <1>6, HeldDoing

LEMMA MoveWrite ==
  ASSUME SportInv, NullIsNothing, Sports!Step, NEW a, a = work.asked, work.left = MoveOn
  PROVE  SportInv'
<1>1. PICK left : left = MoveOn OBVIOUS
<1>2. /\ Sensible(a) /\ Halfway(a) /\ Ahead(a, left)
      /\ holder' = [h \in Holders |-> Sports!Changed(a, "move", h)]
      /\ work' = [op |-> "doing", asked |-> a, left |-> GroupOn]
      /\ Sports!Write(a, "move")
  <2>1. Head(left) = "move" /\ Len(left) # 1 /\ Tail(left) = GroupOn BY <1>1, TheWritesAhead
  <2> QED BY <1>1, <2>1, WriteGoesOn
<1>3. /\ SportShapes' /\ SportsListed' /\ Sensible(a)' /\ Halfway(a)'
  BY <1>1, TheWritesAhead, HoldersWritten
<1>4. a.op = "remove" /\ a.to # Null /\ a.to # a.of
  BY <1>1, <1>2, TheWritesAhead DEF Ahead, Sensible
<1>5. ASSUME NEW h \in Holders PROVE holder'[h].sport # a.of
  <2> DEFINE d == holder[h]
  <2>1. holder'[h] = IF d.sport = a.of THEN [d EXCEPT !.sport = a.to] ELSE d
    BY <1>2, WriteMakes
  <2>2. d = [sport |-> d.sport, format |-> d.format] BY DEF SportInv, SportShapes
  <2> HIDE DEF d
  <2>3. [d EXCEPT !.sport = a.to].sport = a.to BY <2>2
  <2> QED BY <1>4, <2>1, <2>3
<1>6. Ahead(a, GroupOn)' BY <1>3, <1>4, <1>5, TheWritesAhead DEF Ahead
<1> QED BY <1>2, <1>3, <1>6, HeldDoing

LEMMA ClearWrite ==
  ASSUME SportInv, NullIsNothing, Sports!Step, NEW a, a = work.asked, work.left = ClearOn
  PROVE  SportInv'
<1>1. PICK left : left = ClearOn OBVIOUS
<1>2. /\ Sensible(a) /\ Halfway(a) /\ Ahead(a, left)
      /\ holder' = [h \in Holders |-> Sports!Changed(a, "clear", h)]
      /\ work' = [op |-> "doing", asked |-> a, left |-> MoveOn]
      /\ Sports!Write(a, "clear")
  <2>1. Head(left) = "clear" /\ Len(left) # 1 /\ Tail(left) = MoveOn BY <1>1, TheWritesAhead
  <2> QED BY <1>1, <2>1, WriteGoesOn
<1>3. /\ SportShapes' /\ SportsListed' /\ Sensible(a)' /\ Halfway(a)' /\ catalogue' = catalogue
  BY <1>1, TheWritesAhead, HoldersWritten
<1>4. a.op = "remove" /\ a.to # Null BY <1>1, <1>2, TheWritesAhead DEF Ahead
<1>5. ASSUME NEW h \in Holders, holder'[h].sport = a.of
      PROVE  holder'[h].format = Null \/ holder'[h].format \in catalogue[a.to].formats
  <2> DEFINE d == holder[h]
             stray == d.format \notin catalogue[a.to].formats \cup {Null}
  <2>1. holder'[h] = IF d.sport = a.of /\ stray THEN [d EXCEPT !.format = Null] ELSE d
    BY <1>2, WriteMakes, ZenonT(30)
  <2>2. d = [sport |-> d.sport, format |-> d.format] BY DEF SportInv, SportShapes
  <2>3. ~stray => d.format = Null \/ d.format \in catalogue[a.to].formats OBVIOUS
  <2> HIDE DEF d, stray
  <2>4. [d EXCEPT !.format = Null].format = Null BY <2>2
  <2> QED BY <1>5, <2>1, <2>3, <2>4
<1>6. Ahead(a, MoveOn)' BY <1>3, <1>4, <1>5, TheWritesAhead DEF Ahead
<1> QED BY <1>2, <1>3, <1>6, HeldDoing

LEMMA GroupWrite ==
  ASSUME SportInv, NullIsNothing, Sports!Step, NEW a, a = work.asked, work.left = GroupOn
  PROVE  SportInv'
<1>1. PICK left : left = GroupOn OBVIOUS
<1>2. /\ Sensible(a) /\ Halfway(a) /\ Ahead(a, left)
      /\ holder' = [h \in Holders |-> Sports!Changed(a, "group", h)]
      /\ work' = [op |-> "doing", asked |-> a, left |-> DropOn]
      /\ Sports!Write(a, "group")
  <2>1. Head(left) = "group" /\ Len(left) # 1 /\ Tail(left) = DropOn BY <1>1, TheWritesAhead
  <2> QED BY <1>1, <2>1, WriteGoesOn
<1>3. /\ holder' = holder /\ catalogue' = catalogue /\ interest' = interest /\ repeated' = repeated
      /\ groupSport' = IF groupSport = a.of THEN a.to ELSE groupSport
  BY <1>2, HoldersRest DEF Sports!Write, Sports!Reassigned
<1>4. /\ a.op = "remove" /\ a.to # Null /\ a.to # a.of /\ a.to \in Sport /\ catalogue[a.to].listed
      /\ \A h \in Holders : holder[h].sport # a.of
  BY <1>1, <1>2, TheWritesAhead DEF Ahead, Sensible
<1>5. SportShapes' /\ SportsListed' BY <1>3, <1>4 DEF SportInv, SportShapes, SportsListed
<1>6. Sensible(a)' BY <1>2, <1>3, <1>4 DEF Sensible
<1>7. Halfway(a)'
  <2>1. ASSUME NEW h \in Grouped, holder[h].sport # Null, groupSport' # Null
        PROVE  holder[h].sport = groupSport'
    <3>1. h \in Holders BY DEF Holders
    <3>2. CASE groupSport = Null BY <1>2, <1>3, <1>4, <2>1, <3>2 DEF Sensible, NullIsNothing
    <3>3. CASE groupSport # Null BY <1>2, <1>3, <1>4, <2>1, <3>1, <3>3 DEF Halfway
    <3> QED BY <3>2, <3>3
  <2> QED BY <1>2, <1>3, <1>4, <2>1 DEF Halfway, Fits
<1>8. Ahead(a, DropOn)' BY <1>3, <1>4, TheWritesAhead DEF Ahead
<1> QED BY <1>2, <1>5, <1>6, <1>7, <1>8, HeldDoing

LEMMA DropWrite ==
  ASSUME SportInv, NullIsNothing, Sports!Step, NEW a, a = work.asked, work.left = DropOn
  PROVE  SportInv'
<1>1. PICK left : left = DropOn OBVIOUS
<1>2. /\ Sensible(a) /\ Halfway(a) /\ Ahead(a, left)
      /\ holder' = [h \in Holders |-> Sports!Changed(a, "drop", h)]
      /\ work' = [op |-> "doing", asked |-> a, left |-> SwapOn]
      /\ Sports!Write(a, "drop")
  <2>1. Head(left) = "drop" /\ Len(left) # 1 /\ Tail(left) = SwapOn BY <1>1, TheWritesAhead
  <2> QED BY <1>1, <2>1, WriteGoesOn
<1>3. /\ holder' = holder /\ catalogue' = catalogue /\ groupSport' = groupSport
      /\ interest' = IF {a.of, a.to} \subseteq Sports!Interests(interest)
                     THEN [interest EXCEPT ![a.of] = 0] ELSE interest
      /\ repeated' = repeated
  BY <1>2, HoldersRest DEF Sports!Write, Sports!Reassigned
<1>4. /\ a.op = "remove" /\ a.to # Null /\ a.to # a.of /\ {a.of, a.to} \subseteq Sport /\ catalogue[a.to].listed
      /\ groupSport # a.of /\ \A h \in Holders : holder[h].sport # a.of
  BY <1>1, <1>2, TheWritesAhead DEF Ahead, Sensible
<1>5. PICK x \in Sport, y \in Sport : x = a.of /\ y = a.to BY <1>4
<1>0. /\ interest' \in [Sport -> Nat] /\ (interest'[x] = 0 \/ interest'[y] = 0)
      /\ \A z \in Sport : interest'[z] \in {interest[z], 0}
  BY <1>3, <1>5 DEF SportInv, SportShapes, Sports!Interests
<1>11. SportShapes' /\ SportsListed' BY <1>0, <1>3, <1>4 DEF SportInv, SportShapes, SportsListed
<1>6. Sensible(a)' BY <1>2, <1>3, <1>4 DEF Sensible
<1>7. Halfway(a)' BY <1>2, <1>3 DEF Halfway, Fits
<1>8. Ahead(a, SwapOn)' BY <1>0, <1>3, <1>4, <1>5, TheWritesAhead DEF Ahead
<1> QED BY <1>2, <1>11, <1>6, <1>7, <1>8, HeldDoing

LEMMA SwapWrite ==
  ASSUME SportInv, NullIsNothing, Sports!Step, NEW a, a = work.asked, work.left = SwapOn
  PROVE  SportInv'
<1>1. PICK left : left = SwapOn OBVIOUS
<1>2. /\ Sensible(a) /\ Halfway(a) /\ Ahead(a, left)
      /\ holder' = [h \in Holders |-> Sports!Changed(a, "swap", h)]
      /\ work' = [op |-> "doing", asked |-> a, left |-> DeleteOn]
      /\ Sports!Write(a, "swap")
  <2>1. Head(left) = "swap" /\ Len(left) # 1 /\ Tail(left) = DeleteOn BY <1>1, TheWritesAhead
  <2> QED BY <1>1, <2>1, WriteGoesOn
<1>3. /\ holder' = holder /\ catalogue' = catalogue /\ groupSport' = groupSport
      /\ interest' = IF a.of \in Sports!Interests(interest)
                     THEN [interest EXCEPT ![a.of] = @ - 1, ![a.to] = @ + 1] ELSE interest
      /\ repeated' = repeated
  BY <1>2, HoldersRest DEF Sports!Write, Sports!Reassigned
<1>4. /\ a.op = "remove" /\ a.to # Null /\ a.to # a.of /\ {a.of, a.to} \subseteq Sport /\ catalogue[a.to].listed
      /\ interest[a.of] = 0 \/ interest[a.to] = 0
      /\ groupSport # a.of /\ \A h \in Holders : holder[h].sport # a.of
  BY <1>1, <1>2, TheWritesAhead DEF Ahead, Sensible
<1>5. PICK x \in Sport, y \in Sport : x = a.of /\ y = a.to BY <1>4
<1>0. /\ interest' \in [Sport -> Nat]
      /\ interest[x] # 1 \/ interest'[x] = 0
      /\ \A z \in Sport : interest'[z] > interest[z] => z = y /\ interest'[z] = 1
      /\ interest[x] = 0 => interest' = interest
  <2>1. interest \in [Sport -> Nat] /\ x # y /\ (interest[x] = 0 \/ interest[y] = 0)
    BY <1>4, <1>5 DEF SportInv, SportShapes
  <2>2. CASE interest[x] = 0 BY <1>3, <1>5, <2>1, <2>2 DEF Sports!Interests
  <2>3. CASE interest[x] > 0
    <3>1. interest' = [interest EXCEPT ![x] = @ - 1, ![y] = @ + 1]
      BY <1>3, <1>5, <2>1, <2>3 DEF Sports!Interests
    <3>2. interest' = [z \in Sport |-> IF z = y THEN interest[z] + 1
                                       ELSE IF z = x THEN interest[z] - 1 ELSE interest[z]]
      BY <2>1, <3>1
    <3> QED BY <2>1, <2>3, <3>2
  <2> QED BY <2>1, <2>2, <2>3
<1>11. SportShapes' /\ SportsListed'
  <2>1. \A z \in Sport : interest[z] \in Nat /\ interest'[z] \in Nat
    BY <1>0 DEF SportInv, SportShapes
  <2>2. ~repeated' => \A z \in Sport : interest'[z] > 0 => interest'[z] = 1 /\ catalogue[z].listed
    <3>1. SUFFICES ASSUME ~repeated, NEW z \in Sport, interest'[z] > 0
                   PROVE  interest'[z] = 1 /\ catalogue[z].listed
      BY <1>3
    <3>2. interest[z] > 0 => interest[z] = 1 /\ catalogue[z].listed BY <3>1 DEF SportInv, SportsListed
    <3> QED BY <1>0, <1>4, <1>5, <2>1, <3>1, <3>2
  <2> QED BY <1>0, <1>3, <2>2 DEF SportInv, SportShapes, SportsListed
<1>6. Sensible(a)' BY <1>2, <1>3, <1>4 DEF Sensible
<1>7. Halfway(a)' BY <1>2, <1>3 DEF Halfway, Fits
<1>8. ~repeated' => interest'[a.of] = 0
  BY <1>0, <1>3, <1>5 DEF SportInv, SportShapes, SportsListed
<1>9. Ahead(a, DeleteOn)' BY <1>3, <1>4, <1>8, TheWritesAhead DEF Ahead
<1> QED BY <1>2, <1>11, <1>6, <1>7, <1>9, HeldDoing

LEMMA RowWrite ==
  ASSUME SportInv, NullIsNothing, Sports!Step, NEW a, a = work.asked, work.left = RowOn
  PROVE  SportInv'
<1>1. PICK left : left = RowOn OBVIOUS
<1>2. /\ Sensible(a) /\ Halfway(a) /\ Ahead(a, left)
      /\ holder' = [h \in Holders |-> Sports!Changed(a, "row", h)]
      /\ work' = Sports!Rest
      /\ Sports!Write(a, "row")
  <2>1. Head(left) = "row" /\ Len(left) = 1 BY <1>1, TheWritesAhead
  <2> QED BY <1>1, <2>1, WriteEnds
<1>3. /\ holder' = holder /\ groupSport' = groupSport /\ interest' = interest /\ repeated' = repeated
      /\ catalogue' = [catalogue EXCEPT ![a.of].formats = (@ \ {a.from}) \cup {a.to}]
  BY <1>2, HoldersRest DEF Sports!Write, Sports!Reassigned
<1>4. /\ a.op = "rename" /\ a.of \in Sport
      /\ \A h \in Holders : holder[h] # [sport |-> a.of, format |-> a.from]
  BY <1>1, <1>2, TheWritesAhead DEF Ahead, Sensible
<1>5. PICK fs : fs = (catalogue[a.of].formats \ {a.from}) \cup {a.to} OBVIOUS
<1>6. /\ SportShapes' /\ SportsListed' /\ catalogue'[a.of].formats = fs
      /\ \A x \in Sport : x # a.of => catalogue'[x] = catalogue[x]
  <2>1. PICK x \in Sport : x = a.of BY <1>4
  <2>2. PICK yes : yes = catalogue[x].listed OBVIOUS
  <2>3. yes BY <1>2, <1>4, <2>1, <2>2 DEF Sensible
  <2>4. PICK row : row = [listed |-> yes, formats |-> fs] OBVIOUS
  <2>5. row = [listed |-> row.listed, formats |-> row.formats] /\ row.listed = yes /\ row.formats = fs
    BY <2>4
  <2>6. catalogue' = [catalogue EXCEPT ![x].formats = fs] BY <1>3, <1>5, <2>1
  <2>7. catalogue' = [catalogue EXCEPT ![x] = row] BY <2>2, <2>3, <2>4, <2>6, FormatsWritten
  <2>8. catalogue = [y \in Sport |-> catalogue[y]] BY DEF SportInv, SportShapes
  <2>9. catalogue' = [y \in Sport |-> IF y = x THEN row ELSE catalogue[y]] BY <2>7, <2>8
  <2>10. SportShapes' BY <1>3, <2>5, <2>9 DEF SportInv, SportShapes
  <2>11. SportsListed' BY <1>3, <2>3, <2>5, <2>9 DEF SportInv, SportsListed
  <2> QED BY <2>1, <2>5, <2>9, <2>10, <2>11
<1>7. ASSUME NEW h \in Holders, holder[h].sport # Null
      PROVE  holder[h].format = Null \/ holder[h].format \in catalogue'[holder[h].sport].formats
  <2>1. holder[h].sport \in Sport BY <1>7 DEF SportInv, SportsListed
  <2>2. Fits(holder[h]) \/ holder[h] = [sport |-> a.of, format |-> a.to]
    BY <1>2, <1>4, <1>7 DEF Halfway
  <2>3. holder[h] = [sport |-> holder[h].sport, format |-> holder[h].format]
    BY DEF SportInv, SportShapes
  <2>4. CASE holder[h].sport = a.of
    <3>1. holder[h].format # a.from BY <1>4, <2>3, <2>4
    <3>2. holder[h] = [sport |-> a.of, format |-> a.to] => holder[h].format = a.to OBVIOUS
    <3>3. \/ holder[h].format = Null \/ holder[h].format = a.to
          \/ holder[h].format \in catalogue[a.of].formats
      BY <2>2, <2>4, <3>2 DEF Fits
    <3> QED BY <1>5, <1>6, <2>4, <3>1, <3>3
  <2>5. CASE holder[h].sport # a.of
    <3>1. holder[h] # [sport |-> a.of, format |-> a.to] BY <2>5
    <3> QED BY <1>6, <2>1, <2>2, <2>5, <3>1 DEF Fits
  <2> QED BY <2>4, <2>5
<1>8. AtRest' BY <1>2, <1>3, <1>4, <1>7 DEF AtRest, Halfway, Fits
<1> QED BY <1>2, <1>6, <1>8, HeldAtRest

LEMMA DeleteWrite ==
  ASSUME SportInv, NullIsNothing, Sports!Step, NEW a, a = work.asked, work.left = DeleteOn
  PROVE  SportInv'
<1>1. PICK left : left = DeleteOn OBVIOUS
<1>2. /\ Sensible(a) /\ Halfway(a) /\ Ahead(a, left)
      /\ holder' = [h \in Holders |-> Sports!Changed(a, "delete", h)]
      /\ work' = Sports!Rest
      /\ Sports!Write(a, "delete")
  <2>1. Head(left) = "delete" /\ Len(left) = 1 BY <1>1, TheWritesAhead
  <2> QED BY <1>1, <2>1, WriteEnds
<1>3. /\ holder' = holder /\ groupSport' = groupSport /\ interest' = interest /\ repeated' = repeated
      /\ catalogue' = [catalogue EXCEPT ![a.of] = [listed |-> FALSE, formats |-> {}]]
  BY <1>2, HoldersRest DEF Sports!Write, Sports!Reassigned
<1>4. /\ a.op = "remove" /\ a.of \in Sport /\ groupSport # a.of /\ (~repeated => interest[a.of] = 0)
      /\ \A h \in Holders : holder[h].sport # a.of
  BY <1>1, <1>2, TheWritesAhead DEF Ahead, Sensible
<1>5. catalogue = [x \in Sport |-> catalogue[x]] BY DEF SportInv, SportShapes
<1>6. PICK gone : gone = [listed |-> FALSE, formats |-> {}] OBVIOUS
<1>7. gone = [listed |-> gone.listed, formats |-> gone.formats] BY <1>6
<1>8. catalogue' = [x \in Sport |-> IF x = a.of THEN gone ELSE catalogue[x]] BY <1>3, <1>4, <1>5, <1>6
<1>9. SportShapes' BY <1>3, <1>7, <1>8 DEF SportInv, SportShapes
<1>10. SportsListed' BY <1>3, <1>4, <1>8 DEF SportInv, SportsListed
<1>11. ASSUME NEW h \in Holders, holder[h].sport # Null
       PROVE  holder[h].format = Null \/ holder[h].format \in catalogue'[holder[h].sport].formats
  <2>1. holder[h].sport \in Sport /\ holder[h].sport # a.of BY <1>4, <1>11 DEF SportInv, SportsListed
  <2>2. Fits(holder[h]) BY <1>2, <1>4, <1>11 DEF Halfway
  <2> QED BY <1>8, <2>1, <2>2 DEF Fits
<1>12. AtRest' BY <1>2, <1>3, <1>4, <1>11 DEF AtRest, Halfway, Fits
<1> QED BY <1>2, <1>9, <1>10, <1>12, HeldAtRest

LEMMA WriteStep ==
  ASSUME SportInv, NullIsNothing, Sports!Step
  PROVE  SportInv'
<1>1. PICK a, left : a = work.asked /\ left = work.left OBVIOUS
<1>2. Ahead(a, left) BY <1>1, InHand DEF Sports!Step
<1>3. left \in {SetOn, CarryOn, FitOn, RenameOn, RowOn, TakeOn, ClearOn, MoveOn, GroupOn, DropOn,
                SwapOn, DeleteOn}
  BY <1>2 DEF Ahead
<1> QED BY <1>1, <1>3, SetWrite, CarryWrite, FitWrite, RenameWrite, RowWrite, TakeWrite, ClearWrite,
           MoveWrite, GroupWrite, DropWrite, SwapWrite, DeleteWrite

LEMMA SportStutter ==
  ASSUME SportInv, UNCHANGED Sports!vars
  PROVE  SportInv'
<1>1. /\ catalogue' = catalogue /\ groupSport' = groupSport /\ holder' = holder
      /\ interest' = interest /\ repeated' = repeated /\ work' = work
  BY DEF Sports!vars, Sports!profile
<1>2. SportShapes' /\ SportsListed' BY <1>1 DEF SportInv, SportShapes, SportsListed
<1>3. AtRest => AtRest' BY <1>1 DEF AtRest, Fits
<1>4. Sensible(work.asked) => Sensible(work.asked)' BY <1>1 DEF Sensible
<1>5. Halfway(work.asked) => Halfway(work.asked)' BY <1>1 DEF Halfway, Fits
<1>6. Ahead(work.asked, work.left) => Ahead(work.asked, work.left)' BY <1>1 DEF Ahead
<1> QED BY <1>1, <1>2, <1>3, <1>4, <1>5, <1>6 DEF SportInv, WorkInHand

LEMMA SportNext ==
  ASSUME SportInv, NullIsNothing, [Sports!Next]_(Sports!vars)
  PROVE  SportInv'
<1>1. CASE \E h \in Sports!Holder :
             \/ Sports!DeleteEvent(h)
             \/ \E x \in Sport, f \in Format \cup {Null} : Sports!SaveEvent(h, x, f)
  BY <1>1, DeleteEventStep, SaveEventStep DEF Sports!Holder, Holders
<1>2. CASE \E sports \in Sports!Profile : Sports!UpdateProfile(sports) BY <1>2, UpdateProfileStep
<1>3. CASE \E x \in Sport : \/ Sports!CreateSport(x)
                           \/ \E f \in Format : Sports!AddSubType(x, f) \/ Sports!RemoveSubType(x, f)
  BY <1>3, CreateSportStep, FormatsStep
<1>4. CASE \E a \in Sports!Ask : Sports!Begin(a) BY <1>4, BeginAskStep
<1>5. CASE Sports!Step BY <1>5, WriteStep
<1>6. CASE Sports!Fail BY <1>6, FailStep
<1>7. CASE Sports!Retry BY <1>7, RetryStep
<1>8. CASE UNCHANGED Sports!vars BY <1>8, SportStutter
<1> QED BY <1>1, <1>2, <1>3, <1>4, <1>5, <1>6, <1>7, <1>8 DEF Sports!Next

LEMMA SportPromise ==
  ASSUME SportInv, NullIsNothing
  PROVE  Sports!CatalogueSound
<1>1. Sports!ValuesListed
  <2> SUFFICES ASSUME work = Sports!Rest PROVE
        /\ \A h \in Sports!Existing : Sports!Valid(holder[h].sport, holder[h].format)
        /\ groupSport # Null => \A h \in Grouped \cap Sports!Existing : holder[h].sport = groupSport
        /\ {groupSport} \ {Null} \subseteq Sports!Listed
        /\ ~repeated => Sports!Interests(interest) \subseteq Sports!Listed
    BY DEF Sports!ValuesListed, Sports!Resting
  <2>1. AtRest BY InHand DEF Sports!Rest
  <2>2. \A h \in Sports!Existing : h \in Holders /\ holder[h].sport # Null
    BY DEF Sports!Existing, Sports!Holder, Holders
  <2>3. \A h \in Sports!Existing : Sports!Valid(holder[h].sport, holder[h].format)
    BY <2>1, <2>2 DEF AtRest, Fits, SportInv, SportsListed, Sports!Valid, Sports!Listed, Sports!Formats
  <2>4. groupSport # Null => \A h \in Grouped \cap Sports!Existing : holder[h].sport = groupSport
    BY <2>1, <2>2 DEF AtRest
  <2>5. /\ {groupSport} \ {Null} \subseteq Sports!Listed
        /\ ~repeated => Sports!Interests(interest) \subseteq Sports!Listed
    BY DEF SportInv, SportsListed, Sports!Listed, Sports!Interests
  <2> QED BY <2>3, <2>4, <2>5
<1>2. Sports!Retryable
  <2> SUFFICES ASSUME work.op = "failed" PROVE Sports!Accepted(work.asked) BY DEF Sports!Retryable
  <2>1. PICK a : a = work.asked OBVIOUS
  <2>2. Sensible(a) BY <2>1, InHand
  <2>3. a.op = "remove" /\ a.to = Null => ~Sports!Used(a.of)
    BY <2>2 DEF Sensible, Sports!Used, Sports!Interests, Sports!Holder, Holders
  <2>4. Sports!Accepted(a)
    <3>1. CASE a.op = "group" BY <2>2, <3>1 DEF Sensible, Sports!Accepted, Sports!Listed
    <3>2. CASE a.op = "remove"
      BY <2>2, <2>3, <3>2 DEF Sensible, Sports!Accepted, Sports!Listed
    <3>3. CASE a.op = "rename"
      BY <2>2, <3>3 DEF Sensible, Sports!Accepted, Sports!Listed, Sports!Formats
    <3> QED BY <2>2, <3>1, <3>2, <3>3 DEF Sensible
  <2> QED BY <2>1, <2>4
<1> QED BY <1>1, <1>2 DEF Sports!CatalogueSound

\* When no request is under way, nothing stores a sport or a format that the catalogue
\* does not list, a profile with a repetition apart, and the group's events carry its
\* sport; and a request that broke off is accepted when it is sent again.  For any
\* sports, formats and events, wherever and however often requests fail.
THEOREM CatalogueStaysSound ==
  ASSUME NullIsNothing
  PROVE  Sports!Spec => []Sports!CatalogueSound
<1>1. Sports!Init => SportInv BY SportInit
<1>2. SportInv /\ [Sports!Next]_(Sports!vars) => SportInv' BY SportNext
<1>3. SportInv => Sports!CatalogueSound BY SportPromise
<1> QED BY <1>1, <1>2, <1>3, PTL DEF Sports!Spec

-----------------------------------------------------------------------------
(* The deletion of an account: steps *)

LEMMA AccountInit ==
  ASSUME Q!Init PROVE AccountInv
<1>1. AccountShapes BY DEF AccountShapes, Q!Init, Q!Idle, Q!Status
<1>2. Departing BY DEF Departing, Q!Init, Q!Idle
<1> QED BY <1>1, <1>2 DEF AccountInv

\* Nothing that is over is called off, and a move leads to a status.
LEMMA CalledOff ==
  ASSUME NEW kind \in Q!Kind, NEW from \in Q!Status, NEW to, Q!CanTransition(kind, from, to)
  PROVE  /\ to \in Q!Status
         /\ to = "cancelled" => from \notin Finals
<1> DEFINE moves == Q!TransitionsFor(kind)
<1>1. /\ moves["join"] \in {{"preparation", "cancelled"}, {"ready_to_play", "cancelled"}}
      /\ moves["preparation"] = {"ready_to_play", "join", "cancelled"}
      /\ moves["ready_to_play"] \in {{"playing", "preparation", "cancelled"},
                                     {"playing", "join", "cancelled"}}
      /\ moves["playing"] = {"after_match", "cancelled"}
      /\ moves["after_match"] = {"done"}
      /\ moves["done"] = {} /\ moves["cancelled"] = {}
  <2>1. CASE kind = "match" BY <2>1 DEF Q!TransitionsFor, Q!MatchTransitions
  <2>2. CASE kind = "no_match"
    BY <2>2 DEF Q!TransitionsFor, Q!NoMatchTransitions, Q!MatchTransitions
  <2>3. CASE kind = "challenge"
    BY <2>3 DEF Q!TransitionsFor, Q!ChallengeTransitions, Q!MatchTransitions
  <2> QED BY <2>1, <2>2, <2>3 DEF Q!Kind
<1>2. to \in moves[from] BY DEF Q!CanTransition
<1> HIDE DEF moves
<1> QED BY <1>1, <1>2 DEF Q!Status, Finals

\* The request ends.
LEMMA AccountEnds ==
  ASSUME AccountInv, NEW how, Q!End(how), engagement' = engagement, roster' = roster
  PROVE  AccountInv'
<1>1. deletion' = [stage |-> "idle", left |-> {}, changed |-> {}, end |-> how]
  BY DEF Q!End, Q!Idle
<1>2. deletion'.stage = "idle" BY <1>1
<1>3. AccountShapes' BY <1>1, <1>2 DEF AccountInv, AccountShapes
<1> QED BY <1>2, <1>3 DEF AccountInv, Departing

\* An event changes while no account is being deleted.
LEMMA EventChanges ==
  ASSUME AccountInv, deletion.stage = "idle", deletion' = deletion, NEW e \in Event,
         roster' = [o \in Event |-> roster'[o]],
         engagement' = [o \in Event |-> engagement'[o]],
         \A o \in Event : o # e => engagement'[o] = engagement[o],
         LET d == engagement'[e]
         IN  /\ d = [kind |-> d.kind, status |-> d.status, was |-> d.was, mine |-> d.mine]
             /\ d.kind \in Q!Kind \cup {Null} /\ d.status \in Q!Status
             /\ d.status = "cancelled" => d.was \in Going
  PROVE  AccountInv'
<1>1. ASSUME NEW o \in Event
      PROVE  LET d == engagement'[o]
             IN  /\ d = [kind |-> d.kind, status |-> d.status, was |-> d.was, mine |-> d.mine]
                 /\ d.kind \in Q!Kind \cup {Null} /\ d.status \in Q!Status
                 /\ d.status = "cancelled" => d.was \in Going
  <2>1. CASE o = e BY <2>1
  <2>2. CASE o # e
    <3>1. engagement'[o] = engagement[o] BY <2>2
    <3> QED BY <3>1 DEF AccountInv, AccountShapes
  <2> QED BY <2>1, <2>2
<1>2. AccountShapes' BY <1>1 DEF AccountInv, AccountShapes
<1> QED BY <1>2 DEF AccountInv, Departing

\* The status of one event changes, and what it was before.
LEMMA StatusOf ==
  ASSUME AccountInv, NEW e \in Event, NEW to, NEW was,
         engagement' = [engagement EXCEPT ![e].status = to, ![e].was = was]
  PROVE  /\ engagement' = [o \in Event |-> engagement'[o]]
         /\ \A o \in Event : o # e => engagement'[o] = engagement[o]
         /\ engagement'[e] = [kind |-> engagement[e].kind, status |-> to, was |-> was,
                              mine |-> engagement[e].mine]
<1> DEFINE d == engagement[e]
           once == [engagement EXCEPT ![e].status = to]
<1>1. /\ d = [kind |-> d.kind, status |-> d.status, was |-> d.was, mine |-> d.mine]
      /\ engagement = [o \in Event |-> engagement[o]]
  BY DEF AccountInv, AccountShapes
<1>2. engagement' = [once EXCEPT ![e].was = was] OBVIOUS
<1>3. /\ once = [o \in Event |-> once[o]] /\ once[e] = [d EXCEPT !.status = to]
      /\ \A o \in Event : o # e => once[o] = engagement[o]
  BY <1>1
<1> HIDE DEF once
<1>4. /\ engagement' = [o \in Event |-> engagement'[o]]
      /\ engagement'[e] = [once[e] EXCEPT !.was = was]
      /\ \A o \in Event : o # e => engagement'[o] = engagement[o]
  BY <1>2, <1>3
<1> HIDE DEF d
<1>5. once[e] = [kind |-> d.kind, status |-> to, was |-> d.was, mine |-> d.mine]
  BY <1>1, <1>3
<1>6. engagement'[e] = [kind |-> d.kind, status |-> to, was |-> was, mine |-> d.mine]
  BY <1>4, <1>5
<1> QED BY <1>4, <1>6 DEF d

LEMMA CancelStep ==
  ASSUME AccountInv, NEW e \in Event, Q!Cancel(e)
  PROVE  AccountInv'
<1>1. CASE Q!Refused BY <1>1, AccountEnds DEF Q!Refused
<1>2. CASE ~Q!Refused
  <2> DEFINE d == deletion
  <2>1. /\ deletion.stage = "cancel" /\ e \in deletion.left
        /\ Q!CanTransition(engagement[e].kind, engagement[e].status, "cancelled")
        /\ engagement' = [engagement EXCEPT ![e].status = "cancelled", ![e].was = engagement[e].status]
        /\ deletion' = [d EXCEPT !.left = @ \ {e}, !.changed = @ \cup {e}]
        /\ owns' = owns /\ roster' = roster
    BY <1>2 DEF Q!Cancel
  <2>2. d = [stage |-> d.stage, left |-> d.left, changed |-> d.changed, end |-> d.end]
    BY DEF AccountInv, AccountShapes
  <2> HIDE DEF d
  <2>3. deletion' = [stage |-> d.stage, left |-> d.left \ {e}, changed |-> d.changed \cup {e},
                     end |-> d.end]
    <3> DEFINE once == [d EXCEPT !.left = d.left \ {e}]
    <3>1. once = [stage |-> d.stage, left |-> d.left \ {e}, changed |-> d.changed, end |-> d.end]
      BY <2>2
    <3>2. deletion' = [once EXCEPT !.changed = d.changed \cup {e}] BY <2>1
    <3> HIDE DEF once
    <3> QED BY <3>1, <3>2
  <2>4. deletion'.stage = "cancel" /\ deletion'.left = deletion.left \ {e} BY <2>1, <2>3 DEF d
  <2>5. /\ engagement' = [o \in Event |-> engagement'[o]]
        /\ \A o \in Event : o # e => engagement'[o] = engagement[o]
        /\ engagement'[e] = [kind |-> engagement[e].kind, status |-> "cancelled",
                             was |-> engagement[e].status, mine |-> engagement[e].mine]
    BY <2>1, StatusOf
  <2>6. /\ engagement'[e].kind = engagement[e].kind /\ engagement'[e].status = "cancelled"
        /\ engagement'[e].was = engagement[e].status /\ engagement'[e].mine = engagement[e].mine
    BY <2>5
  <2>7. AccountShapes'
    <3>1. ASSUME NEW o \in Event
          PROVE  LET n == engagement'[o]
                 IN  /\ n = [kind |-> n.kind, status |-> n.status, was |-> n.was, mine |-> n.mine]
                     /\ n.kind \in Q!Kind \cup {Null} /\ n.status \in Q!Status
                     /\ n.status = "cancelled" => n.was \in Going
      <4>1. CASE o = e
        <5>1. /\ engagement[e].kind \in Q!Kind /\ engagement[e].status \in Q!Status
              /\ "cancelled" \in Q!Status
          BY <2>1 DEF AccountInv, AccountShapes, Departing, Q!Status
        <5>2. engagement[e].status \in Going
          BY <2>1, <5>1, CalledOff DEF Going, Finals
        <5> QED BY <4>1, <5>1, <5>2, <2>5, <2>6
      <4>2. CASE o # e
        <5>1. engagement'[o] = engagement[o] BY <4>2, <2>5
        <5> QED BY <5>1 DEF AccountInv, AccountShapes
      <4> QED BY <4>1, <4>2
    <3>2. deletion' = [stage |-> deletion'.stage, left |-> deletion'.left,
                       changed |-> deletion'.changed, end |-> deletion'.end]
      BY <2>3
    <3>3. deletion'.stage \in {"idle", "cancel", "leave"} BY <2>4
    <3> QED BY <3>1, <3>2, <3>3, <2>1, <2>5 DEF AccountInv, AccountShapes
  <2>8. Departing'
    <3>1. owns' = FALSE BY <2>1 DEF AccountInv, Departing
    <3>2. Unfinished(engagement') \subseteq deletion'.left
      BY <2>1, <2>4, <2>5, <2>6 DEF AccountInv, Departing, Unfinished, Finals
    <3>3. ASSUME NEW o \in deletion'.left
          PROVE  o \in Event /\ engagement'[o].kind # Null /\ engagement'[o].mine
      BY <2>1, <2>4, <2>5, <3>3 DEF AccountInv, Departing
    <3> QED BY <2>4, <3>1, <3>2, <3>3 DEF Departing
  <2> QED BY <2>7, <2>8 DEF AccountInv
<1> QED BY <1>1, <1>2

LEMMA FindRostersStep ==
  ASSUME AccountInv, Q!FindRosters
  PROVE  AccountInv'
<1>1. /\ deletion.stage = "cancel" /\ deletion.left = {} /\ owns' = owns
      /\ engagement' = engagement /\ roster' = roster
      /\ deletion' = [deletion EXCEPT !.stage = "leave", !.left = Q!OpenJoined]
  BY DEF Q!FindRosters
<1> DEFINE d == deletion
           once == [d EXCEPT !.stage = "leave"]
<1>2. d = [stage |-> d.stage, left |-> d.left, changed |-> d.changed, end |-> d.end]
  BY DEF AccountInv, AccountShapes
<1>3. deletion' = [once EXCEPT !.left = Q!OpenJoined] BY <1>1
<1> HIDE DEF d
<1>4. once = [stage |-> "leave", left |-> d.left, changed |-> d.changed, end |-> d.end] BY <1>2
<1> HIDE DEF once
<1>5. deletion' = [stage |-> "leave", left |-> Q!OpenJoined, changed |-> d.changed, end |-> d.end]
  BY <1>3, <1>4
<1>6. deletion'.stage = "leave" /\ deletion'.left = Q!OpenJoined BY <1>5
<1>7. AccountShapes' BY <1>1, <1>5, <1>6 DEF AccountInv, AccountShapes
<1>8. Departing'
  <2>1. Q!OpenJoined = OpenOn(engagement, roster) BY DEF Q!OpenJoined, Q!On, Q!Made, OpenOn
  <2>2. Unfinished(engagement) = {} BY <1>1 DEF AccountInv, Departing
  <2>3. owns' = FALSE BY <1>1 DEF AccountInv, Departing
  <2> QED BY <1>1, <1>6, <2>1, <2>2, <2>3 DEF Departing, OpenOn
<1> QED BY <1>7, <1>8 DEF AccountInv

LEMMA LeaveStep ==
  ASSUME AccountInv, NEW e \in Event, Q!Leave(e)
  PROVE  AccountInv'
<1>1. CASE Q!Refused BY <1>1, AccountEnds DEF Q!Refused
<1>2. CASE ~Q!Refused
  <2> DEFINE d == deletion
  <2>1. /\ deletion.stage = "leave" /\ e \in deletion.left
        /\ roster' = [roster EXCEPT ![e] = "cancelled"]
        /\ deletion' = [d EXCEPT !.left = @ \ {e}, !.changed = @ \cup {e}]
        /\ owns' = owns /\ engagement' = engagement
    BY <1>2 DEF Q!Leave
  <2>2. d = [stage |-> d.stage, left |-> d.left, changed |-> d.changed, end |-> d.end]
    BY DEF AccountInv, AccountShapes
  <2> HIDE DEF d
  <2>3. deletion' = [stage |-> d.stage, left |-> d.left \ {e}, changed |-> d.changed \cup {e},
                     end |-> d.end]
    <3> DEFINE once == [d EXCEPT !.left = d.left \ {e}]
    <3>1. once = [stage |-> d.stage, left |-> d.left \ {e}, changed |-> d.changed, end |-> d.end]
      BY <2>2
    <3>2. deletion' = [once EXCEPT !.changed = d.changed \cup {e}] BY <2>1
    <3> HIDE DEF once
    <3> QED BY <3>1, <3>2
  <2>4. deletion'.stage = "leave" /\ deletion'.left = deletion.left \ {e} BY <2>1, <2>3 DEF d
  <2>5. /\ roster' = [o \in Event |-> roster'[o]] /\ roster'[e] = "cancelled"
        /\ \A o \in Event : o # e => roster'[o] = roster[o]
    BY <2>1 DEF AccountInv, AccountShapes
  <2>6. AccountShapes' BY <2>1, <2>3, <2>4, <2>5 DEF AccountInv, AccountShapes
  <2>7. Departing'
    <3>1. owns' = FALSE /\ Unfinished(engagement) = {} BY <2>1 DEF AccountInv, Departing
    <3>2. OpenOn(engagement', roster') \subseteq deletion'.left
      BY <2>1, <2>4, <2>5 DEF AccountInv, Departing, OpenOn
    <3>3. \A o \in deletion'.left : o \in Event BY <2>1, <2>4 DEF AccountInv, Departing
    <3> QED BY <2>1, <2>4, <3>1, <3>2, <3>3 DEF Departing
  <2> QED BY <2>6, <2>7 DEF AccountInv
<1> QED BY <1>1, <1>2

LEMMA BeginStep ==
  ASSUME AccountInv, Q!Begin
  PROVE  AccountInv'
<1>1. engagement' = engagement /\ roster' = roster /\ owns' = owns BY DEF Q!Begin
<1>2. CASE Q!End("guarded") BY <1>1, <1>2, AccountEnds
<1>3. CASE ~Q!End("guarded")
  <2>1. owns = FALSE /\ deletion' = [Q!Idle EXCEPT !.stage = "cancel", !.left = Q!Organized]
    <3>1. ~owns BY <1>3, ZenonT(20) DEF Q!Begin
    <3>2. deletion' = [Q!Idle EXCEPT !.stage = "cancel", !.left = Q!Organized] BY <3>1 DEF Q!Begin
    <3> QED BY <3>1, <3>2
  <2> DEFINE once == [Q!Idle EXCEPT !.stage = "cancel"]
  <2>2. deletion' = [once EXCEPT !.left = Q!Organized] BY <2>1
  <2>3. once = [stage |-> "cancel", left |-> {}, changed |-> {}, end |-> Null] BY DEF Q!Idle
  <2> HIDE DEF once
  <2>4. deletion' = [stage |-> "cancel", left |-> Q!Organized, changed |-> {}, end |-> Null]
    BY <2>2, <2>3
  <2>5. deletion'.stage = "cancel" /\ deletion'.left = Q!Organized BY <2>4
  <2>6. AccountShapes' BY <1>1, <2>4, <2>5 DEF AccountInv, AccountShapes
  <2>7. Q!Organized = Unfinished(engagement)
    BY DEF Q!Organized, Q!Made, Unfinished, Q!FinishedStatuses, Finals
  <2>8. Departing' BY <1>1, <2>1, <2>5, <2>7 DEF Departing, Unfinished
  <2> QED BY <2>6, <2>8 DEF AccountInv
<1> QED BY <1>2, <1>3

LEMMA CreateStep ==
  ASSUME AccountInv, Quiet, Null \notin Q!Kind, NEW e \in Event, Q!Create(e)
  PROVE  AccountInv'
<1>1. deletion.stage = "idle" BY Zenon DEF Q!Create, Q!Free, Q!Deleting
<1>2. PICK kind \in Q!Kind, mine \in BOOLEAN :
        engagement' = [engagement EXCEPT ![e] = [kind |-> kind, status |-> "join", was |-> Null,
                                                 mine |-> mine]]
  BY Zenon DEF Q!Create
<1>3. roster' = roster /\ deletion' = deletion BY DEF Q!Create
<1>4. /\ roster' = [o \in Event |-> roster'[o]]
      /\ engagement' = [o \in Event |-> engagement'[o]]
      /\ \A o \in Event : o # e => engagement'[o] = engagement[o]
      /\ engagement'[e] = [kind |-> kind, status |-> "join", was |-> Null, mine |-> mine]
  BY <1>2, <1>3 DEF AccountInv, AccountShapes
<1>5. /\ engagement'[e].kind = kind /\ engagement'[e].status = "join"
      /\ engagement'[e].was = Null /\ engagement'[e].mine = mine
  BY <1>4
<1>6. "join" \in Q!Status /\ "join" # "cancelled" BY DEF Q!Status
<1> QED BY <1>1, <1>3, <1>4, <1>5, <1>6, EventChanges

LEMMA MoveOnStep ==
  ASSUME AccountInv, Quiet, NEW e \in Event, NEW to \in Q!Status, Q!MoveOn(e, to)
  PROVE  AccountInv'
<1>1. deletion.stage = "idle" BY Zenon DEF Q!MoveOn, Q!Free, Q!Deleting
<1> DEFINE was == IF to = "cancelled" THEN engagement[e].status ELSE Null
<1>2. /\ engagement' = [engagement EXCEPT ![e].status = to, ![e].was = was]
      /\ roster' = roster /\ deletion' = deletion
  BY DEF Q!MoveOn
<1>3. to = "cancelled" => was \in Going
  <2>1. /\ engagement[e].kind \in Q!Kind /\ engagement[e].status \in Q!Status
        /\ Q!CanTransition(engagement[e].kind, engagement[e].status, to)
    BY DEF AccountInv, AccountShapes, Q!MoveOn, Q!Made
  <2> QED BY <2>1, CalledOff DEF Going, Finals
<1> HIDE DEF was
<1>4. /\ engagement' = [o \in Event |-> engagement'[o]]
      /\ \A o \in Event : o # e => engagement'[o] = engagement[o]
      /\ engagement'[e] = [kind |-> engagement[e].kind, status |-> to, was |-> was,
                           mine |-> engagement[e].mine]
  BY <1>2, StatusOf
<1>5. /\ engagement'[e].kind = engagement[e].kind /\ engagement'[e].status = to
      /\ engagement'[e].was = was /\ engagement'[e].mine = engagement[e].mine
  BY <1>4
<1>6. engagement[e].kind \in Q!Kind \cup {Null} /\ roster' = [o \in Event |-> roster'[o]]
  BY <1>2 DEF AccountInv, AccountShapes
<1>7. LET d == engagement'[e]
      IN  /\ d = [kind |-> d.kind, status |-> d.status, was |-> d.was, mine |-> d.mine]
          /\ d.kind \in Q!Kind \cup {Null} /\ d.status \in Q!Status
          /\ d.status = "cancelled" => d.was \in Going
  BY <1>3, <1>4, <1>5, <1>6
<1>8. /\ engagement' = [o \in Event |-> engagement'[o]]
      /\ \A o \in Event : o # e => engagement'[o] = engagement[o]
  BY <1>4
<1> QED BY <1>1, <1>2, <1>6, <1>7, <1>8, EventChanges

LEMMA RestoreStep ==
  ASSUME AccountInv, Quiet, NEW e \in Event, Q!Restore(e)
  PROVE  AccountInv'
<1>1. deletion.stage = "idle" BY Zenon DEF Q!Restore, Q!Free, Q!Deleting
<1> DEFINE to == engagement[e].was
<1>2. /\ engagement' = [engagement EXCEPT ![e].status = to, ![e].was = Null]
      /\ roster' = roster /\ deletion' = deletion /\ engagement[e].status = "cancelled"
  BY DEF Q!Restore
<1>3. to \in Going BY <1>2 DEF AccountInv, AccountShapes
<1> HIDE DEF to
<1>4. /\ engagement' = [o \in Event |-> engagement'[o]]
      /\ \A o \in Event : o # e => engagement'[o] = engagement[o]
      /\ engagement'[e] = [kind |-> engagement[e].kind, status |-> to, was |-> Null,
                           mine |-> engagement[e].mine]
  BY <1>2, StatusOf
<1>5. /\ engagement'[e].kind = engagement[e].kind /\ engagement'[e].status = to
      /\ engagement'[e].was = Null /\ engagement'[e].mine = engagement[e].mine
  BY <1>4
<1>6. engagement[e].kind \in Q!Kind \cup {Null} /\ roster' = [o \in Event |-> roster'[o]]
  BY <1>2 DEF AccountInv, AccountShapes
<1>7. to \in Q!Status /\ to # "cancelled" BY <1>3 DEF Going
<1> QED BY <1>1, <1>2, <1>4, <1>5, <1>6, <1>7, EventChanges

LEMMA AccountRests ==
  ASSUME AccountInv, Quiet, Q!OwnGroup \/ \E e \in Event : Q!Join(e)
  PROVE  AccountInv'
<1>1. deletion.stage = "idle" BY Zenon DEF Q!OwnGroup, Q!Join, Q!Usable, Q!Free, Q!Deleting
<1>2. deletion' = deletion /\ engagement' = engagement BY DEF Q!OwnGroup, Q!Join
<1>3. roster' = [o \in Event |-> roster'[o]]
  BY DEF Q!OwnGroup, Q!Join, AccountInv, AccountShapes
<1>4. AccountShapes' BY <1>2, <1>3 DEF AccountInv, AccountShapes
<1> QED BY <1>1, <1>2, <1>4 DEF AccountInv, Departing

LEMMA AccountNext ==
  ASSUME AccountInv, Quiet, Null \notin Q!Kind, Q!Next PROVE AccountInv'
<1>1. CASE Q!Begin BY <1>1, BeginStep
<1>2. CASE Q!FindRosters BY <1>2, FindRostersStep
<1>3. CASE Q!Flag \/ Q!Fail BY <1>3, AccountEnds DEF Q!Flag, Q!Fail
<1>4. CASE Q!OwnGroup BY <1>4, AccountRests
<1>5. ASSUME NEW e \in Event,
             \/ Q!Cancel(e) \/ Q!Leave(e) \/ Q!Create(e) \/ Q!Join(e) \/ Q!Restore(e)
             \/ \E to \in Q!Status : Q!MoveOn(e, to)
      PROVE  AccountInv'
  BY <1>5, CancelStep, LeaveStep, CreateStep, AccountRests, RestoreStep, MoveOnStep
<1> QED BY <1>1, <1>2, <1>3, <1>4, <1>5 DEF Q!Next

\* Two requests that would harm the history: to call off what is over, and to leave
\* a roster that has closed.
LEMMA AccountStep ==
  ASSUME AccountInv, Quiet, Null \notin Q!Kind, Q!Next PROVE Q!DeletionStep
<1>1. ASSUME account' # account PROVE Q!Flag
  BY <1>1 DEF Q!Next, Q!Begin, Q!Cancel, Q!Leave, Q!FindRosters, Q!Fail, Q!OwnGroup, Q!Create,
              Q!Join, Q!MoveOn, Q!Restore, Q!Refused
<1>2. Q!DepartsClean
  <2> SUFFICES ASSUME Q!Flag
               PROVE  /\ ~owns
                      /\ \A e \in Q!Made :
                           /\ engagement[e].mine => engagement[e].status \in Q!FinishedStatuses
                           /\ engagement[e].status = "join" => roster[e] # "joined"
    BY <1>1 DEF Q!DepartsClean
  <2>1. owns = FALSE /\ Unfinished(engagement) = {} /\ OpenOn(engagement, roster) = {}
    BY DEF Q!Flag, AccountInv, Departing
  <2> QED BY <2>1 DEF Unfinished, OpenOn, Q!Made, Q!FinishedStatuses, Finals
<1>3. Q!HistoryKept
  <2> SUFFICES ASSUME Q!Deleting, NEW e \in Q!Made
               PROVE  /\ engagement[e].status \in Q!FinishedStatuses => engagement'[e] = engagement[e]
                      /\ engagement'[e] # engagement[e] => engagement[e].mine
                      /\ roster'[e] # roster[e] => engagement[e].status = "join"
    BY DEF Q!HistoryKept
  <2>0. e \in Event BY DEF Q!Made
  <2>1. ASSUME NEW o \in Event, Q!Cancel(o), ~Q!Refused
        PROVE  /\ engagement[e].status \in Q!FinishedStatuses => engagement'[e] = engagement[e]
               /\ engagement'[e] # engagement[e] => engagement[e].mine
               /\ roster'[e] = roster[e]
    <3>1. /\ o \in deletion.left /\ deletion.stage = "cancel" /\ roster' = roster
          /\ Q!CanTransition(engagement[o].kind, engagement[o].status, "cancelled")
          /\ engagement' = [engagement EXCEPT ![o].status = "cancelled",
                                              ![o].was = engagement[o].status]
      BY <2>1 DEF Q!Cancel
    <3>2. \A x \in Event : x # o => engagement'[x] = engagement[x] BY <3>1, StatusOf
    <3>3. engagement[o].mine /\ engagement[o].kind \in Q!Kind /\ engagement[o].status \in Q!Status
      BY <3>1 DEF AccountInv, Departing, AccountShapes
    <3>4. engagement[o].status \notin Finals BY <3>1, <3>3, CalledOff
    <3> QED BY <2>0, <3>1, <3>2, <3>3, <3>4 DEF Finals, Q!FinishedStatuses
  <2>2. ASSUME NEW o \in Event, Q!Leave(o), ~Q!Refused
        PROVE  /\ engagement'[e] = engagement[e]
               /\ roster'[e] # roster[e] => engagement[e].status = "join"
    <3>1. /\ engagement' = engagement /\ Q!CanLeave(engagement[o].status)
          /\ roster' = [roster EXCEPT ![o] = "cancelled"]
      BY <2>2 DEF Q!Leave
    <3> QED BY <2>0, <3>1 DEF AccountInv, AccountShapes, Q!CanLeave
  <2>3. CASE engagement' = engagement /\ roster' = roster BY <2>3
  <2> QED
    BY <2>1, <2>2, <2>3, Zenon
    DEF Q!Next, Q!Begin, Q!Cancel, Q!Leave, Q!FindRosters, Q!Flag, Q!Fail, Q!OwnGroup, Q!Create,
        Q!Join, Q!MoveOn, Q!Restore, Q!Refused, Q!Usable, Q!Free
<1> QED BY <1>2, <1>3 DEF Q!DeletionStep

\* An account is flagged only when it owns no group, what it organizes is finished
\* and it is on no open roster; and on the way nothing that is over, or somebody
\* else's, is touched: at whichever attempt, whatever failed before
\* (users.service.ts, deleteAccount).
THEOREM AccountDeparts ==
  ASSUME Quiet, Null \notin Q!Kind
  PROVE  Q!Spec => [][Q!DeletionStep]_(Q!vars)
<1>1. Q!Init => AccountInv BY AccountInit
<1>2. AccountInv /\ [Q!Next]_(Q!vars) => AccountInv'
  <2>1. ASSUME AccountInv, Q!Next PROVE AccountInv' BY <2>1, AccountNext
  <2>2. ASSUME AccountInv, UNCHANGED Q!vars PROVE AccountInv'
    BY <2>2 DEF Q!vars, AccountInv, AccountShapes, Departing, Unfinished, OpenOn
  <2> QED BY <2>1, <2>2
<1>3. AccountInv /\ [Q!Next]_(Q!vars) => [Q!DeletionStep]_(Q!vars)
  BY AccountStep
<1> QED BY <1>1, <1>2, <1>3, PTL DEF Q!Spec

-----------------------------------------------------------------------------
(* Friendship *)

\* A row whose status alone changes (with the flag after it), between live statuses
\* or to one that is not.
LEMMA StatusChange ==
  ASSUME FriendshipInv, NEW r \in FriendshipRow, NEW st, NEW act \in BOOLEAN,
         friendship' = [friendship EXCEPT ![r] =
           [from |-> friendship[r].from, to |-> friendship[r].to,
            status |-> st, active |-> act]],
         act <=> st \in LiveStatus, act => friendship[r].status \in LiveStatus
  PROVE  /\ FriendshipRows' /\ OneLiveEach'
         /\ \A q \in FriendshipRow :
              /\ friendship'[q].from = friendship[q].from /\ friendship'[q].to = friendship[q].to
              /\ friendship'[q].status \in LiveStatus =>
                   friendship[q].status \in LiveStatus /\ (q = r => st \in LiveStatus)
<1>1. \A q \in FriendshipRow :
        friendship'[q] = IF q = r THEN [from |-> friendship[r].from, to |-> friendship[r].to,
                                        status |-> st, active |-> act]
                         ELSE friendship[q]
  BY DEF FriendshipInv, FriendshipRows
<1>2. friendship' = [q \in FriendshipRow |-> friendship'[q]]
  BY DEF FriendshipInv, FriendshipRows
<1>3. FriendshipRows' BY <1>1, <1>2 DEF FriendshipInv, FriendshipRows
<1>4. ASSUME NEW q \in FriendshipRow
      PROVE  /\ friendship'[q].from = friendship[q].from /\ friendship'[q].to = friendship[q].to
             /\ friendship'[q].status \in LiveStatus =>
                  friendship[q].status \in LiveStatus /\ (q = r => st \in LiveStatus)
  <2>1. CASE q = r
    <3> DEFINE now == [from |-> friendship[r].from, to |-> friendship[r].to,
                       status |-> st, active |-> act]
    <3>1. now.from = friendship[r].from /\ now.to = friendship[r].to /\ now.status = st OBVIOUS
    <3>2. friendship'[r] = now BY <1>1
    <3> HIDE DEF now
    <3>3. st \in LiveStatus => friendship[r].status \in LiveStatus OBVIOUS
    <3> QED BY <2>1, <3>1, <3>2, <3>3
  <2>2. CASE q # r BY <1>1, <2>2
  <2> QED BY <2>1, <2>2
<1>5. OneLiveEach' BY <1>4 DEF FriendshipInv, OneLiveEach
<1> QED BY <1>3, <1>4, <1>5

\* How the handlers write it.
LEMMA Edited ==
  ASSUME FriendshipRows, NEW r \in FriendshipRow, NEW st, NEW act \in BOOLEAN,
         friendship' = [friendship EXCEPT ![r].status = st, ![r].active = act]
  PROVE  friendship' = [friendship EXCEPT ![r] =
           [from |-> friendship[r].from, to |-> friendship[r].to,
            status |-> st, active |-> act]]
<1>1. friendship[r] = [from |-> friendship[r].from, to |-> friendship[r].to,
                       status |-> friendship[r].status, active |-> friendship[r].active]
  BY DEF FriendshipRows
<1>2. friendship'[r] = [[friendship[r] EXCEPT !.status = st] EXCEPT !.active = act]
  BY DEF FriendshipRows
<1>3. friendship'[r] = [from |-> friendship[r].from, to |-> friendship[r].to,
                        status |-> st, active |-> act]
  BY <1>1, <1>2
<1> QED BY <1>3 DEF FriendshipRows

\* Nothing stands in the way of a request in flight that did not before.
LEMMA FreshStays ==
  ASSUME FreshSends, cooling' = cooling,
         \A s \in Slot : sending'[s] \in {sending[s], F!Idle},
         \A q \in FriendshipRow : friendship'[q].status \in LiveStatus =>
           /\ friendship[q].status \in LiveStatus
           /\ friendship'[q].from = friendship[q].from /\ friendship'[q].to = friendship[q].to
  PROVE  FreshSends'
<1> SUFFICES ASSUME NEW x \in Slot, sending'[x] # F!Idle
             PROVE  /\ \A t \in Slot : sending'[t] # F!Idle
                         /\ sending'[t].from = sending'[x].from => t = x
                    /\ sending'[x].op = "create" =>
                         /\ <<sending'[x].from, sending'[x].to>> \notin cooling
                         /\ \A q \in FriendshipRow : friendship'[q].status \in LiveStatus =>
                              \/ friendship'[q].from # sending'[x].from
                              \/ friendship'[q].to # sending'[x].to
  BY DEF FreshSends
<1>1. sending'[x] = sending[x] /\ sending[x] # F!Idle OBVIOUS
<1>2. \A t \in Slot : sending'[t] # F!Idle => sending'[t] = sending[t] OBVIOUS
<1> QED BY <1>1, <1>2 DEF FreshSends

\* The same, when neither cooldowns nor requests in flight gain anything.
LEMMA StatusKeeps ==
  ASSUME FriendshipInv, NEW r \in FriendshipRow, NEW st, NEW act \in BOOLEAN,
         friendship' = [friendship EXCEPT ![r] =
           [from |-> friendship[r].from, to |-> friendship[r].to,
            status |-> st, active |-> act]],
         act <=> st \in LiveStatus, act => friendship[r].status \in LiveStatus,
         cooling' = cooling,
         sending' = sending \/ \E s \in Slot : sending' = [sending EXCEPT ![s] = F!Idle]
  PROVE  FriendshipInv'
<1>1. /\ FriendshipRows' /\ OneLiveEach'
      /\ \A q \in FriendshipRow :
           /\ friendship'[q].from = friendship[q].from /\ friendship'[q].to = friendship[q].to
           /\ friendship'[q].status \in LiveStatus => friendship[q].status \in LiveStatus
  BY StatusChange
<1>2. /\ Sendings'
      /\ \A s \in Slot : sending'[s] \in {sending[s], F!Idle}
  BY DEF FriendshipInv, Sendings
<1>3. ASSUME OneAtATime PROVE FreshSends'
  BY <1>1, <1>2, <1>3, FreshStays DEF FriendshipInv
<1>4. ASSUME OneAtATime PROVE LiveAreWarm' BY <1>1, <1>4 DEF FriendshipInv, LiveAreWarm
<1> QED BY <1>1, <1>2, <1>3, <1>4 DEF FriendshipInv

LEMMA SendKeeps ==
  ASSUME FriendshipInv, NEW s \in Slot, NEW u \in User, NEW v \in User, F!Send(s, u, v)
  PROVE  FriendshipInv'
<1>1. /\ friendship' = friendship /\ cooling' = cooling
      /\ sending[s] = F!Idle
      /\ OneAtATime => \A t \in Slot : sending[t] # F!Idle => sending[t].from # u
  BY DEF F!Send
<1>2. \E r : /\ sending' = [sending EXCEPT ![s] = r] /\ r.from = u /\ r.to = v
             /\ r.op = "create" => F!Live(u, v) = {} /\ <<u, v>> \notin cooling
  <2>1. CASE F!SendNew(s, u, v)
    <3> DEFINE q == [op |-> "create", from |-> u, to |-> v]
    <3>1. sending' = [sending EXCEPT ![s] = q] /\ F!Live(u, v) = {} /\ <<u, v>> \notin cooling
      BY <2>1 DEF F!SendNew, F!Hold, F!Cooling
    <3>2. q.from = u /\ q.to = v OBVIOUS
    <3> QED BY <3>1, <3>2
  <2>2. CASE F!SendBack(s, u, v)
    <3>1. PICK id : sending' = [sending EXCEPT ![s] =
                                  [op |-> "accept", from |-> u, to |-> v, id |-> id]]
      BY <2>2 DEF F!SendBack, F!Hold
    <3> DEFINE q == [op |-> "accept", from |-> u, to |-> v, id |-> id]
    <3>2. q.from = u /\ q.to = v /\ q.op = "accept" OBVIOUS
    <3> QED BY <3>1, <3>2
  <2> QED BY <2>1, <2>2 DEF F!Send
<1>3. PICK r : /\ sending' = [sending EXCEPT ![s] = r] /\ r.from = u /\ r.to = v
               /\ r.op = "create" => F!Live(u, v) = {} /\ <<u, v>> \notin cooling
  BY <1>2
<1>4. /\ Sendings' /\ \A t \in Slot : sending'[t] = IF t = s THEN r ELSE sending[t]
  BY <1>3 DEF FriendshipInv, Sendings
<1>5. F!Live(u, v) = {} => \A q \in FriendshipRow :
        friendship[q].status \in LiveStatus => friendship[q].from # u \/ friendship[q].to # v
  BY DEF FriendshipInv, FriendshipRows, F!Live, F!Between
<1>6. ASSUME OneAtATime PROVE FreshSends'
  <2> SUFFICES ASSUME NEW x \in Slot, sending'[x] # F!Idle
               PROVE  /\ \A t \in Slot : sending'[t] # F!Idle
                           /\ sending'[t].from = sending'[x].from => t = x
                      /\ sending'[x].op = "create" =>
                           /\ <<sending'[x].from, sending'[x].to>> \notin cooling
                           /\ \A q \in FriendshipRow : friendship[q].status \in LiveStatus =>
                                \/ friendship[q].from # sending'[x].from
                                \/ friendship[q].to # sending'[x].to
    BY <1>1 DEF FreshSends
  <2>1. CASE x = s BY <1>1, <1>3, <1>4, <1>5, <1>6, <2>1
  <2>2. CASE x # s BY <1>1, <1>3, <1>4, <1>6, <2>2 DEF FriendshipInv, FreshSends
  <2> QED BY <2>1, <2>2
<1>7. FriendshipRows' /\ OneLiveEach' BY <1>1 DEF FriendshipInv, FriendshipRows, OneLiveEach
<1>8. OneAtATime => LiveAreWarm' BY <1>1 DEF FriendshipInv, LiveAreWarm
<1> QED BY <1>4, <1>6, <1>7, <1>8 DEF FriendshipInv

\* The row is created, unless the index refuses it.
LEMMA CreateKeeps ==
  ASSUME FriendshipInv, NEW s \in Slot, F!CreateRow(s)
  PROVE  FriendshipInv'
<1> DEFINE u == sending[s].from
           v == sending[s].to
           new == [from |-> u, to |-> v, status |-> "PENDING", active |-> TRUE]
<1>1. /\ sending[s].op = "create" /\ sending' = [sending EXCEPT ![s] = F!Idle]
      /\ cooling' = cooling
  BY DEF F!CreateRow, F!Hold
<1>2. /\ Sendings' /\ \A t \in Slot : sending'[t] = IF t = s THEN F!Idle ELSE sending[t]
  BY <1>1 DEF FriendshipInv, Sendings
<1>3. CASE friendship' = friendship
  <2>1. FriendshipRows' /\ OneLiveEach' BY <1>3 DEF FriendshipInv, FriendshipRows, OneLiveEach
  <2>2. ASSUME OneAtATime PROVE FreshSends'
    <3>1. \A t \in Slot : sending'[t] \in {sending[t], F!Idle} BY <1>2
    <3> QED BY <1>1, <1>3, <2>2, <3>1, FreshStays DEF FriendshipInv
  <2>3. OneAtATime => LiveAreWarm' BY <1>1, <1>3 DEF FriendshipInv, LiveAreWarm
  <2> QED BY <1>2, <2>1, <2>2, <2>3 DEF FriendshipInv
<1>4. CASE F!Live(u, v) = {} /\ \E r \in FriendshipRow :
             friendship[r].status = "none" /\ friendship' = [friendship EXCEPT ![r] = new]
  <2>1. PICK r \in FriendshipRow :
          friendship[r].status = "none" /\ friendship' = [friendship EXCEPT ![r] = new]
    BY <1>4
  <2>2. /\ \A q \in FriendshipRow : friendship'[q] = IF q = r THEN new ELSE friendship[q]
        /\ friendship' = [q \in FriendshipRow |-> friendship'[q]]
    BY <2>1 DEF FriendshipInv, FriendshipRows
  <2>n. /\ new = [from |-> new.from, to |-> new.to, status |-> new.status, active |-> new.active]
        /\ new.from = u /\ new.to = v /\ new.active = TRUE /\ new.status \in LiveStatus
    BY DEF LiveStatus
  <2> HIDE DEF new, u, v
  <2>3. FriendshipRows'
    <3> SUFFICES ASSUME NEW q \in FriendshipRow
                 PROVE  /\ friendship'[q] = [from |-> friendship'[q].from, to |-> friendship'[q].to,
                                             status |-> friendship'[q].status,
                                             active |-> friendship'[q].active]
                        /\ friendship'[q].active \in BOOLEAN
                        /\ friendship'[q].active <=> friendship'[q].status \in LiveStatus
      BY <2>2 DEF FriendshipRows
    <3>1. CASE q = r BY <2>2, <2>n, <3>1
    <3>2. CASE q # r BY <2>2, <3>2 DEF FriendshipInv, FriendshipRows
    <3> QED BY <3>1, <3>2
  <2>4. \A q \in FriendshipRow :
          friendship[q].status \in LiveStatus => {friendship[q].from, friendship[q].to} # {u, v}
    BY <1>4 DEF FriendshipInv, FriendshipRows, F!Live, F!Between
  <2>5. OneLiveEach'
    <3> SUFFICES ASSUME NEW q \in FriendshipRow, NEW w \in FriendshipRow,
                        friendship'[q].status \in LiveStatus, friendship'[w].status \in LiveStatus,
                        {friendship'[q].from, friendship'[q].to}
                          = {friendship'[w].from, friendship'[w].to}
                 PROVE  q = w
      BY DEF OneLiveEach
    <3>1. CASE q = r BY <2>2, <2>4, <2>n, <3>1
    <3>2. CASE w = r BY <2>2, <2>4, <2>n, <3>2
    <3>3. CASE q # r /\ w # r BY <2>2, <3>3 DEF FriendshipInv, OneLiveEach
    <3> QED BY <3>1, <3>2, <3>3
  <2>6. ASSUME OneAtATime PROVE FreshSends' /\ LiveAreWarm'
    <3>0. sending[s] # F!Idle BY <1>1 DEF F!Idle
    <3>1. /\ <<u, v>> \notin cooling
          /\ \A t \in Slot : sending[t] # F!Idle /\ sending[t].from = u => t = s
      BY <1>1, <2>6, <3>0 DEF FriendshipInv, FreshSends, u, v
    <3>2. LiveAreWarm' BY <1>1, <2>2, <2>n, <2>6, <3>1 DEF FriendshipInv, LiveAreWarm
    <3>3. FreshSends'
      <4> SUFFICES ASSUME NEW x \in Slot, sending'[x] # F!Idle
                   PROVE  /\ \A t \in Slot : sending'[t] # F!Idle
                               /\ sending'[t].from = sending'[x].from => t = x
                          /\ sending'[x].op = "create" =>
                               /\ <<sending'[x].from, sending'[x].to>> \notin cooling
                               /\ \A q \in FriendshipRow : friendship'[q].status \in LiveStatus =>
                                    \/ friendship'[q].from # sending'[x].from
                                    \/ friendship'[q].to # sending'[x].to
        BY <1>1 DEF FreshSends
      <4>1. x # s /\ sending'[x] = sending[x] /\ sending[x].from # u BY <1>2, <3>1
      <4>2. \A t \in Slot : sending'[t] # F!Idle => sending'[t] = sending[t] BY <1>2
      <4>3. \A q \in FriendshipRow : q # r => friendship'[q] = friendship[q] BY <2>2
      <4>4. friendship'[r].from = u BY <2>2, <2>n
      <4> QED BY <2>6, <4>1, <4>2, <4>3, <4>4 DEF FriendshipInv, FreshSends
    <3> QED BY <3>2, <3>3
  <2> QED BY <1>2, <2>3, <2>5, <2>6 DEF FriendshipInv
<1> QED BY <1>3, <1>4 DEF F!CreateRow, F!Rows

\* Rejecting starts the cooldown of the row that goes.
LEMMA RejectionKeeps ==
  ASSUME FriendshipInv, NEW r \in FriendshipRow, F!RespondToRequest(r, "REJECTED")
  PROVE  FriendshipInv'
<1>0. friendship' = [friendship EXCEPT ![r].status = "REJECTED",
                                       ![r].active = ("REJECTED" = "ACCEPTED")]
  BY DEF F!RespondToRequest
<1>1. /\ friendship[r].status = "PENDING" /\ sending' = sending
      /\ friendship' = [friendship EXCEPT ![r] =
           [from |-> friendship[r].from, to |-> friendship[r].to,
            status |-> "REJECTED", active |-> FALSE]]
      /\ cooling' = cooling \cup {<<friendship[r].from, friendship[r].to>>}
  <2>1. friendship' = [friendship EXCEPT ![r].status = "REJECTED", ![r].active = FALSE]
    BY <1>0
  <2>2. friendship[r].status = "PENDING" /\ sending' = sending BY DEF F!RespondToRequest, F!Answerable
  <2>3. cooling' = cooling \cup {<<friendship[r].from, friendship[r].to>>}
    BY DEF F!RespondToRequest
  <2> QED BY <2>1, <2>2, <2>3, Edited DEF FriendshipInv
<1>2. ("REJECTED" \in LiveStatus) = FALSE /\ friendship[r].status \in LiveStatus
  BY <1>1 DEF LiveStatus
<1>3. /\ FriendshipRows' /\ OneLiveEach'
      /\ \A q \in FriendshipRow :
           /\ friendship'[q].from = friendship[q].from /\ friendship'[q].to = friendship[q].to
           /\ friendship'[q].status \in LiveStatus => friendship[q].status \in LiveStatus /\ q # r
  BY <1>1, <1>2, StatusChange
<1>4. Sendings' BY <1>1 DEF FriendshipInv, Sendings
<1> DEFINE u == friendship[r].from
           v == friendship[r].to
<1>5. ASSUME OneAtATime PROVE LiveAreWarm'
  <2> SUFFICES ASSUME NEW q \in FriendshipRow, friendship'[q].status \in LiveStatus
               PROVE  <<friendship'[q].from, friendship'[q].to>> \notin cooling'
    BY DEF LiveAreWarm
  <2>1. /\ friendship[q].status \in LiveStatus /\ q # r
        /\ friendship'[q].from = friendship[q].from /\ friendship'[q].to = friendship[q].to
    BY <1>3
  <2>2. <<friendship[q].from, friendship[q].to>> \notin cooling
    BY <1>5, <2>1 DEF FriendshipInv, LiveAreWarm
  <2>3. friendship[q].from # u \/ friendship[q].to # v
    BY <1>2, <2>1 DEF FriendshipInv, OneLiveEach
  <2> QED BY <1>1, <2>1, <2>2, <2>3
<1>6. ASSUME OneAtATime PROVE FreshSends'
  <2> SUFFICES ASSUME NEW x \in Slot, sending[x] # F!Idle
               PROVE  /\ \A t \in Slot : sending[t] # F!Idle
                           /\ sending[t].from = sending[x].from => t = x
                      /\ sending[x].op = "create" =>
                           /\ <<sending[x].from, sending[x].to>> \notin cooling'
                           /\ \A q \in FriendshipRow : friendship'[q].status \in LiveStatus =>
                                \/ friendship'[q].from # sending[x].from
                                \/ friendship'[q].to # sending[x].to
    BY <1>1 DEF FreshSends
  <2>1. /\ \A t \in Slot : sending[t] # F!Idle /\ sending[t].from = sending[x].from => t = x
        /\ sending[x].op = "create" =>
             /\ <<sending[x].from, sending[x].to>> \notin cooling
             /\ u # sending[x].from \/ v # sending[x].to
             /\ \A q \in FriendshipRow : friendship[q].status \in LiveStatus =>
                  friendship[q].from # sending[x].from \/ friendship[q].to # sending[x].to
    BY <1>2, <1>6 DEF FriendshipInv, FreshSends
  <2>2. sending[x].op = "create" => <<sending[x].from, sending[x].to>> \notin cooling'
    BY <1>1, <2>1
  <2> QED BY <1>3, <2>1, <2>2
<1> QED BY <1>3, <1>4, <1>5, <1>6 DEF FriendshipInv

LEMMA FriendshipNext == ASSUME FriendshipInv, [F!Next]_F!vars PROVE FriendshipInv'
<1>1. ASSUME NEW s \in Slot, F!AcceptBack(s) PROVE FriendshipInv'
  <2> DEFINE r == sending[s].id
  <2>1. /\ sending' = [sending EXCEPT ![s] = F!Idle] /\ cooling' = cooling
        /\ friendship' = IF friendship[r].status = "PENDING"
                         THEN [friendship EXCEPT ![r].status = "ACCEPTED"] ELSE friendship
    BY <1>1 DEF F!AcceptBack, F!Hold
  <2>2. CASE friendship' = friendship
    <3>1. /\ Sendings' /\ \A t \in Slot : sending'[t] \in {F!Idle, sending[t]}
      BY <2>1 DEF FriendshipInv, Sendings
    <3>2. FriendshipRows' /\ OneLiveEach' BY <2>2 DEF FriendshipInv, FriendshipRows, OneLiveEach
    <3>3. ASSUME OneAtATime PROVE FreshSends'
      BY <2>1, <2>2, <3>1, <3>3, FreshStays DEF FriendshipInv
    <3>4. OneAtATime => LiveAreWarm' BY <2>1, <2>2 DEF FriendshipInv, LiveAreWarm
    <3> QED BY <3>1, <3>2, <3>3, <3>4 DEF FriendshipInv
  <2>3. CASE friendship' # friendship
    <3>1. friendship' = [friendship EXCEPT ![r].status = "ACCEPTED"]
          /\ friendship[r].status = "PENDING"
      BY <2>1, <2>3
    <3>2. r \in FriendshipRow BY <2>3, <3>1 DEF FriendshipInv, FriendshipRows
    <3>3. friendship[r] = [from |-> friendship[r].from, to |-> friendship[r].to,
                           status |-> friendship[r].status, active |-> friendship[r].active]
      BY <3>2 DEF FriendshipInv, FriendshipRows
    <3>a. friendship'[r] = [friendship[r] EXCEPT !.status = "ACCEPTED"]
      BY <3>1, <3>2 DEF FriendshipInv, FriendshipRows
    <3>b. friendship'[r] = [from |-> friendship[r].from, to |-> friendship[r].to,
                            status |-> "ACCEPTED", active |-> friendship[r].active]
      BY <3>3, <3>a
    <3>4. friendship' = [friendship EXCEPT ![r] =
            [from |-> friendship[r].from, to |-> friendship[r].to,
             status |-> "ACCEPTED", active |-> friendship[r].active]]
      BY <3>1, <3>b DEF FriendshipInv, FriendshipRows
    <3>5. /\ "ACCEPTED" \in LiveStatus /\ friendship[r].status \in LiveStatus
          /\ friendship[r].active \in BOOLEAN
          /\ friendship[r].active <=> friendship[r].status \in LiveStatus
      BY <3>1, <3>2 DEF FriendshipInv, FriendshipRows, LiveStatus
    <3> QED BY <2>1, <3>2, <3>4, <3>5, StatusKeeps
  <2> QED BY <2>2, <2>3
<1>2. ASSUME NEW r \in FriendshipRow, F!CancelRequest(r) PROVE FriendshipInv'
  <2>0. /\ friendship' = [friendship EXCEPT ![r].status = "CANCELLED", ![r].active = FALSE]
        /\ cooling' = cooling /\ sending' = sending
    BY <1>2 DEF F!CancelRequest, F!Withdraw
  <2>1. friendship' = [friendship EXCEPT ![r] =
          [from |-> friendship[r].from, to |-> friendship[r].to,
           status |-> "CANCELLED", active |-> FALSE]]
    BY <2>0, Edited DEF FriendshipInv
  <2>2. FALSE \in BOOLEAN /\ "CANCELLED" \notin LiveStatus BY DEF LiveStatus
  <2> QED BY <2>0, <2>1, <2>2, StatusKeeps
<1>3. ASSUME NEW r \in FriendshipRow, F!RespondToRequest(r, "ACCEPTED") PROVE FriendshipInv'
  <2>0. friendship' = [friendship EXCEPT ![r].status = "ACCEPTED",
                                         ![r].active = ("ACCEPTED" = "ACCEPTED")]
    BY <1>3 DEF F!RespondToRequest
  <2>1. friendship' = [friendship EXCEPT ![r] =
          [from |-> friendship[r].from, to |-> friendship[r].to,
           status |-> "ACCEPTED", active |-> TRUE]]
    <3>1. friendship' = [friendship EXCEPT ![r].status = "ACCEPTED", ![r].active = TRUE] BY <2>0
    <3> QED BY <3>1, Edited DEF FriendshipInv
  <2>2. /\ cooling' = cooling /\ sending' = sending /\ friendship[r].status \in LiveStatus
    BY <1>3 DEF F!RespondToRequest, F!Answerable, LiveStatus
  <2>3. TRUE \in BOOLEAN /\ "ACCEPTED" \in LiveStatus BY DEF LiveStatus
  <2> QED BY <2>1, <2>2, <2>3, StatusKeeps
<1>4. ASSUME NEW r \in FriendshipRow, F!Unfriend(r) PROVE FriendshipInv'
  <2> DEFINE gone == [from |-> Null, to |-> Null, status |-> "deleted", active |-> FALSE]
  <2>1. /\ friendship' = [friendship EXCEPT ![r] = gone]
        /\ cooling' = cooling /\ sending' = sending
    <3>1. /\ friendship' = [friendship EXCEPT ![r] = [F!NoRow EXCEPT !.status = "deleted"]]
          /\ cooling' = cooling /\ sending' = sending
      BY <1>4 DEF F!Unfriend
    <3>2. friendship'[r] = [F!NoRow EXCEPT !.status = "deleted"]
      BY <3>1 DEF FriendshipInv, FriendshipRows
    <3>3. friendship'[r] = gone BY <3>2 DEF F!NoRow
    <3> QED BY <3>1, <3>3 DEF FriendshipInv, FriendshipRows
  <2>2. /\ friendship' = [q \in FriendshipRow |-> friendship'[q]]
        /\ \A q \in FriendshipRow : friendship'[q] = IF q = r THEN gone ELSE friendship[q]
    BY <2>1 DEF FriendshipInv, FriendshipRows
  <2>n. /\ gone = [from |-> gone.from, to |-> gone.to, status |-> gone.status,
                     active |-> gone.active]
        /\ gone.active = FALSE /\ gone.status \notin LiveStatus
    BY DEF LiveStatus
  <2> HIDE DEF gone
  <2>3. FriendshipRows'
    <3> SUFFICES ASSUME NEW q \in FriendshipRow
                 PROVE  /\ friendship'[q] = [from |-> friendship'[q].from, to |-> friendship'[q].to,
                                             status |-> friendship'[q].status,
                                             active |-> friendship'[q].active]
                        /\ friendship'[q].active \in BOOLEAN
                        /\ friendship'[q].active <=> friendship'[q].status \in LiveStatus
      BY <2>2 DEF FriendshipRows
    <3>1. CASE q = r BY <2>2, <2>n, <3>1
    <3>2. CASE q # r BY <2>2, <3>2 DEF FriendshipInv, FriendshipRows
    <3> QED BY <3>1, <3>2
  <2>4. \A q \in FriendshipRow : friendship'[q].status \in LiveStatus =>
          friendship'[q] = friendship[q]
    BY <2>2, <2>n
  <2>5. OneLiveEach' BY <2>4 DEF FriendshipInv, OneLiveEach
  <2>6. Sendings' BY <2>1 DEF FriendshipInv, Sendings
  <2>7. OneAtATime => FreshSends' /\ LiveAreWarm'
    BY <2>1, <2>4 DEF FriendshipInv, FreshSends, LiveAreWarm
  <2> QED BY <2>3, <2>5, <2>6, <2>7 DEF FriendshipInv
<1>5. ASSUME NEW u \in User, NEW v \in User, F!CooldownPasses(u, v) PROVE FriendshipInv'
  <2>1. /\ friendship' = friendship /\ sending' = sending
        /\ \A pair : pair \notin cooling => pair \notin cooling'
    BY <1>5 DEF F!CooldownPasses
  <2>2. FriendshipRows' /\ OneLiveEach' /\ Sendings'
    BY <2>1 DEF FriendshipInv, FriendshipRows, OneLiveEach, Sendings
  <2>3. OneAtATime => FreshSends' /\ LiveAreWarm'
    BY <2>1 DEF FriendshipInv, FreshSends, LiveAreWarm
  <2> QED BY <2>2, <2>3 DEF FriendshipInv
<1>6. CASE UNCHANGED F!vars
  BY <1>6 DEF F!vars, FriendshipInv, FriendshipRows, OneLiveEach, Sendings, FreshSends, LiveAreWarm
<1> QED BY <1>1, <1>2, <1>3, <1>4, <1>5, <1>6, SendKeeps, CreateKeeps, RejectionKeeps DEF F!Next

LEMMA FriendshipInit == F!Init => FriendshipInv
<1> SUFFICES ASSUME F!Init PROVE FriendshipInv OBVIOUS
<1> DEFINE none == [from |-> Null, to |-> Null, status |-> "none", active |-> FALSE]
<1>1. /\ friendship = [r \in FriendshipRow |-> none]
      /\ sending = [s \in Slot |-> F!Idle]
  BY DEF F!Init, F!NoRow
<1>2. /\ none = [from |-> none.from, to |-> none.to, status |-> none.status,
                 active |-> none.active]
      /\ none.active = FALSE /\ none.status \notin LiveStatus
  BY DEF LiveStatus
<1> HIDE DEF none
<1>3. FriendshipRows BY <1>1, <1>2 DEF FriendshipRows
<1>4. OneLiveEach BY <1>1, <1>2 DEF OneLiveEach
<1>5. Sendings BY <1>1 DEF Sendings
<1>6. FreshSends BY <1>1 DEF FreshSends
<1>7. LiveAreWarm BY <1>1, <1>2 DEF LiveAreWarm
<1> QED BY <1>3, <1>4, <1>5, <1>6, <1>7 DEF FriendshipInv

\* Two people have one live row at most, a request or a friendship, whichever of
\* their requests cross (friendship.schema.ts: "One live request-or-friendship per
\* pair"); and nobody has a request open, or is a friend, to whom the cooldown after
\* a rejection still keeps them from, if they send one request at a time.
THEOREM FriendshipStaysSound == F!Spec => []F!FriendshipSound
<1>1. FriendshipInv => F!FriendshipSound
  <2> SUFFICES ASSUME FriendshipInv PROVE F!FriendshipSound OBVIOUS
  <2>1. F!OneLivePerPair
    BY DEF FriendshipInv, FriendshipRows, OneLiveEach, LiveStatus, F!OneLivePerPair, F!Rows
  <2>2. F!RejectionHolds
    BY DEF FriendshipInv, LiveAreWarm, LiveStatus, F!RejectionHolds, F!Rows
  <2> QED BY <2>1, <2>2 DEF F!FriendshipSound
<1> QED BY <1>1, FriendshipInit, FriendshipNext, PTL DEF F!Spec

\* A friend request is answered once: accepted, rejected or withdrawn stays so, though
\* a friendship may end (respondToRequest, cancelRequest, sendRequest of the other
\* side).
THEOREM FriendsAnsweredForGood == F!Spec => [][F!AnsweredForGood]_F!vars
<1>1. ASSUME FriendshipInv, F!Next PROVE F!AnsweredForGood
  <2> USE DEF F!AnsweredForGood, F!Rows
  <2>0. FriendshipRows BY <1>1 DEF FriendshipInv
  <2>1. ASSUME NEW s \in Slot, F!CreateRow(s) PROVE F!AnsweredForGood
    BY <2>0, <2>1 DEF FriendshipRows, F!CreateRow
  <2>2. ASSUME NEW s \in Slot, F!AcceptBack(s) PROVE F!AnsweredForGood
    BY <2>0, <2>2 DEF FriendshipRows, F!AcceptBack
  <2>3. ASSUME NEW s \in Slot, NEW u \in User, NEW v \in User, F!Send(s, u, v)
        PROVE  F!AnsweredForGood
    BY <2>3 DEF F!Send
  <2>4. ASSUME NEW r \in FriendshipRow, F!CancelRequest(r) PROVE F!AnsweredForGood
    BY <2>0, <2>4 DEF FriendshipRows, F!CancelRequest, F!Withdraw, F!Answerable
  <2>5. ASSUME NEW r \in FriendshipRow, F!Unfriend(r) PROVE F!AnsweredForGood
    BY <2>0, <2>5 DEF FriendshipRows, F!Unfriend, F!NoRow
  <2>6. ASSUME NEW r \in FriendshipRow, NEW answer, F!RespondToRequest(r, answer)
        PROVE  F!AnsweredForGood
    BY <2>0, <2>6 DEF FriendshipRows, F!RespondToRequest, F!Answerable
  <2>7. ASSUME NEW u \in User, NEW v \in User, F!CooldownPasses(u, v) PROVE F!AnsweredForGood
    BY <2>7 DEF F!CooldownPasses
  <2> QED BY <1>1, <2>1, <2>2, <2>3, <2>4, <2>5, <2>6, <2>7 DEF F!Next
<1>2. FriendshipInv /\ [F!Next]_F!vars => [F!AnsweredForGood]_F!vars BY <1>1
<1>3. FriendshipInv /\ [F!Next]_F!vars => FriendshipInv' BY FriendshipNext
<1> QED BY <1>2, <1>3, FriendshipInit, PTL DEF F!Spec

-----------------------------------------------------------------------------
(* Invitations: requests in flight *)

LEMMA AskingRecords ==
  /\ IsAsking(I!Idle) /\ I!Idle.op = "idle"
  /\ \A on, by, to : IsAsking([op |-> "invite", on |-> on, by |-> by, to |-> to])
  /\ \A op \in AcceptOps : \A on, id, had :
       IsAsking([op |-> op, on |-> on, id |-> id, had |-> had])
  /\ \A op \in {"join_seat", "join_row"} : \A on, had : IsAsking([op |-> op, on |-> on, had |-> had])
  /\ \A op \in {"leave_row", "leave_count", "unfriend"} : \A on : IsAsking([op |-> op, on |-> on])
<1>1. IsAsking(I!Idle) /\ I!Idle.op = "idle" BY DEF I!Idle, IsAsking
<1>2. \A on, by, to : IsAsking([op |-> "invite", on |-> on, by |-> by, to |-> to])
  BY DEF IsAsking
<1>3. \A op \in AcceptOps : \A on, id, had :
        IsAsking([op |-> op, on |-> on, id |-> id, had |-> had])
  BY DEF IsAsking
<1>4. \A op \in {"join_seat", "join_row"} : \A on, had :
        IsAsking([op |-> op, on |-> on, had |-> had])
  BY DEF IsAsking
<1>5. \A op \in {"leave_row", "leave_count", "unfriend"} : \A on :
        IsAsking([op |-> op, on |-> on])
  BY DEF IsAsking
<1> QED BY <1>1, <1>2, <1>3, <1>4, <1>5

\* A request that goes on keeps what it has.
LEMMA AskingAdvances ==
  ASSUME NEW q, IsAsking(q), NEW op, NEW r, r = [q EXCEPT !.op = op],
         \/ q.op \in AcceptOps /\ op \in AcceptOps
         \/ q.op = "join_seat" /\ op = "join_row"
         \/ q.op = "leave_row" /\ op = "leave_count"
  PROVE  /\ IsAsking(r) /\ r.op = op /\ r.on = q.on
         /\ q.op \in AcceptOps => r.id = q.id /\ r.had = q.had
<1>1. CASE q.op \in AcceptOps /\ op \in AcceptOps
  <2>1. q = [op |-> q.op, on |-> q.on, id |-> q.id, had |-> q.had]
    BY <1>1 DEF IsAsking, AcceptOps
  <2>2. r = [op |-> op, on |-> q.on, id |-> q.id, had |-> q.had] BY <2>1
  <2>3. IsAsking([op |-> op, on |-> q.on, id |-> q.id, had |-> q.had])
    BY <1>1, AskingRecords
  <2>4. r.op = op /\ r.on = q.on /\ r.id = q.id /\ r.had = q.had BY <2>2
  <2> QED BY <2>2, <2>3, <2>4
<1>2. CASE q.op = "join_seat" /\ op = "join_row"
  <2>1. q = [op |-> q.op, on |-> q.on, had |-> q.had] BY <1>2 DEF IsAsking, AcceptOps
  <2>2. r = [op |-> op, on |-> q.on, had |-> q.had] BY <2>1
  <2>3. q.op \notin AcceptOps BY <1>2 DEF AcceptOps
  <2>4. IsAsking([op |-> op, on |-> q.on, had |-> q.had]) BY <1>2, AskingRecords
  <2>5. r.op = op /\ r.on = q.on BY <2>2
  <2> QED BY <2>2, <2>3, <2>4, <2>5
<1>3. CASE q.op = "leave_row" /\ op = "leave_count"
  <2>1. q = [op |-> q.op, on |-> q.on] BY <1>3 DEF IsAsking, AcceptOps
  <2>2. r = [op |-> op, on |-> q.on] BY <2>1
  <2>3. q.op \notin AcceptOps BY <1>3 DEF AcceptOps
  <2> QED BY <1>3, <2>2, <2>3, AskingRecords
<1> QED BY <1>1, <1>2, <1>3

LEMMA AskingSet ==
  ASSUME InvitationShapes, NEW s \in Slot, NEW r, IsAsking(r),
         asking' = [asking EXCEPT ![s] = r]
  PROVE  /\ asking' = [t \in Slot |-> asking'[t]]
         /\ \A t \in Slot : asking'[t] = IF t = s THEN r ELSE asking[t]
         /\ \A t \in Slot : IsAsking(asking'[t])
BY DEF InvitationShapes

\* How what is owed to the counter changes.
LEMMA OwedSteps ==
  ASSUME IsFiniteSet(Slot), InvitationShapes, NEW s \in Slot, NEW r,
         asking' = [asking EXCEPT ![s] = r]
  PROVE  /\ Cardinality(Owed) \in Nat /\ Cardinality(Owed') \in Nat
         /\ asking[s].op \in OwedOps /\ r.op \in OwedOps => Cardinality(Owed') = Cardinality(Owed)
         /\ asking[s].op \notin OwedOps /\ r.op \notin OwedOps =>
              Cardinality(Owed') = Cardinality(Owed)
         /\ asking[s].op \notin OwedOps /\ r.op \in OwedOps =>
              Cardinality(Owed') = Cardinality(Owed) + 1
         /\ asking[s].op \in OwedOps /\ r.op \notin OwedOps =>
              Cardinality(Owed') = Cardinality(Owed) - 1
<1>1. \A t \in Slot : asking'[t] = IF t = s THEN r ELSE asking[t]
  BY DEF InvitationShapes
<1>2. IsFiniteSet(Owed) /\ IsFiniteSet(Owed')
  BY FS_Subset DEF Owed
<1>3. Cardinality(Owed) \in Nat /\ Cardinality(Owed') \in Nat BY <1>2, FS_CardinalityType
<1>4. Owed' = IF r.op \in OwedOps THEN Owed \cup {s} ELSE Owed \ {s} BY <1>1 DEF Owed
<1>5. s \in Owed <=> asking[s].op \in OwedOps BY DEF Owed
<1>6. /\ s \in Owed => Owed \cup {s} = Owed
      /\ s \notin Owed => Owed \ {s} = Owed /\ Cardinality(Owed \cup {s}) = Cardinality(Owed) + 1
  BY <1>2, FS_AddElement
<1>7. s \in Owed => Cardinality(Owed \ {s}) = Cardinality(Owed) - 1 BY <1>2, FS_RemoveElement
<1> QED BY <1>3, <1>4, <1>5, <1>6, <1>7

\* How the roster changes with one row.
LEMMA JoinedSteps ==
  ASSUME IsFiniteSet(Person), player \in [Person -> {"none", "joined", "cancelled"}],
         NEW u \in Person, NEW st \in {"joined", "cancelled"},
         player' = [player EXCEPT ![u] = st]
  PROVE  /\ player' \in [Person -> {"none", "joined", "cancelled"}]
         /\ \A v \in Person : player'[v] = IF v = u THEN st ELSE player[v]
         /\ Cardinality(I!Joined) \in Nat /\ Cardinality(I!Joined') \in Nat
         /\ Cardinality(I!Joined') <= Cardinality(I!Joined) + 1
         /\ st = "cancelled" /\ player[u] = "joined" =>
              Cardinality(I!Joined') = Cardinality(I!Joined) - 1
<1>1. /\ player' \in [Person -> {"none", "joined", "cancelled"}]
      /\ \A v \in Person : player'[v] = IF v = u THEN st ELSE player[v]
  OBVIOUS
<1>2. IsFiniteSet(I!Joined) /\ IsFiniteSet(I!Joined') BY FS_Subset DEF I!Joined
<1>3. Cardinality(I!Joined) \in Nat /\ Cardinality(I!Joined') \in Nat
  BY <1>2, FS_CardinalityType
<1>4. CASE st = "joined"
  <2>1. I!Joined' = I!Joined \cup {u} BY <1>1, <1>4 DEF I!Joined
  <2>2. \/ Cardinality(I!Joined \cup {u}) = Cardinality(I!Joined)
        \/ Cardinality(I!Joined \cup {u}) = Cardinality(I!Joined) + 1
    BY <1>2, FS_AddElement
  <2>3. Cardinality(I!Joined') <= Cardinality(I!Joined) + 1 BY <1>3, <2>1, <2>2
  <2>4. st # "cancelled" BY <1>4
  <2> QED BY <1>1, <1>3, <2>3, <2>4
<1>5. CASE st = "cancelled"
  <2>1. I!Joined' = I!Joined \ {u} BY <1>1, <1>5 DEF I!Joined
  <2>2. player[u] = "joined" <=> u \in I!Joined BY DEF I!Joined
  <2>3. u \in I!Joined => Cardinality(I!Joined \ {u}) = Cardinality(I!Joined) - 1
    BY <1>2, FS_RemoveElement
  <2>4. u \notin I!Joined => Cardinality(I!Joined \ {u}) = Cardinality(I!Joined)
    <3>1. u \notin I!Joined => I!Joined \ {u} = I!Joined OBVIOUS
    <3> QED BY <3>1
  <2>5. Cardinality(I!Joined') <= Cardinality(I!Joined) + 1 BY <1>3, <2>1, <2>3, <2>4
  <2>6. player[u] = "joined" => Cardinality(I!Joined') = Cardinality(I!Joined) - 1
    BY <2>1, <2>2, <2>3
  <2> QED BY <1>1, <1>3, <2>5, <2>6
<1> QED BY <1>4, <1>5

-----------------------------------------------------------------------------
(* Invitations: what the steps keep *)

\* A step of one request that leaves the invitations and the friendships alone.
LEMMA SlotKeeps ==
  ASSUME InvitationInv, NEW s \in Slot, NEW r, IsAsking(r),
         asking' = [asking EXCEPT ![s] = r],
         invitation' = invitation, friends' = friends,
         EventRow', player' \in [Person -> {"none", "joined", "cancelled"}],
         \A u \in Person : player[u] # "none" => player'[u] # "none",
         asking[s].op # "unfriend",
         asking[s].op = "row" => player'[asking[s].on] # "none",
         r.op \in AcceptOps =>
           /\ r.id \in Invitation /\ invitation[r.id].status # "none"
           /\ r.on = invitation[r.id].to
           /\ r.op # "row"
           /\ r.op = "claim_only" => player'[r.on] # "none"
           /\ r.op \in {"seat", "claim"} => r.had # "joined",
         r.op \in {"join_seat", "join_row", "leave_row"} => r.on \in Person,
         r.op = "invite" => /\ r.to \in Person /\ r.on = {r.by, r.to}
                            /\ Careful => r.on \in friends,
         Careful =>
           /\ \A t \in Slot \ {s} : asking[t].op = "leave_row" =>
                /\ player'[asking[t].on] = "joined"
                /\ r.op = "leave_row" => asking[t].on # r.on
           /\ r.op = "leave_row" => player'[r.on] = "joined",
         SeatsCovered'
  PROVE  InvitationInv'
<1> USE DEF InvitationInv
<1>1. /\ asking' = [t \in Slot |-> asking'[t]]
      /\ \A t \in Slot : asking'[t] = IF t = s THEN r ELSE asking[t]
      /\ \A t \in Slot : IsAsking(asking'[t])
  BY AskingSet
<1>2. InvitationShapes' BY <1>1 DEF InvitationShapes, InvitationRows
<1>3. AskingHolds'
  <2> SUFFICES ASSUME NEW t \in Slot
      PROVE
      /\ asking'[t].op \in AcceptOps =>
           /\ asking'[t].id \in Invitation
           /\ invitation[asking'[t].id].status # "none"
           /\ asking'[t].on = invitation[asking'[t].id].to
           /\ asking'[t].op = "row" => invitation[asking'[t].id].status = "ACCEPTED"
           /\ asking'[t].op = "claim_only" => player'[asking'[t].on] # "none"
           /\ asking'[t].op \in {"seat", "claim", "row"} => asking'[t].had # "joined"
      /\ asking'[t].op \in {"join_seat", "join_row", "leave_row"} => asking'[t].on \in Person
      /\ asking'[t].op = "invite" =>
           /\ asking'[t].to \in Person /\ asking'[t].on = {asking'[t].by, asking'[t].to}
           /\ Careful => asking'[t].on \in friends
      /\ Careful /\ asking'[t].op = "leave_row" =>
           /\ player'[asking'[t].on] = "joined"
           /\ \A o \in Slot :
                asking'[o].op = "leave_row" /\ asking'[o].on = asking'[t].on => o = t
    BY DEF AskingHolds
  <2>1. CASE t = s
    <3>1. asking'[t] = r BY <1>1, <2>1
    <3>2. Careful /\ r.op = "leave_row" => \A o \in Slot :
            asking'[o].op = "leave_row" /\ asking'[o].on = r.on => o = t
      BY <1>1, <2>1
    <3> QED BY <3>1, <3>2
  <2>2. CASE t # s
    <3>1. asking'[t] = asking[t] BY <1>1, <2>2
    <3>2. asking[t].op = "claim_only" => player'[asking[t].on] # "none"
      <4> SUFFICES ASSUME asking[t].op = "claim_only" PROVE player'[asking[t].on] # "none"
        OBVIOUS
      <4>1. asking[t].on \in Person /\ player[asking[t].on] # "none"
        BY DEF AskingHolds, AcceptOps, InvitationShapes, InvitationRows
      <4> QED BY <4>1
    <3>3. Careful /\ asking[t].op = "leave_row" => \A o \in Slot :
            asking'[o].op = "leave_row" /\ asking'[o].on = asking[t].on => o = t
      BY <1>1, <2>2 DEF AskingHolds
    <3> QED BY <2>2, <3>1, <3>2, <3>3 DEF AskingHolds
  <2> QED BY <2>1, <2>2
<1>4. AcceptedSeated'
  <2> SUFFICES ASSUME NEW i \in Invitation, invitation[i].status = "ACCEPTED",
                      \A t \in Slot : asking'[t].op = "row" => asking'[t].id # i
               PROVE  player'[invitation[i].to] # "none"
    BY DEF AcceptedSeated
  <2>1. invitation[i].to \in Person BY DEF InvitationShapes, InvitationRows
  <2>2. CASE asking[s].op = "row" /\ asking[s].id = i
    <3>1. asking[s].on = invitation[i].to BY <2>2 DEF AskingHolds, AcceptOps
    <3> QED BY <2>2, <3>1
  <2>3. CASE ~(asking[s].op = "row" /\ asking[s].id = i)
    <3>1. \A t \in Slot : asking[t].op = "row" => asking[t].id # i BY <1>1, <2>3
    <3>2. player[invitation[i].to] # "none" BY <3>1 DEF AcceptedSeated
    <3> QED BY <2>1, <3>2
  <2> QED BY <2>2, <2>3
<1>5. RestsOn'
  <2>1. \A t \in Slot : asking[t].op = "unfriend" => asking'[t] = asking[t] BY <1>1
  <2> QED BY <2>1 DEF RestsOn
<1> QED BY <1>2, <1>3, <1>4, <1>5

\* What the counter needs of a step that leaves it and the roster alone.
LEMMA SeatsStay ==
  ASSUME SeatsCovered, IsFiniteSet(Person), event.joinedCount \in Nat,
         player \in [Person -> {"none", "joined", "cancelled"}],
         event'.joinedCount = event.joinedCount, player' = player,
         Cardinality(Owed) \in Nat, Cardinality(Owed') \in Nat,
         Cardinality(Owed') <= Cardinality(Owed)
  PROVE  SeatsCovered'
<1>1. I!Joined' = I!Joined BY DEF I!Joined
<1>2. IsFiniteSet(I!Joined) BY FS_Subset DEF I!Joined
<1>3. Cardinality(I!Joined) \in Nat BY <1>2, FS_CardinalityType
<1>4. Cardinality(I!Joined') = Cardinality(I!Joined) BY <1>1
<1> QED BY <1>3, <1>4 DEF SeatsCovered

\* A request that begins.
LEMMA BeginKeeps ==
  ASSUME InvitationInv, IsFiniteSet(Person), IsFiniteSet(Slot),
         NEW s \in Slot, NEW r, IsAsking(r), I!Begin(s, r),
         r.op \in {"invite", "expire", "claim_only", "seat", "join_seat", "leave_row"},
         r.op \in AcceptOps =>
           /\ r.id \in Invitation /\ invitation[r.id].status # "none"
           /\ r.on = invitation[r.id].to
           /\ r.op = "claim_only" => player[r.on] # "none"
           /\ r.op = "seat" => r.had # "joined",
         r.op \in {"join_seat", "leave_row"} => r.on \in Person,
         r.op = "invite" => /\ r.to \in Person /\ r.on = {r.by, r.to}
                            /\ Careful => r.on \in friends,
         r.op = "leave_row" => player[r.on] = "joined",
         Careful /\ r.op = "leave_row" =>
           \A t \in Slot \ {s} : asking[t].op = "leave_row" => asking[t].on # r.on
  PROVE  InvitationInv'
<1>1. /\ asking[s] = I!Idle /\ asking' = [asking EXCEPT ![s] = r]
      /\ event' = event /\ player' = player /\ friends' = friends
      /\ invitation' = invitation
  BY DEF I!Begin, I!Proceed, I!store
<1>2. asking[s].op = "idle" BY <1>1, AskingRecords
<1>3. InvitationShapes /\ AskingHolds /\ SeatsCovered BY DEF InvitationInv
<1>4. Cardinality(Owed) \in Nat /\ Cardinality(Owed') = Cardinality(Owed)
  BY <1>1, <1>2, <1>3, OwedSteps DEF OwedOps
<1>5. /\ EventRow' /\ event'.joinedCount = event.joinedCount
      /\ event.joinedCount \in Nat
      /\ player \in [Person -> {"none", "joined", "cancelled"}]
  BY <1>1, <1>3 DEF InvitationShapes, EventRow
<1>6. SeatsCovered' BY <1>1, <1>3, <1>4, <1>5, SeatsStay
<1>7. r.op \notin {"row", "claim", "join_row"} OBVIOUS
<1>8. Careful => \A t \in Slot \ {s} : asking[t].op = "leave_row" =>
        player[asking[t].on] = "joined"
  BY <1>3 DEF AskingHolds
<1> QED BY <1>1, <1>2, <1>5, <1>6, <1>7, <1>8, SlotKeeps

LEMMA BeginsKeep ==
  ASSUME InvitationInv, IsFiniteSet(Person), IsFiniteSet(Slot), NEW s \in Slot,
         \/ \E i \in Invitation : I!Accept(s, i)
         \/ \E u \in Person : I!Join(s, u) \/ I!Leave(s, u)
         \/ \E u, v \in Person : I!Invite(s, u, v)
  PROVE  InvitationInv'
<1>0. InvitationShapes /\ AskingHolds BY DEF InvitationInv
<1>1. ASSUME NEW i \in Invitation, I!Accept(s, i) PROVE InvitationInv'
  <2>1. PICK op \in {"expire", "claim_only", "seat"} :
          /\ I!Begin(s, [op |-> op, on |-> invitation[i].to, id |-> i,
                         had |-> player[invitation[i].to]])
          /\ op = "claim_only" => player[invitation[i].to] = "joined"
          /\ op = "seat" => player[invitation[i].to] # "joined"
    BY <1>1 DEF I!Accept
  <2> DEFINE r == [op |-> op, on |-> invitation[i].to, id |-> i,
                   had |-> player[invitation[i].to]]
  <2>2. IsAsking(r) BY AskingRecords DEF AcceptOps
  <2>3. /\ r.op = op /\ r.on = invitation[i].to /\ r.id = i
        /\ r.had = player[invitation[i].to] /\ I!Begin(s, r)
    BY <2>1
  <2>4. invitation[i].status # "none" BY <1>1 DEF I!Accept, I!Pending
  <2> HIDE DEF r
  <2> QED BY <2>1, <2>2, <2>3, <2>4, BeginKeeps
<1>2. ASSUME NEW u \in Person, I!Join(s, u) PROVE InvitationInv'
  <2> DEFINE r == [op |-> "join_seat", on |-> u, had |-> player[u]]
  <2>1. IsAsking(r) BY AskingRecords
  <2>2. r.op = "join_seat" /\ r.on = u /\ I!Begin(s, r) BY <1>2 DEF I!Join
  <2> HIDE DEF r
  <2>3. r.op \notin AcceptOps BY <2>2 DEF AcceptOps
  <2> QED BY <2>1, <2>2, <2>3, BeginKeeps
<1>3. ASSUME NEW u \in Person, I!Leave(s, u) PROVE InvitationInv'
  <2> DEFINE r == [op |-> "leave_row", on |-> u]
  <2>1. IsAsking(r) BY AskingRecords
  <2>2. /\ r.op = "leave_row" /\ r.on = u /\ I!Begin(s, r) /\ player[u] = "joined"
        /\ ~I!Overlaps(s, "leave_row", u)
    BY <1>3 DEF I!Leave
  <2> HIDE DEF r
  <2>3. r.op \notin AcceptOps BY <2>2 DEF AcceptOps
  <2>4. Careful => \A t \in Slot \ {s} : asking[t].op = "leave_row" => asking[t].on # r.on
    BY <2>2 DEF I!Overlaps, I!At
  <2> QED BY <2>1, <2>2, <2>3, <2>4, BeginKeeps
<1>4. ASSUME NEW u \in Person, NEW v \in Person, I!Invite(s, u, v) PROVE InvitationInv'
  <2> DEFINE r == [op |-> "invite", on |-> {u, v}, by |-> u, to |-> v]
  <2>1. IsAsking(r) BY AskingRecords
  <2>2. /\ r.op = "invite" /\ r.on = {u, v} /\ r.by = u /\ r.to = v /\ I!Begin(s, r)
        /\ {u, v} \in friends
    BY <1>4 DEF I!Invite
  <2> HIDE DEF r
  <2>3. r.op \notin AcceptOps BY <2>2 DEF AcceptOps
  <2> QED BY <2>1, <2>2, <2>3, BeginKeeps
<1> QED BY <1>1, <1>2, <1>3, <1>4

\* A step that answers invitations, or closes them, and lets at most the requests
\* concerned go on.
LEMMA AnswerKeeps ==
  ASSUME InvitationInv, IsFiniteSet(Person),
         event' = event, player' = player, friends' = friends,
         invitation' = [i \in Invitation |-> invitation'[i]],
         asking' = [t \in Slot |-> asking'[t]],
         \A i \in Invitation :
           \/ invitation'[i] = invitation[i]
           \/ /\ invitation[i].status = "PENDING"
              /\ invitation'[i] = [by |-> invitation[i].by, to |-> invitation[i].to,
                                   status |-> invitation'[i].status]
              /\ invitation'[i].status \notin {"none", "PENDING"}
              /\ invitation'[i].status = "ACCEPTED" =>
                   \/ player[invitation[i].to] # "none"
                   \/ \E t \in Slot : asking'[t].op = "row" /\ asking'[t].id = i,
         \A t \in Slot :
           \/ asking'[t] = asking[t]
           \/ asking'[t] = I!Idle /\ asking[t].op \in {"expire", "claim_only"}
           \/ /\ asking'[t] = I!Idle /\ asking[t].op = "unfriend"
              /\ \A i \in Invitation : invitation'[i].status = "PENDING" =>
                   {invitation[i].by, invitation[i].to} # asking[t].on
           \/ /\ asking[t].op = "claim" /\ asking'[t].op \in {"row", "unseat"}
              /\ IsAsking(asking'[t]) /\ asking'[t].on = asking[t].on
              /\ asking'[t].id = asking[t].id /\ asking'[t].had = asking[t].had
              /\ asking'[t].op = "row" => invitation'[asking[t].id].status = "ACCEPTED"
  PROVE  InvitationInv'
<1> USE DEF InvitationInv
<1>1. \A i \in Invitation :
        /\ invitation[i].status # "none" =>
             /\ invitation'[i].status # "none" /\ invitation'[i].to = invitation[i].to
             /\ invitation'[i].by = invitation[i].by
        /\ invitation[i].status = "none" => invitation'[i] = invitation[i]
        /\ invitation'[i].status = "PENDING" => invitation'[i] = invitation[i]
        /\ invitation[i].status = "ACCEPTED" => invitation'[i] = invitation[i]
        /\ invitation'[i] = [by |-> invitation'[i].by, to |-> invitation'[i].to,
                             status |-> invitation'[i].status]
  <2> SUFFICES ASSUME NEW i \in Invitation
      PROVE
        /\ invitation[i].status # "none" =>
             /\ invitation'[i].status # "none" /\ invitation'[i].to = invitation[i].to
             /\ invitation'[i].by = invitation[i].by
        /\ invitation[i].status = "none" => invitation'[i] = invitation[i]
        /\ invitation'[i].status = "PENDING" => invitation'[i] = invitation[i]
        /\ invitation[i].status = "ACCEPTED" => invitation'[i] = invitation[i]
        /\ invitation'[i] = [by |-> invitation'[i].by, to |-> invitation'[i].to,
                             status |-> invitation'[i].status]
    OBVIOUS
  <2>1. invitation[i] = [by |-> invitation[i].by, to |-> invitation[i].to,
                         status |-> invitation[i].status]
    BY DEF InvitationShapes, InvitationRows
  <2>2. CASE invitation'[i] = invitation[i] BY <2>1, <2>2
  <2>3. CASE /\ invitation[i].status = "PENDING"
             /\ invitation'[i] = [by |-> invitation[i].by, to |-> invitation[i].to,
                                  status |-> invitation'[i].status]
             /\ invitation'[i].status \notin {"none", "PENDING"}
    BY <2>3
  <2> QED BY <2>2, <2>3
<1>2. \A t \in Slot :
        /\ IsAsking(asking'[t])
        /\ asking'[t] = I!Idle => asking'[t].op = "idle"
        /\ asking'[t].op \in OwedOps <=> asking[t].op \in OwedOps
  BY AskingRecords DEF InvitationShapes, OwedOps
<1>3. InvitationShapes' BY <1>1, <1>2 DEF InvitationShapes, InvitationRows, EventRow
<1>4. AskingHolds'
  <2> SUFFICES ASSUME NEW t \in Slot
      PROVE
      /\ asking'[t].op \in AcceptOps =>
           /\ asking'[t].id \in Invitation
           /\ invitation'[asking'[t].id].status # "none"
           /\ asking'[t].on = invitation'[asking'[t].id].to
           /\ asking'[t].op = "row" => invitation'[asking'[t].id].status = "ACCEPTED"
           /\ asking'[t].op = "claim_only" => player[asking'[t].on] # "none"
           /\ asking'[t].op \in {"seat", "claim", "row"} => asking'[t].had # "joined"
      /\ asking'[t].op \in {"join_seat", "join_row", "leave_row"} => asking'[t].on \in Person
      /\ asking'[t].op = "invite" =>
           /\ asking'[t].to \in Person /\ asking'[t].on = {asking'[t].by, asking'[t].to}
           /\ Careful => asking'[t].on \in friends
      /\ Careful /\ asking'[t].op = "leave_row" =>
           /\ player[asking'[t].on] = "joined"
           /\ \A o \in Slot :
                asking'[o].op = "leave_row" /\ asking'[o].on = asking'[t].on => o = t
    BY DEF AskingHolds
  <2>1. \A o \in Slot : asking'[o].op = "leave_row" => asking'[o] = asking[o]
    BY <1>2
  <2>2. CASE asking'[t] = asking[t]
    <3>1. asking[t].op \in AcceptOps =>
            /\ asking[t].id \in Invitation
            /\ invitation'[asking[t].id].status # "none"
            /\ asking[t].on = invitation'[asking[t].id].to
            /\ asking[t].op = "row" => invitation'[asking[t].id].status = "ACCEPTED"
      BY <1>1 DEF AskingHolds
    <3>2. Careful /\ asking[t].op = "leave_row" => \A o \in Slot :
            asking'[o].op = "leave_row" /\ asking'[o].on = asking[t].on => o = t
      BY <2>1 DEF AskingHolds
    <3> QED BY <2>2, <3>1, <3>2 DEF AskingHolds
  <2>3. CASE asking'[t] = I!Idle BY <1>2, <2>3 DEF AcceptOps
  <2>4. CASE /\ asking[t].op = "claim" /\ asking'[t].op \in {"row", "unseat"}
             /\ asking'[t].on = asking[t].on
             /\ asking'[t].id = asking[t].id /\ asking'[t].had = asking[t].had
             /\ asking'[t].op = "row" => invitation'[asking[t].id].status = "ACCEPTED"
    <3>1. /\ asking[t].id \in Invitation
          /\ invitation'[asking[t].id].status # "none"
          /\ asking[t].on = invitation'[asking[t].id].to
          /\ asking[t].had # "joined"
      BY <1>1, <2>4 DEF AskingHolds, AcceptOps
    <3> QED BY <2>4, <3>1
  <2> QED BY <2>2, <2>3, <2>4
<1>5. SeatsCovered'
  <2>1. Owed' = Owed BY <1>2 DEF Owed
  <2>2. I!Joined' = I!Joined BY DEF I!Joined
  <2> QED BY <2>1, <2>2 DEF SeatsCovered
<1>6. AcceptedSeated'
  <2> SUFFICES ASSUME NEW i \in Invitation, invitation'[i].status = "ACCEPTED",
                      \A t \in Slot : asking'[t].op = "row" => asking'[t].id # i
               PROVE  player[invitation'[i].to] # "none"
    BY DEF AcceptedSeated
  <2>1. CASE invitation'[i] = invitation[i]
    <3>1. \A t \in Slot : asking[t].op = "row" => asking'[t] = asking[t] BY <1>2
    <3>2. \A t \in Slot : asking[t].op = "row" => asking[t].id # i BY <3>1
    <3> QED BY <2>1, <3>2 DEF AcceptedSeated
  <2>2. CASE invitation'[i] # invitation[i]
    <3>1. invitation[i].status = "PENDING" /\ player[invitation[i].to] # "none" BY <2>2
    <3> QED BY <1>1, <3>1
  <2> QED BY <2>1, <2>2
<1>7. RestsOn'
  <2> SUFFICES ASSUME Careful, NEW i \in Invitation, invitation'[i].status = "PENDING"
               PROVE  \/ {invitation'[i].by, invitation'[i].to} \in friends
                      \/ \E t \in Slot :
                           /\ asking'[t].op = "unfriend"
                           /\ asking'[t].on = {invitation'[i].by, invitation'[i].to}
    BY DEF RestsOn
  <2>1. invitation'[i] = invitation[i] BY <1>1
  <2>2. CASE {invitation[i].by, invitation[i].to} \in friends BY <2>1, <2>2
  <2>3. CASE \E t \in Slot : /\ asking[t].op = "unfriend"
                             /\ asking[t].on = {invitation[i].by, invitation[i].to}
    <3>1. PICK t \in Slot : /\ asking[t].op = "unfriend"
                            /\ asking[t].on = {invitation[i].by, invitation[i].to}
      BY <2>3
    <3>2. {invitation[i].by, invitation[i].to} = asking[t].on BY <3>1
    <3>3. asking'[t] = asking[t] BY <2>1, <3>1, <3>2
    <3> QED BY <2>1, <3>1, <3>3
  <2>4. \/ {invitation[i].by, invitation[i].to} \in friends
        \/ \E t \in Slot : /\ asking[t].op = "unfriend"
                           /\ asking[t].on = {invitation[i].by, invitation[i].to}
    <3>1. RestsOn OBVIOUS
    <3>2. invitation[i].status = "PENDING" BY <2>1
    <3> HIDE DEF InvitationInv
    <3> QED BY ONLY Careful, <3>1, <3>2, i \in Invitation, Zenon DEF RestsOn
  <2> QED BY <2>2, <2>3, <2>4
<1> QED BY <1>3, <1>4, <1>5, <1>6, <1>7

LEMMA SettleSteps ==
  ASSUME InvitationShapes, NEW i \in Invitation, NEW status, I!Settle(i, status)
  PROVE  /\ invitation' = [k \in Invitation |-> invitation'[k]]
         /\ \A k \in Invitation : k # i => invitation'[k] = invitation[k]
         /\ invitation[i].status # "PENDING" => invitation'[i] = invitation[i]
         /\ invitation[i].status = "PENDING" =>
              invitation'[i] = [by |-> invitation[i].by, to |-> invitation[i].to,
                                status |-> status]
<1>1. /\ invitation = [k \in Invitation |-> invitation[k]]
      /\ invitation[i] = [by |-> invitation[i].by, to |-> invitation[i].to,
                          status |-> invitation[i].status]
  BY DEF InvitationShapes, InvitationRows
<1>2. CASE invitation[i].status = "PENDING"
  <2>1. invitation' = [invitation EXCEPT ![i].status = status]
    BY <1>2 DEF I!Settle, I!Pending
  <2> QED BY <1>1, <1>2, <2>1
<1>3. CASE invitation[i].status # "PENDING"
  <2>1. invitation' = invitation BY <1>3 DEF I!Settle, I!Pending
  <2> QED BY <1>1, <1>3, <2>1
<1> QED BY <1>2, <1>3

\* The steps of an acceptance that settle its invitation.
LEMMA SettlesKeep ==
  ASSUME InvitationInv, IsFiniteSet(Person), NEW s \in Slot,
         I!Expire(s) \/ I!ClaimOnly(s) \/ I!Claim(s)
  PROVE  InvitationInv'
<1>0. InvitationShapes /\ AskingHolds BY DEF InvitationInv
<1> DEFINE q == asking[s]
<1>1. q.op \in {"expire", "claim_only", "claim"}
  BY DEF I!Expire, I!ClaimOnly, I!Claim, I!At
<1>2. /\ q.id \in Invitation /\ q.on = invitation[q.id].to
      /\ q.op = "claim_only" => player[q.on] # "none"
  BY <1>0, <1>1 DEF AskingHolds, AcceptOps
<1>3. event' = event /\ player' = player /\ friends' = friends
  BY DEF I!Expire, I!ClaimOnly, I!Claim
<1>4. /\ IsAsking(q) /\ IsAsking(I!Idle) /\ asking = [t \in Slot |-> asking[t]]
  BY <1>0, AskingRecords DEF InvitationShapes
<1>5. PICK status \in {"EXPIRED", "ACCEPTED"} :
        I!Settle(q.id, status) /\ (status = "ACCEPTED" <=> q.op # "expire")
  BY <1>1 DEF I!Expire, I!ClaimOnly, I!Claim, I!ClaimOrUnseat, I!At
<1>6. /\ invitation' = [k \in Invitation |-> invitation'[k]]
      /\ \A k \in Invitation : k # q.id => invitation'[k] = invitation[k]
      /\ invitation[q.id].status # "PENDING" => invitation'[q.id] = invitation[q.id]
      /\ invitation[q.id].status = "PENDING" =>
           invitation'[q.id] = [by |-> invitation[q.id].by, to |-> invitation[q.id].to,
                                status |-> status]
  BY <1>0, <1>2, <1>5, SettleSteps
<1>7. invitation[q.id].status = "PENDING" => invitation'[q.id].status = status BY <1>6
<1>8. CASE q.op \in {"expire", "claim_only"}
  <2>1. asking' = [asking EXCEPT ![s] = I!Idle]
    BY <1>8 DEF I!Expire, I!ClaimOnly, I!Claim, I!Finish, I!Proceed, I!At
  <2>2. /\ asking' = [t \in Slot |-> asking'[t]]
        /\ \A t \in Slot :
             \/ asking'[t] = asking[t]
             \/ asking'[t] = I!Idle /\ asking[t].op \in {"expire", "claim_only"}
    BY <1>4, <1>8, <2>1
  <2>3. \A i \in Invitation :
          \/ invitation'[i] = invitation[i]
          \/ /\ invitation[i].status = "PENDING"
             /\ invitation'[i] = [by |-> invitation[i].by, to |-> invitation[i].to,
                                  status |-> invitation'[i].status]
             /\ invitation'[i].status \notin {"none", "PENDING"}
             /\ invitation'[i].status = "ACCEPTED" => player[invitation[i].to] # "none"
    BY <1>2, <1>5, <1>6, <1>7, <1>8
  <2> QED BY <1>3, <1>6, <2>2, <2>3, AnswerKeeps
<1>9. CASE q.op = "claim"
  <2>1. PICK op \in {"row", "unseat"} :
          /\ asking' = [asking EXCEPT ![s] = [asking[s] EXCEPT !.op = op]]
          /\ op = "row" <=> invitation[q.id].status = "PENDING"
    BY <1>2, <1>9 DEF I!Expire, I!ClaimOnly, I!Claim, I!ClaimOrUnseat, I!Advance, I!Proceed,
                      I!At, I!Pending
  <2> DEFINE r == [q EXCEPT !.op = op]
  <2>2. /\ IsAsking(r) /\ r.op = op /\ r.on = q.on /\ r.id = q.id /\ r.had = q.had
    BY <1>4, <1>9, AskingAdvances DEF AcceptOps
  <2>3. asking' = [asking EXCEPT ![s] = r] BY <2>1
  <2> HIDE DEF r
  <2>4. /\ asking' = [t \in Slot |-> asking'[t]]
        /\ \A t \in Slot : asking'[t] = IF t = s THEN r ELSE asking[t]
    BY <1>0, <2>2, <2>3, AskingSet
  <2>5. op = "row" => invitation'[q.id].status = "ACCEPTED"
    BY <1>5, <1>7, <1>9, <2>1
  <2>6. \A t \in Slot :
          \/ asking'[t] = asking[t]
          \/ /\ asking[t].op = "claim" /\ asking'[t].op \in {"row", "unseat"}
             /\ IsAsking(asking'[t]) /\ asking'[t].on = asking[t].on
             /\ asking'[t].id = asking[t].id /\ asking'[t].had = asking[t].had
             /\ asking'[t].op = "row" => invitation'[asking[t].id].status = "ACCEPTED"
    BY <1>9, <2>1, <2>2, <2>4, <2>5
  <2>7. \A i \in Invitation :
          \/ invitation'[i] = invitation[i]
          \/ /\ invitation[i].status = "PENDING"
             /\ invitation'[i] = [by |-> invitation[i].by, to |-> invitation[i].to,
                                  status |-> invitation'[i].status]
             /\ invitation'[i].status \notin {"none", "PENDING"}
             /\ invitation'[i].status = "ACCEPTED" =>
                  \E t \in Slot : asking'[t].op = "row" /\ asking'[t].id = i
    <3> SUFFICES ASSUME NEW i \in Invitation, invitation'[i] # invitation[i]
        PROVE  /\ invitation[i].status = "PENDING"
               /\ invitation'[i] = [by |-> invitation[i].by, to |-> invitation[i].to,
                                    status |-> invitation'[i].status]
               /\ invitation'[i].status \notin {"none", "PENDING"}
               /\ \E t \in Slot : asking'[t].op = "row" /\ asking'[t].id = i
      OBVIOUS
    <3>1. i = q.id /\ invitation[i].status = "PENDING" BY <1>6
    <3>2. asking'[s].op = "row" /\ asking'[s].id = i BY <2>1, <2>2, <2>4, <3>1
    <3>3. invitation'[i] = [by |-> invitation[i].by, to |-> invitation[i].to,
                            status |-> invitation'[i].status]
      BY <1>6, <1>7, <3>1
    <3> QED BY <1>5, <1>7, <3>1, <3>2, <3>3
  <2> HIDE DEF q
  <2> QED BY <1>3, <1>6, <2>4, <2>6, <2>7, AnswerKeeps
<1> QED BY <1>1, <1>8, <1>9

\* The answers of the invitee and of the inviter, and what a closed event expires.
LEMMA AnswersKeep ==
  ASSUME InvitationInv, IsFiniteSet(Person),
         \/ \E i \in Invitation, status \in {"DECLINED", "REVOKED"} : I!Answer(i, status)
         \/ \E u \in Person : I!ExpireClosed(u)
  PROVE  InvitationInv'
<1>0. InvitationShapes BY DEF InvitationInv
<1>1. /\ event' = event /\ player' = player /\ friends' = friends /\ asking' = asking
  BY DEF I!Answer, I!ExpireClosed
<1>2. /\ invitation' = [k \in Invitation |-> invitation'[k]]
      /\ \A i \in Invitation :
          \/ invitation'[i] = invitation[i]
          \/ /\ invitation[i].status = "PENDING"
             /\ invitation'[i] = [by |-> invitation[i].by, to |-> invitation[i].to,
                                  status |-> invitation'[i].status]
             /\ invitation'[i].status \in {"DECLINED", "REVOKED", "EXPIRED"}
  <2>1. ASSUME NEW i \in Invitation, NEW status \in {"DECLINED", "REVOKED"},
               I!Answer(i, status)
        PROVE  <1>2!1 /\ <1>2!2
    <3>1. I!Settle(i, status) BY <2>1 DEF I!Answer
    <3>2. /\ invitation' = [k \in Invitation |-> invitation'[k]]
          /\ \A k \in Invitation : k # i => invitation'[k] = invitation[k]
          /\ invitation[i].status # "PENDING" => invitation'[i] = invitation[i]
          /\ invitation[i].status = "PENDING" =>
               invitation'[i] = [by |-> invitation[i].by, to |-> invitation[i].to,
                                 status |-> status]
      BY <1>0, <3>1, SettleSteps
    <3>3. invitation[i].status = "PENDING" => invitation'[i].status = status BY <3>2
    <3> QED BY <3>2, <3>3
  <2>2. ASSUME NEW u \in Person, I!ExpireClosed(u) PROVE <1>2!1 /\ <1>2!2
    <3>1. /\ invitation' = [k \in Invitation |-> invitation'[k]]
          /\ \A i \in Invitation :
               \/ invitation'[i] = invitation[i]
               \/ /\ invitation[i].status = "PENDING"
                  /\ invitation'[i] = [invitation[i] EXCEPT !.status = "EXPIRED"]
      BY <2>2 DEF I!ExpireClosed, I!PendingFor, I!Pending
    <3>2. \A i \in Invitation :
            invitation[i] = [by |-> invitation[i].by, to |-> invitation[i].to,
                             status |-> invitation[i].status]
      BY <1>0 DEF InvitationShapes, InvitationRows
    <3> QED BY <3>1, <3>2
  <2> QED BY <2>1, <2>2
<1>3. asking' = [t \in Slot |-> asking'[t]] /\ \A t \in Slot : asking'[t] = asking[t]
  BY <1>0, <1>1 DEF InvitationShapes
<1> QED BY <1>1, <1>2, <1>3, AnswerKeeps

\* One pending invitation for an invitee at a time: a new one, or nothing.
LEMMA CreateInvitationKeeps ==
  ASSUME InvitationInv, IsFiniteSet(Person), IsFiniteSet(Slot), NEW s \in Slot,
         I!CreateInvitation(s)
  PROVE  InvitationInv'
<1>0. InvitationShapes /\ AskingHolds /\ SeatsCovered /\ AcceptedSeated /\ RestsOn
  BY DEF InvitationInv
<1>1. /\ asking[s].op = "invite" /\ asking' = [asking EXCEPT ![s] = I!Idle]
      /\ event' = event /\ player' = player /\ friends' = friends
  BY DEF I!CreateInvitation, I!Finish, I!Proceed, I!At
<1>2. /\ asking[s].to \in Person /\ asking[s].on = {asking[s].by, asking[s].to}
      /\ Careful => asking[s].on \in friends
  BY <1>0, <1>1 DEF AskingHolds
<1>3. /\ IsAsking(I!Idle) /\ I!Idle.op = "idle" BY AskingRecords
<1>4. Cardinality(Owed) \in Nat /\ Cardinality(Owed') = Cardinality(Owed)
  BY <1>0, <1>1, <1>3, OwedSteps DEF OwedOps
<1>5. /\ EventRow' /\ event'.joinedCount = event.joinedCount /\ event.joinedCount \in Nat
      /\ player \in [Person -> {"none", "joined", "cancelled"}]
      /\ player' \in [Person -> {"none", "joined", "cancelled"}]
  BY <1>0, <1>1 DEF InvitationShapes, EventRow
<1>6. SeatsCovered' BY <1>0, <1>1, <1>4, <1>5, SeatsStay
<1>7. CASE invitation' = invitation
  <2>1. /\ \A u \in Person : player[u] # "none" => player'[u] # "none"
        /\ I!Idle.op \notin AcceptOps
        /\ Careful => \A t \in Slot \ {s} : asking[t].op = "leave_row" =>
              player'[asking[t].on] = "joined"
    BY <1>0, <1>1, <1>3 DEF AskingHolds, AcceptOps
  <2> QED BY <1>1, <1>3, <1>5, <1>6, <1>7, <2>1, SlotKeeps
<1>8. CASE invitation' # invitation
  <2> DEFINE new == [by |-> asking[s].by, to |-> asking[s].to, status |-> "PENDING"]
  <2>1. PICK i \in Invitation : /\ invitation[i].status = "none"
                                /\ invitation' = [invitation EXCEPT ![i] = new]
    BY <1>8 DEF I!CreateInvitation
  <2>2. /\ new = [by |-> new.by, to |-> new.to, status |-> new.status]
        /\ new.by = asking[s].by /\ new.to = asking[s].to /\ new.status = "PENDING"
    OBVIOUS
  <2> HIDE DEF new
  <2>3. /\ invitation' = [k \in Invitation |-> invitation'[k]]
        /\ \A k \in Invitation : invitation'[k] = IF k = i THEN new ELSE invitation[k]
    BY <1>0, <2>1 DEF InvitationShapes, InvitationRows
  <2>4. /\ asking' = [t \in Slot |-> asking'[t]]
        /\ \A t \in Slot : asking'[t] = IF t = s THEN I!Idle ELSE asking[t]
        /\ \A t \in Slot : IsAsking(asking'[t])
    BY <1>0, <1>1, <1>3, AskingSet
  <2>5. InvitationRows'
    BY <1>0, <1>2, <2>2, <2>3 DEF InvitationShapes, InvitationRows
  <2>6. InvitationShapes' BY <1>5, <2>4, <2>5 DEF InvitationShapes
  <2>7. \A t \in Slot : /\ asking'[t].op # "idle" => asking'[t] = asking[t]
                        /\ asking'[t].op \in AcceptOps =>
                             invitation'[asking'[t].id] = invitation[asking'[t].id]
    BY <1>0, <1>3, <2>1, <2>3, <2>4 DEF AskingHolds, AcceptOps
  <2>8. AskingHolds'
    <3> SUFFICES ASSUME NEW t \in Slot
        PROVE
        /\ asking'[t].op \in AcceptOps =>
             /\ asking'[t].id \in Invitation
             /\ invitation'[asking'[t].id].status # "none"
             /\ asking'[t].on = invitation'[asking'[t].id].to
             /\ asking'[t].op = "row" => invitation'[asking'[t].id].status = "ACCEPTED"
             /\ asking'[t].op = "claim_only" => player'[asking'[t].on] # "none"
             /\ asking'[t].op \in {"seat", "claim", "row"} => asking'[t].had # "joined"
        /\ asking'[t].op \in {"join_seat", "join_row", "leave_row"} => asking'[t].on \in Person
        /\ asking'[t].op = "invite" =>
             /\ asking'[t].to \in Person /\ asking'[t].on = {asking'[t].by, asking'[t].to}
             /\ Careful => asking'[t].on \in friends'
        /\ Careful /\ asking'[t].op = "leave_row" =>
             /\ player'[asking'[t].on] = "joined"
             /\ \A o \in Slot :
                  asking'[o].op = "leave_row" /\ asking'[o].on = asking'[t].on => o = t
      BY DEF AskingHolds
    <3>1. CASE asking'[t].op = "idle" BY <3>1 DEF AcceptOps
    <3>2. CASE asking'[t].op # "idle"
      <4>1. asking'[t] = asking[t] BY <2>7, <3>2
      <4>2. Careful /\ asking[t].op = "leave_row" => \A o \in Slot :
              asking'[o].op = "leave_row" /\ asking'[o].on = asking[t].on => o = t
        BY <1>0, <2>7 DEF AskingHolds
      <4>3. asking[t].op \in AcceptOps => invitation'[asking[t].id] = invitation[asking[t].id]
        BY <2>7, <4>1
      <4> QED BY <1>0, <1>1, <4>1, <4>2, <4>3 DEF AskingHolds
    <3> QED BY <3>1, <3>2
  <2>9. AcceptedSeated'
    <3> SUFFICES ASSUME NEW k \in Invitation, invitation'[k].status = "ACCEPTED",
                        \A t \in Slot : asking'[t].op = "row" => asking'[t].id # k
                 PROVE  player'[invitation'[k].to] # "none"
      BY DEF AcceptedSeated
    <3>1. invitation'[k] = invitation[k] BY <2>2, <2>3
    <3>2. \A t \in Slot : asking[t].op = "row" => asking'[t] = asking[t]
      BY <1>1, <2>4
    <3>3. \A t \in Slot : asking[t].op = "row" => asking[t].id # k BY <3>2
    <3> QED BY <1>0, <1>1, <3>1, <3>3 DEF AcceptedSeated
  <2>10. RestsOn'
    <3> SUFFICES ASSUME Careful, NEW k \in Invitation, invitation'[k].status = "PENDING"
                 PROVE  \/ {invitation'[k].by, invitation'[k].to} \in friends
                        \/ \E t \in Slot :
                             /\ asking'[t].op = "unfriend"
                             /\ asking'[t].on = {invitation'[k].by, invitation'[k].to}
      BY <1>1 DEF RestsOn
    <3>1. CASE k = i
      <4>1. {invitation'[k].by, invitation'[k].to} = asking[s].on BY <1>2, <2>2, <2>3, <3>1
      <4> QED BY <1>2, <4>1
    <3>2. CASE k # i
      <4>1. invitation'[k] = invitation[k] BY <2>3, <3>2
      <4>2. \A t \in Slot : asking[t].op = "unfriend" => asking'[t] = asking[t]
        BY <1>1, <2>4
      <4> HIDE DEF InvitationInv
      <4>3. invitation[k].status = "PENDING" BY <4>1
      <4>4. \/ {invitation[k].by, invitation[k].to} \in friends
            \/ \E t \in Slot : /\ asking[t].op = "unfriend"
                               /\ asking[t].on = {invitation[k].by, invitation[k].to}
        <5>1. RestsOn BY <1>0
        <5> QED BY ONLY Careful, <5>1, <4>3, k \in Invitation, Zenon DEF RestsOn
      <4>5. ASSUME NEW t \in Slot, asking[t].op = "unfriend",
                   asking[t].on = {invitation[k].by, invitation[k].to}
            PROVE  /\ asking'[t].op = "unfriend"
                   /\ asking'[t].on = {invitation'[k].by, invitation'[k].to}
        BY <4>1, <4>2, <4>5
      <4> QED BY <4>1, <4>4, <4>5, Zenon
    <3> QED BY <3>1, <3>2
  <2> QED BY <1>6, <2>6, <2>8, <2>9, <2>10 DEF InvitationInv
<1> QED BY <1>7, <1>8

\* A seat is taken: by an acceptance, or by a join of one's own.
LEMMA SeatTaken ==
  ASSUME InvitationInv, IsFiniteSet(Person), IsFiniteSet(Slot), Capacity \in Nat,
         NEW s \in Slot, I!Seat(s) \/ I!JoinSeat(s)
  PROVE  InvitationInv'
<1>0. InvitationShapes /\ AskingHolds /\ SeatsCovered BY DEF InvitationInv
<1> DEFINE q == asking[s]
<1>1. /\ q.op \in {"seat", "join_seat"} /\ IsAsking(q)
      /\ player' = player /\ friends' = friends /\ invitation' = invitation
  BY <1>0 DEF I!Seat, I!JoinSeat, I!At, InvitationShapes
<1>2. /\ event = [status |-> event.status, started |-> event.started,
                  joinedCount |-> event.joinedCount]
      /\ event.joinedCount \in Nat
      /\ player \in [Person -> {"none", "joined", "cancelled"}]
      /\ \A u \in Person : player[u] # "none" => player'[u] # "none"
  BY <1>0, <1>1 DEF InvitationShapes, EventRow
<1>3. /\ Careful => \A t \in Slot \ {s} : asking[t].op = "leave_row" =>
           player'[asking[t].on] = "joined"
      /\ q.op = "seat" => /\ q.id \in Invitation /\ invitation[q.id].status # "none"
                          /\ q.on = invitation[q.id].to /\ q.had # "joined"
      /\ q.op = "join_seat" => q.on \in Person
  BY <1>0, <1>1 DEF AskingHolds, AcceptOps
<1>4. CASE event' = event /\ asking' = [asking EXCEPT ![s] = I!Idle]
  <2>1. IsAsking(I!Idle) /\ I!Idle.op = "idle" BY AskingRecords
  <2>2. Cardinality(Owed) \in Nat /\ Cardinality(Owed') = Cardinality(Owed)
    BY <1>0, <1>1, <1>4, <2>1, OwedSteps DEF OwedOps
  <2>3. SeatsCovered' BY <1>0, <1>1, <1>2, <1>4, <2>2, SeatsStay
  <2>4. EventRow' /\ I!Idle.op \notin AcceptOps BY <1>2, <1>4, <2>1 DEF EventRow, AcceptOps
  <2> QED BY <1>1, <1>2, <1>3, <1>4, <2>1, <2>3, <2>4, SlotKeeps
<1>5. ASSUME NEW op, asking' = [asking EXCEPT ![s] = [asking[s] EXCEPT !.op = op]],
             \/ event' = event /\ q.op = "seat" /\ op = "expire"
             \/ /\ event.status = "join" /\ event.joinedCount < Capacity
                /\ event' = [event EXCEPT !.joinedCount = @ + 1]
                /\ \/ q.op = "seat" /\ op = "claim"
                   \/ q.op = "join_seat" /\ op = "join_row"
      PROVE  InvitationInv'
  <2> DEFINE r == [q EXCEPT !.op = op]
  <2>1. /\ IsAsking(r) /\ r.op = op /\ r.on = q.on
        /\ q.op = "seat" => r.id = q.id /\ r.had = q.had
    BY <1>1, <1>5, AskingAdvances DEF AcceptOps
  <2>2. asking' = [asking EXCEPT ![s] = r] BY <1>5
  <2> HIDE DEF r
  <2>3. /\ Cardinality(Owed) \in Nat /\ Cardinality(Owed') \in Nat
        /\ op = "expire" => Cardinality(Owed') = Cardinality(Owed)
        /\ op \in {"claim", "join_row"} => Cardinality(Owed') = Cardinality(Owed) + 1
    BY <1>0, <1>1, <2>1, <2>2, OwedSteps DEF OwedOps
  <2>4. CASE event' = event /\ op = "expire"
    <3>1. SeatsCovered' BY <1>0, <1>1, <1>2, <2>3, <2>4, SeatsStay
    <3>2. EventRow' BY <1>2, <2>4 DEF EventRow
    <3>3. q.op = "seat" BY <1>5, <2>4
    <3> QED BY <1>1, <1>2, <1>3, <2>1, <2>2, <2>4, <3>1, <3>2, <3>3, SlotKeeps
  <2>5. CASE /\ event.joinedCount < Capacity /\ op \in {"claim", "join_row"}
             /\ event' = [event EXCEPT !.joinedCount = @ + 1]
    <3>1. /\ event' = [status |-> event'.status, started |-> event'.started,
                       joinedCount |-> event'.joinedCount]
          /\ event'.joinedCount = event.joinedCount + 1
      BY <1>2, <2>5
    <3>2. EventRow' BY <1>2, <3>1 DEF EventRow
    <3>3. I!Joined' = I!Joined BY <1>1 DEF I!Joined
    <3>4. IsFiniteSet(I!Joined) BY FS_Subset DEF I!Joined
    <3>5. Cardinality(I!Joined) \in Nat /\ Cardinality(I!Joined') = Cardinality(I!Joined)
      BY <3>3, <3>4, FS_CardinalityType
    <3>6. SeatsCovered'
      BY <1>0, <1>2, <2>3, <2>5, <3>1, <3>5 DEF SeatsCovered
    <3>7. op = "claim" => q.op = "seat" BY <1>5
    <3>8. op = "join_row" => q.op = "join_seat" BY <1>5
    <3> QED BY <1>1, <1>2, <1>3, <2>1, <2>2, <2>5, <3>2, <3>6, <3>7, <3>8, SlotKeeps
            DEF AcceptOps
  <2> QED BY <1>5, <2>4, <2>5
<1>6. CASE I!Seat(s)
  BY <1>4, <1>5, <1>6 DEF I!Seat, I!HasRoom, I!At, I!Advance, I!Finish, I!Proceed
<1>7. CASE I!JoinSeat(s)
  BY <1>4, <1>5, <1>7 DEF I!JoinSeat, I!HasRoom, I!At, I!Advance, I!Finish, I!Proceed
<1> QED BY <1>6, <1>7

\* A seat held is used: the row is written, or the acceptance learns that it was
\* there.
LEMMA SeatUsed ==
  ASSUME InvitationInv, IsFiniteSet(Person), IsFiniteSet(Slot),
         NEW s \in Slot, I!PutRow(s) \/ I!JoinRow(s)
  PROVE  InvitationInv'
<1>0. InvitationShapes /\ AskingHolds /\ SeatsCovered BY DEF InvitationInv
<1> DEFINE q == asking[s]
<1>1. /\ q.op \in {"row", "join_row"} /\ IsAsking(q)
      /\ event' = event /\ friends' = friends /\ invitation' = invitation
  BY <1>0 DEF I!PutRow, I!JoinRow, I!At, InvitationShapes
<1>2. /\ EventRow' /\ event'.joinedCount = event.joinedCount /\ event.joinedCount \in Nat
      /\ player \in [Person -> {"none", "joined", "cancelled"}]
  BY <1>0, <1>1 DEF InvitationShapes, EventRow
<1>3. /\ q.on \in Person
      /\ q.op = "row" => /\ q.id \in Invitation /\ invitation[q.id].status # "none"
                         /\ q.on = invitation[q.id].to /\ q.had # "joined"
  BY <1>0, <1>1 DEF AskingHolds, AcceptOps, InvitationShapes, InvitationRows
<1>4. \A t \in Slot \ {s} : asking[t].op = "leave_row" =>
        asking[t].on \in Person /\ (Careful => player[asking[t].on] = "joined")
  BY <1>0 DEF AskingHolds
<1>5. IsAsking(I!Idle) /\ I!Idle.op = "idle" BY AskingRecords
<1>6. CASE /\ player' = [player EXCEPT ![q.on] = "joined"]
           /\ asking' = [asking EXCEPT ![s] = I!Idle]
  <2>1. /\ player' \in [Person -> {"none", "joined", "cancelled"}]
        /\ \A v \in Person : player'[v] = IF v = q.on THEN "joined" ELSE player[v]
        /\ Cardinality(I!Joined) \in Nat /\ Cardinality(I!Joined') \in Nat
        /\ Cardinality(I!Joined') <= Cardinality(I!Joined) + 1
    BY <1>2, <1>3, <1>6, JoinedSteps
  <2>2. /\ Cardinality(Owed) \in Nat /\ Cardinality(Owed') \in Nat
        /\ Cardinality(Owed') = Cardinality(Owed) - 1
    BY <1>0, <1>1, <1>5, <1>6, OwedSteps DEF OwedOps
  <2>3. SeatsCovered' BY <1>0, <1>2, <2>1, <2>2 DEF SeatsCovered
  <2>4. /\ \A u \in Person : player[u] # "none" => player'[u] # "none"
        /\ player'[q.on] # "none"
        /\ Careful => \A t \in Slot \ {s} : asking[t].op = "leave_row" =>
             player'[asking[t].on] = "joined"
    BY <1>3, <1>4, <2>1
  <2>5. I!Idle.op \notin AcceptOps BY <1>5 DEF AcceptOps
  <2> QED BY <1>1, <1>2, <1>5, <1>6, <2>1, <2>3, <2>4, <2>5, SlotKeeps
<1>7. CASE /\ player' = player /\ player[q.on] # "none"
           /\ asking' = [asking EXCEPT ![s] = I!Idle]
  <2>1. Cardinality(Owed) \in Nat /\ Cardinality(Owed') \in Nat
        /\ Cardinality(Owed') = Cardinality(Owed) - 1
    BY <1>0, <1>1, <1>5, <1>7, OwedSteps DEF OwedOps
  <2>2. Cardinality(Owed') <= Cardinality(Owed) BY <2>1
  <2>3. SeatsCovered' BY <1>0, <1>2, <1>7, <2>1, <2>2, SeatsStay
  <2>4. I!Idle.op \notin AcceptOps BY <1>5 DEF AcceptOps
  <2> QED BY <1>1, <1>2, <1>4, <1>5, <1>7, <2>3, <2>4, SlotKeeps
<1>8. CASE /\ player' = player /\ player[q.on] # "none" /\ q.op = "row"
           /\ asking' = [asking EXCEPT ![s] = [asking[s] EXCEPT !.op = "unseat"]]
  <2> DEFINE op == "unseat"
             r == [q EXCEPT !.op = op]
  <2>1. op \in AcceptOps /\ op = "unseat" BY DEF AcceptOps
  <2>2. asking' = [asking EXCEPT ![s] = r] BY <1>8
  <2> HIDE DEF op
  <2>3. /\ IsAsking(r) /\ r.op = op /\ r.on = q.on /\ r.id = q.id
    BY <1>1, <1>8, <2>1, AskingAdvances DEF AcceptOps
  <2> HIDE DEF r
  <2>4. Cardinality(Owed) \in Nat /\ Cardinality(Owed') = Cardinality(Owed)
    BY <1>0, <1>8, <2>1, <2>2, <2>3, OwedSteps, ZenonT(30) DEF OwedOps
  <2>5. SeatsCovered' BY <1>0, <1>2, <1>8, <2>4, SeatsStay
  <2> QED BY <1>1, <1>2, <1>3, <1>4, <1>8, <2>1, <2>2, <2>3, <2>5, SlotKeeps
<1>9. CASE I!PutRow(s)
  BY <1>2, <1>3, <1>6, <1>8, <1>9 DEF I!PutRow, I!At, I!Advance, I!Finish, I!Proceed
<1>10. CASE I!JoinRow(s)
  BY <1>2, <1>3, <1>6, <1>7, <1>10 DEF I!JoinRow, I!At, I!Finish, I!Proceed
<1> QED BY <1>9, <1>10

\* A seat goes back: the acceptance came to nothing, or the player has left.
LEMMA SeatGivenBack ==
  ASSUME InvitationInv, IsFiniteSet(Person), IsFiniteSet(Slot), Capacity \in Nat,
         NEW s \in Slot, I!Unseat(s) \/ I!LeaveCount(s)
  PROVE  InvitationInv'
<1>0. InvitationShapes /\ AskingHolds /\ SeatsCovered BY DEF InvitationInv
<1> DEFINE q == asking[s]
<1>1. /\ q.op \in {"unseat", "leave_count"}
      /\ player' = player /\ friends' = friends /\ invitation' = invitation
      /\ asking' = [asking EXCEPT ![s] = I!Idle]
      /\ event' = event \/ event' = [event EXCEPT !.joinedCount = I!GiveBack]
  BY DEF I!Unseat, I!LeaveCount, I!At, I!Finish, I!Proceed
<1>2. /\ event = [status |-> event.status, started |-> event.started,
                  joinedCount |-> event.joinedCount]
      /\ event.joinedCount \in Nat
      /\ player \in [Person -> {"none", "joined", "cancelled"}]
      /\ \A u \in Person : player[u] # "none" => player'[u] # "none"
  BY <1>0, <1>1 DEF InvitationShapes, EventRow
<1>3. Careful => \A t \in Slot \ {s} : asking[t].op = "leave_row" =>
        player'[asking[t].on] = "joined"
  BY <1>0, <1>1 DEF AskingHolds
<1>4. IsAsking(I!Idle) /\ I!Idle.op = "idle" /\ I!Idle.op \notin AcceptOps
  BY AskingRecords DEF AcceptOps
<1>5. /\ Cardinality(Owed) \in Nat /\ Cardinality(Owed') \in Nat
      /\ Cardinality(Owed') = Cardinality(Owed) - 1
  BY <1>0, <1>1, <1>4, OwedSteps DEF OwedOps
<1>6. I!Joined' = I!Joined /\ IsFiniteSet(I!Joined) BY <1>1, FS_Subset DEF I!Joined
<1>7. Cardinality(I!Joined) \in Nat /\ Cardinality(I!Joined') = Cardinality(I!Joined)
  BY <1>6, FS_CardinalityType
<1>8. /\ EventRow'
      /\ \/ event'.joinedCount = event.joinedCount
         \/ event'.joinedCount = I!GiveBack
  <2>1. CASE event' = event BY <1>2, <2>1 DEF EventRow
  <2>2. CASE event' = [event EXCEPT !.joinedCount = I!GiveBack]
    <3>1. /\ event' = [status |-> event'.status, started |-> event'.started,
                       joinedCount |-> event'.joinedCount]
          /\ event'.joinedCount = I!GiveBack
      BY <1>2, <2>2
    <3>2. I!GiveBack \in Nat BY <1>2 DEF I!GiveBack
    <3> QED BY <3>1, <3>2 DEF EventRow
  <2> QED BY <1>1, <2>1, <2>2
<1>9. SeatsCovered'
  <2>1. \/ event'.joinedCount = event.joinedCount
        \/ /\ event.joinedCount > 0 /\ event'.joinedCount = event.joinedCount - 1
        \/ /\ event.joinedCount = 0 /\ event'.joinedCount = 0
    BY <1>2, <1>8 DEF I!GiveBack
  <2> QED BY <1>0, <1>2, <1>5, <1>7, <2>1 DEF SeatsCovered
<1> QED BY <1>1, <1>2, <1>3, <1>4, <1>8, <1>9, SlotKeeps

\* A player leaves: the row first, the counter after it.
LEMMA LeaveRowKeeps ==
  ASSUME InvitationInv, IsFiniteSet(Person), IsFiniteSet(Slot),
         NEW s \in Slot, I!LeaveRow(s)
  PROVE  InvitationInv'
<1>0. InvitationShapes /\ AskingHolds /\ SeatsCovered BY DEF InvitationInv
<1> DEFINE q == asking[s]
           op == "leave_count"
           r == [q EXCEPT !.op = op]
<1>1. /\ q.op = "leave_row" /\ IsAsking(q)
      /\ event' = event /\ friends' = friends /\ invitation' = invitation
      /\ player' = [player EXCEPT ![q.on] = "cancelled"]
      /\ asking' = [asking EXCEPT ![s] = r]
  BY <1>0 DEF I!LeaveRow, I!At, I!Advance, I!Proceed, InvitationShapes
<1>2. /\ EventRow' /\ event'.joinedCount = event.joinedCount /\ event.joinedCount \in Nat
      /\ player \in [Person -> {"none", "joined", "cancelled"}]
  BY <1>0, <1>1 DEF InvitationShapes, EventRow
<1>3. /\ q.on \in Person
      /\ Careful => player[q.on] = "joined"
      /\ Careful => \A t \in Slot \ {s} : asking[t].op = "leave_row" =>
           asking[t].on \in Person /\ asking[t].on # q.on /\ player[asking[t].on] = "joined"
  BY <1>0, <1>1 DEF AskingHolds
<1>4. op \notin AcceptOps /\ op = "leave_count" /\ op \in OwedOps BY DEF AcceptOps, OwedOps
<1> HIDE DEF op
<1>5. IsAsking(r) /\ r.op = op BY <1>1, <1>4, AskingAdvances
<1> HIDE DEF r
<1>6. /\ Cardinality(Owed) \in Nat /\ Cardinality(Owed') \in Nat
      /\ Cardinality(Owed') = Cardinality(Owed) + 1
  BY <1>0, <1>1, <1>4, <1>5, OwedSteps DEF OwedOps
<1>7. /\ player' \in [Person -> {"none", "joined", "cancelled"}]
      /\ \A v \in Person : player'[v] = IF v = q.on THEN "cancelled" ELSE player[v]
      /\ Cardinality(I!Joined) \in Nat /\ Cardinality(I!Joined') \in Nat
      /\ player[q.on] = "joined" => Cardinality(I!Joined') = Cardinality(I!Joined) - 1
  BY <1>1, <1>2, <1>3, JoinedSteps
<1>8. SeatsCovered' BY <1>0, <1>2, <1>3, <1>6, <1>7 DEF SeatsCovered
<1>9. /\ \A u \in Person : player[u] # "none" => player'[u] # "none"
      /\ Careful => \A t \in Slot \ {s} : asking[t].op = "leave_row" =>
           player'[asking[t].on] = "joined"
  BY <1>3, <1>7
<1> QED BY <1>1, <1>2, <1>4, <1>5, <1>7, <1>8, <1>9, SlotKeeps

\* The end of a friendship: the row first, the invitations between the two after it.
LEMMA UnfriendKeeps ==
  ASSUME InvitationInv, IsFiniteSet(Person), IsFiniteSet(Slot),
         NEW s \in Slot, NEW u \in Person, NEW v \in Person, I!Unfriend(s, u, v)
  PROVE  InvitationInv'
<1>0. InvitationShapes /\ AskingHolds /\ SeatsCovered /\ AcceptedSeated /\ RestsOn
  BY DEF InvitationInv
<1> DEFINE r == [op |-> "unfriend", on |-> {u, v}]
<1>1. /\ asking[s] = I!Idle /\ asking' = [asking EXCEPT ![s] = r]
      /\ friends' = friends \ {{u, v}}
      /\ event' = event /\ player' = player /\ invitation' = invitation
      /\ \A t \in Slot \ {s} : Careful /\ asking[t].op = "invite" => asking[t].on # {u, v}
  BY DEF I!Unfriend, I!Proceed, I!Overlaps, I!At
<1>2. IsAsking(r) /\ r.op = "unfriend" /\ r.on = {u, v} /\ asking[s].op = "idle"
  BY <1>1, AskingRecords
<1> HIDE DEF r
<1>3. /\ asking' = [t \in Slot |-> asking'[t]]
      /\ \A t \in Slot : asking'[t] = IF t = s THEN r ELSE asking[t]
      /\ \A t \in Slot : IsAsking(asking'[t])
  BY <1>0, <1>1, <1>2, AskingSet
<1>4. InvitationShapes' BY <1>0, <1>1, <1>3 DEF InvitationShapes, EventRow, InvitationRows
<1>5. Cardinality(Owed) \in Nat /\ Cardinality(Owed') = Cardinality(Owed)
  BY <1>0, <1>1, <1>2, OwedSteps DEF OwedOps
<1>6. SeatsCovered'
  <2>1. I!Joined' = I!Joined BY <1>1 DEF I!Joined
  <2> QED BY <1>0, <1>1, <1>5, <2>1 DEF SeatsCovered
<1>7. AskingHolds'
  <2> SUFFICES ASSUME NEW t \in Slot
      PROVE
      /\ asking'[t].op \in AcceptOps =>
           /\ asking'[t].id \in Invitation
           /\ invitation[asking'[t].id].status # "none"
           /\ asking'[t].on = invitation[asking'[t].id].to
           /\ asking'[t].op = "row" => invitation[asking'[t].id].status = "ACCEPTED"
           /\ asking'[t].op = "claim_only" => player[asking'[t].on] # "none"
           /\ asking'[t].op \in {"seat", "claim", "row"} => asking'[t].had # "joined"
      /\ asking'[t].op \in {"join_seat", "join_row", "leave_row"} => asking'[t].on \in Person
      /\ asking'[t].op = "invite" =>
           /\ asking'[t].to \in Person /\ asking'[t].on = {asking'[t].by, asking'[t].to}
           /\ Careful => asking'[t].on \in friends \ {{u, v}}
      /\ Careful /\ asking'[t].op = "leave_row" =>
           /\ player[asking'[t].on] = "joined"
           /\ \A o \in Slot :
                asking'[o].op = "leave_row" /\ asking'[o].on = asking'[t].on => o = t
    BY <1>1 DEF AskingHolds
  <2>1. CASE t = s BY <1>2, <1>3, <2>1 DEF AcceptOps
  <2>2. CASE t # s
    <3>1. asking'[t] = asking[t] BY <1>3, <2>2
    <3>2. Careful /\ asking[t].op = "leave_row" => \A o \in Slot :
            asking'[o].op = "leave_row" /\ asking'[o].on = asking[t].on => o = t
      BY <1>0, <1>2, <1>3 DEF AskingHolds
    <3>3. Careful /\ asking[t].op = "invite" => asking[t].on \in friends \ {{u, v}}
      BY <1>0, <1>1, <2>2 DEF AskingHolds
    <3> QED BY <1>0, <3>1, <3>2, <3>3 DEF AskingHolds
  <2> QED BY <2>1, <2>2
<1>8. AcceptedSeated'
  <2>1. \A t \in Slot : asking[t].op = "row" => asking'[t] = asking[t] BY <1>2, <1>3
  <2> QED BY <1>0, <1>1, <2>1 DEF AcceptedSeated
<1>9. RestsOn'
  <2> SUFFICES ASSUME Careful, NEW i \in Invitation, invitation[i].status = "PENDING"
               PROVE  \/ {invitation[i].by, invitation[i].to} \in friends \ {{u, v}}
                      \/ \E t \in Slot :
                           /\ asking'[t].op = "unfriend"
                           /\ asking'[t].on = {invitation[i].by, invitation[i].to}
    BY <1>1 DEF RestsOn
  <2>1. CASE {invitation[i].by, invitation[i].to} = {u, v}
    <3>1. /\ asking'[s].op = "unfriend"
          /\ asking'[s].on = {invitation[i].by, invitation[i].to}
      BY <1>2, <1>3, <2>1
    <3> QED BY <3>1
  <2>2. CASE {invitation[i].by, invitation[i].to} # {u, v}
    <3>1. \/ {invitation[i].by, invitation[i].to} \in friends
          \/ \E t \in Slot : /\ asking[t].op = "unfriend"
                             /\ asking[t].on = {invitation[i].by, invitation[i].to}
      <4>1. RestsOn BY <1>0
      <4> QED BY ONLY Careful, <4>1, invitation[i].status = "PENDING", i \in Invitation, Zenon
              DEF RestsOn
    <3>2. \A t \in Slot : asking[t].op = "unfriend" => asking'[t] = asking[t]
      BY <1>2, <1>3
    <3>3. ASSUME NEW t \in Slot, asking[t].op = "unfriend",
                 asking[t].on = {invitation[i].by, invitation[i].to}
          PROVE  /\ asking'[t].op = "unfriend"
                 /\ asking'[t].on = {invitation[i].by, invitation[i].to}
      BY <3>2, <3>3
    <3>4. CASE {invitation[i].by, invitation[i].to} \in friends BY <2>2, <3>4
    <3> QED BY <3>1, <3>3, <3>4, Zenon
  <2> QED BY <2>1, <2>2
<1> QED BY <1>4, <1>6, <1>7, <1>8, <1>9 DEF InvitationInv

LEMMA RevokeBetweenKeeps ==
  ASSUME InvitationInv, IsFiniteSet(Person), NEW s \in Slot, I!RevokeBetween(s)
  PROVE  InvitationInv'
<1>0. InvitationShapes BY DEF InvitationInv
<1>1. /\ event' = event /\ player' = player /\ friends' = friends
      /\ asking[s].op = "unfriend" /\ asking' = [asking EXCEPT ![s] = I!Idle]
      /\ invitation' = [i \in Invitation |->
           IF invitation[i].status = "PENDING"
              /\ {invitation[i].by, invitation[i].to} = asking[s].on
           THEN [invitation[i] EXCEPT !.status = "REVOKED"] ELSE invitation[i]]
  BY DEF I!RevokeBetween, I!At, I!Finish, I!Proceed, I!Pending, I!Between
<1>2. \A i \in Invitation :
        invitation[i] = [by |-> invitation[i].by, to |-> invitation[i].to,
                         status |-> invitation[i].status]
  BY <1>0 DEF InvitationShapes, InvitationRows
<1>3. ASSUME NEW i \in Invitation
      PROVE
        /\ \/ invitation'[i] = invitation[i]
           \/ /\ invitation[i].status = "PENDING"
              /\ invitation'[i] = [by |-> invitation[i].by, to |-> invitation[i].to,
                                   status |-> invitation'[i].status]
              /\ invitation'[i].status = "REVOKED"
        /\ invitation'[i].status = "PENDING" =>
             {invitation[i].by, invitation[i].to} # asking[s].on
  <2>1. CASE invitation[i].status = "PENDING"
             /\ {invitation[i].by, invitation[i].to} = asking[s].on
    <3>1. invitation'[i] = [invitation[i] EXCEPT !.status = "REVOKED"] BY <1>1, <2>1
    <3>2. invitation'[i] = [by |-> invitation[i].by, to |-> invitation[i].to,
                            status |-> "REVOKED"]
      BY <1>2, <3>1
    <3>3. invitation'[i].status = "REVOKED" BY <3>2
    <3> QED BY <2>1, <3>2, <3>3
  <2>2. CASE ~(invitation[i].status = "PENDING"
               /\ {invitation[i].by, invitation[i].to} = asking[s].on)
    <3>1. invitation'[i] = invitation[i] BY <1>1, <2>2
    <3> QED BY <2>2, <3>1
  <2> QED BY <2>1, <2>2
<1>4. /\ asking' = [t \in Slot |-> asking'[t]]
      /\ \A t \in Slot : asking'[t] = IF t = s THEN I!Idle ELSE asking[t]
  BY <1>0, <1>1, AskingSet, AskingRecords
<1>5. invitation' = [i \in Invitation |-> invitation'[i]] BY <1>1
<1>6. \A i \in Invitation :
        \/ invitation'[i] = invitation[i]
        \/ /\ invitation[i].status = "PENDING"
           /\ invitation'[i] = [by |-> invitation[i].by, to |-> invitation[i].to,
                                status |-> invitation'[i].status]
           /\ invitation'[i].status = "REVOKED"
  BY <1>3
<1>7. \A t \in Slot :
        \/ asking'[t] = asking[t]
        \/ /\ asking'[t] = I!Idle /\ asking[t].op = "unfriend"
           /\ \A i \in Invitation : invitation'[i].status = "PENDING" =>
                {invitation[i].by, invitation[i].to} # asking[t].on
  <2> SUFFICES ASSUME NEW t \in Slot, t = s
               PROVE  /\ asking'[t] = I!Idle /\ asking[t].op = "unfriend"
                      /\ \A i \in Invitation : invitation'[i].status = "PENDING" =>
                           {invitation[i].by, invitation[i].to} # asking[t].on
    BY <1>4
  <2> QED BY <1>1, <1>3, <1>4
<1> QED BY <1>1, <1>4, <1>5, <1>6, <1>7, AnswerKeeps

\* What goes on without a request: time, the organizer's switch, new friendships.
LEMMA OutsideKeeps ==
  ASSUME InvitationInv,
         \/ \E u, v \in Person : I!Befriend(u, v)
         \/ \E status \in {"join", "preparation"} : I!SetStatus(status)
         \/ I!Starts
  PROVE  InvitationInv'
<1>0. InvitationShapes /\ AskingHolds /\ SeatsCovered /\ AcceptedSeated /\ RestsOn
  BY DEF InvitationInv
<1>1. /\ player' = player /\ invitation' = invitation /\ asking' = asking
      /\ \A pair \in friends : pair \in friends'
  BY DEF I!Befriend, I!SetStatus, I!Starts
<1>2. EventRow' /\ event'.joinedCount = event.joinedCount
  <2>1. /\ event = [status |-> event.status, started |-> event.started,
                    joinedCount |-> event.joinedCount]
        /\ event.joinedCount \in Nat
    BY <1>0 DEF InvitationShapes, EventRow
  <2>2. CASE event' = event BY <2>1, <2>2 DEF EventRow
  <2>3. ASSUME NEW x, event' = [event EXCEPT !.status = x] PROVE <1>2
    <3>1. event' = [status |-> x, started |-> event.started,
                    joinedCount |-> event.joinedCount]
      BY <2>1, <2>3
    <3> QED BY <2>1, <3>1 DEF EventRow
  <2>4. ASSUME NEW x, event' = [event EXCEPT !.started = x] PROVE <1>2
    <3>1. event' = [status |-> event.status, started |-> x,
                    joinedCount |-> event.joinedCount]
      BY <2>1, <2>4
    <3> QED BY <2>1, <3>1 DEF EventRow
  <2> QED BY <2>2, <2>3, <2>4 DEF I!Befriend, I!SetStatus, I!Starts
<1>3. InvitationShapes' BY <1>0, <1>1, <1>2 DEF InvitationShapes, InvitationRows
<1>4. AskingHolds' BY <1>0, <1>1 DEF AskingHolds
<1>5. SeatsCovered'
  <2>1. I!Joined' = I!Joined BY <1>1 DEF I!Joined
  <2>2. Owed' = Owed BY <1>1 DEF Owed
  <2> QED BY <1>0, <1>2, <2>1, <2>2 DEF SeatsCovered
<1>6. AcceptedSeated' BY <1>0, <1>1 DEF AcceptedSeated
<1>7. RestsOn'
  <2>1. \A i \in Invitation : {invitation[i].by, invitation[i].to} \in friends =>
          {invitation[i].by, invitation[i].to} \in friends'
    BY <1>1
  <2> QED BY <1>0, <1>1, <2>1, Zenon DEF RestsOn
<1> QED BY <1>3, <1>4, <1>5, <1>6, <1>7 DEF InvitationInv

LEMMA InvitationNext ==
  ASSUME InvitationInv, IsFiniteSet(Person), IsFiniteSet(Slot), Capacity \in Nat,
         [I!Next]_I!vars
  PROVE  InvitationInv'
<1>1. CASE UNCHANGED I!vars
  <2>1. /\ event' = event /\ player' = player /\ friends' = friends
        /\ invitation' = invitation /\ asking' = asking
    BY <1>1 DEF I!vars, I!store
  <2>2. Owed' = Owed BY <2>1 DEF Owed
  <2>3. I!Joined' = I!Joined BY <2>1 DEF I!Joined
  <2>4. InvitationShapes' BY <2>1 DEF InvitationInv, InvitationShapes, EventRow, InvitationRows
  <2>5. AskingHolds' BY <2>1 DEF InvitationInv, AskingHolds
  <2>6. SeatsCovered' BY <2>1, <2>2, <2>3 DEF InvitationInv, SeatsCovered
  <2>7. AcceptedSeated' BY <2>1 DEF InvitationInv, AcceptedSeated
  <2>8. RestsOn' BY <2>1 DEF InvitationInv, RestsOn
  <2> QED BY <2>4, <2>5, <2>6, <2>7, <2>8 DEF InvitationInv
<1>2. CASE I!Next
  <2>1. ASSUME NEW s \in Slot,
               \/ I!CreateInvitation(s) \/ I!Expire(s) \/ I!ClaimOnly(s) \/ I!Seat(s)
               \/ I!Claim(s) \/ I!PutRow(s) \/ I!Unseat(s) \/ I!RevokeBetween(s)
               \/ I!JoinSeat(s) \/ I!JoinRow(s) \/ I!LeaveRow(s) \/ I!LeaveCount(s)
        PROVE  InvitationInv'
    BY <2>1, CreateInvitationKeeps, SettlesKeep, SeatTaken, SeatUsed, SeatGivenBack,
       RevokeBetweenKeeps, LeaveRowKeeps
  <2> QED BY <1>2, <2>1, BeginsKeep, UnfriendKeeps, AnswersKeep, OutsideKeeps DEF I!Next
<1> QED BY <1>1, <1>2

LEMMA InvitationInit ==
  ASSUME Capacity \in Nat, I!Init
  PROVE  InvitationInv
<1>1. /\ event.joinedCount = 0
      /\ event = [status |-> event.status, started |-> event.started,
                  joinedCount |-> event.joinedCount]
      /\ player = [u \in Person |-> "none"]
      /\ invitation = [i \in Invitation |-> I!NoInvitation]
      /\ asking = [s \in Slot |-> I!Idle]
  BY DEF I!Init
<1>2. /\ I!NoInvitation = [by |-> I!NoInvitation.by, to |-> I!NoInvitation.to,
                           status |-> I!NoInvitation.status]
      /\ I!NoInvitation.status = "none"
  BY DEF I!NoInvitation
<1>3. IsAsking(I!Idle) /\ I!Idle.op = "idle" BY AskingRecords
<1>4. InvitationShapes
  BY <1>1, <1>2, <1>3 DEF InvitationShapes, EventRow, InvitationRows
<1>5. AskingHolds BY <1>1, <1>3 DEF AskingHolds, AcceptOps
<1>6. SeatsCovered
  <2>1. I!Joined = {} BY <1>1 DEF I!Joined
  <2>2. Owed = {} BY <1>1, <1>3 DEF Owed, OwedOps
  <2>3. Cardinality({}) = 0 BY FS_EmptySet
  <2> QED BY <1>1, <2>1, <2>2, <2>3 DEF SeatsCovered
<1>7. AcceptedSeated /\ RestsOn BY <1>1, <1>2 DEF AcceptedSeated, RestsOn
<1> QED BY <1>4, <1>5, <1>6, <1>7 DEF InvitationInv

\* Whatever invitations, acceptances, joins and departures cross: the counter covers
\* the seats taken and promised and stays within maxPlayers; whose invitation was
\* accepted got onto the roster; and a pending invitation rests on a friendship, or on
\* one whose end is being dealt with; if nobody leaves twice at a time, nor invites
\* whom they are just ending the friendship with.
THEOREM InvitationsStaySound ==
  ASSUME Careful, IsFiniteSet(Person), IsFiniteSet(Slot), Capacity \in Nat
  PROVE  I!Spec => []I!InvitationsSound
<1>1. InvitationInv => I!InvitationsSound
  <2> SUFFICES ASSUME InvitationInv PROVE I!InvitationsSound OBVIOUS
  <2>0. InvitationShapes /\ AskingHolds /\ SeatsCovered /\ AcceptedSeated /\ RestsOn
    BY DEF InvitationInv
  <2>1. I!SeatsPromised
    <3> DEFINE holding == {s \in Slot : I!Holding(s)}
    <3>1. holding \subseteq Owed BY DEF Owed, OwedOps, I!Holding
    <3>2. IsFiniteSet(Owed) /\ IsFiniteSet(I!Joined) BY FS_Subset DEF Owed, I!Joined
    <3>3. /\ Cardinality(holding) \in Nat /\ Cardinality(Owed) \in Nat
          /\ Cardinality(I!Joined) \in Nat /\ Cardinality(holding) <= Cardinality(Owed)
      BY <3>1, <3>2, FS_Subset, FS_CardinalityType
    <3>4. /\ event.joinedCount \in Nat
          /\ event.joinedCount >= Cardinality(I!Joined) + Cardinality(Owed)
          /\ event.joinedCount <= Capacity
      BY <2>0 DEF InvitationShapes, EventRow, SeatsCovered
    <3> HIDE DEF holding
    <3>5. event.joinedCount >= Cardinality(I!Joined) + Cardinality(holding) BY <3>3, <3>4
    <3>6. /\ event.joinedCount >=
               Cardinality(I!Joined) + Cardinality({s \in Slot : I!Holding(s)})
          /\ event.joinedCount <= Capacity
      BY <3>4, <3>5, Zenon DEF holding
    <3>7. \A S : I!Cardinality(S) = Cardinality(S) BY Zenon DEF I!Cardinality, Cardinality
    <3>8. /\ I!Cardinality(I!Joined) = Cardinality(I!Joined)
          /\ I!Cardinality({s \in Slot : I!Holding(s)}) =
               Cardinality({s \in Slot : I!Holding(s)})
      BY <3>7, Zenon
    <3>9. event.joinedCount >=
            I!Cardinality(I!Joined) + I!Cardinality({s \in Slot : I!Holding(s)})
      BY <3>6, <3>8, Zenon
    <3> QED BY <3>6, <3>9, Zenon DEF I!SeatsPromised
  <2>2. I!AcceptedGotIn
    BY <2>0 DEF AskingHolds, AcceptedSeated, AcceptOps, I!AcceptedGotIn, I!At
  <2>3. I!RestsOnFriendship
    <3> SUFFICES ASSUME NEW i \in Invitation, invitation[i].status = "PENDING"
                 PROVE  {invitation[i].by, invitation[i].to} \in
                          friends \cup {asking[s].on : s \in {t \in Slot : I!At(t, "unfriend")}}
      BY DEF I!RestsOnFriendship, I!Pending
    <3>1. \/ {invitation[i].by, invitation[i].to} \in friends
          \/ \E t \in Slot : /\ asking[t].op = "unfriend"
                             /\ asking[t].on = {invitation[i].by, invitation[i].to}
      <4>1. RestsOn BY <2>0
      <4> QED BY ONLY Careful, <4>1, invitation[i].status = "PENDING", i \in Invitation, Zenon
              DEF RestsOn
    <3> QED BY <3>1, Zenon DEF I!At
  <2> QED BY <2>1, <2>2, <2>3 DEF I!InvitationsSound
<1>2. I!Init => InvitationInv BY InvitationInit
<1>3. InvitationInv /\ [I!Next]_I!vars => InvitationInv' BY InvitationNext
<1> QED BY <1>1, <1>2, <1>3, PTL DEF I!Spec

-----------------------------------------------------------------------------
(* Challenges: steps *)

LEMMA CallRecords ==
  /\ IsCall(C!Idle) /\ C!Idle.op = "idle"
  /\ \A from, to : IsCall([op |-> "create", from |-> from, to |-> to])
  /\ \A id, answer : IsCall([op |-> "respond", id |-> id, answer |-> answer])
  /\ \A id, side, opponent :
       IsCall([op |-> "event", id |-> id, group |-> side, opponent |-> opponent])
  /\ \A op \in {"type", "link"} : \A id, e, opponent :
       IsCall([op |-> op, id |-> id, event |-> e, opponent |-> opponent])
  /\ \A id, proposal : IsCall([op |-> "propose", id |-> id, proposal |-> proposal])
  /\ \A id : IsCall([op |-> "assign", id |-> id])
  /\ \A id, status, before :
       IsCall([op |-> "status", id |-> id, status |-> status, before |-> before])
<1>1. IsCall(C!Idle) /\ C!Idle.op = "idle" BY DEF C!Idle, IsCall
<1>2. \A from, to : IsCall([op |-> "create", from |-> from, to |-> to]) BY DEF IsCall
<1>3. \A id, answer : IsCall([op |-> "respond", id |-> id, answer |-> answer]) BY DEF IsCall
<1>4. \A id, side, opponent :
        IsCall([op |-> "event", id |-> id, group |-> side, opponent |-> opponent])
  BY DEF IsCall
<1>5. \A op \in {"type", "link"} : \A id, e, opponent :
        IsCall([op |-> op, id |-> id, event |-> e, opponent |-> opponent])
  BY DEF IsCall
<1>6. \A id, proposal : IsCall([op |-> "propose", id |-> id, proposal |-> proposal])
  BY DEF IsCall
<1>7. \A id : IsCall([op |-> "assign", id |-> id]) BY DEF IsCall
<1>8. \A id, status, before :
        IsCall([op |-> "status", id |-> id, status |-> status, before |-> before])
  BY DEF IsCall
<1> QED BY <1>1, <1>2, <1>3, <1>4, <1>5, <1>6, <1>7, <1>8

LEMMA CallSet ==
  ASSUME ChallengeShapes, NEW s \in Slot, NEW r, IsCall(r),
         calling' = [calling EXCEPT ![s] = r]
  PROVE  /\ calling' = [t \in Slot |-> calling'[t]]
         /\ \A t \in Slot : calling'[t] = IF t = s THEN r ELSE calling[t]
         /\ \A t \in Slot : IsCall(calling'[t])
BY DEF ChallengeShapes

\* A request that begins.
LEMMA CallBegins ==
  ASSUME ChallengeInv, NEW s \in Slot, NEW r, IsCall(r), C!Begin(s, r),
         r.op \in {"create", "respond", "event", "propose", "assign", "status"},
         r.op = "respond" =>
           /\ r.id \in ChallengeId /\ challenge[r.id].status = "proposed"
           /\ \A t \in Slot : calling[t].op = "respond" => calling[t].id # r.id,
         r.op = "event" =>
           /\ r.id \in ChallengeId
           /\ challenge[r.id].status = "accepted" /\ challenge[r.id].eventId = Null
           /\ \A t \in Slot : calling[t].op \in Building => calling[t].id # r.id
           /\ \A f \in EventId : match[f].type = "challenge" => match[f].of # r.id
           /\ {r.group, r.opponent} = {challenge[r.id].from, challenge[r.id].to},
         r.op \in {"propose", "assign", "status"} =>
           r.id \in EventId /\ match[r.id].type = "challenge",
         r.op = "propose" =>
           /\ match[r.id].proposal # "accepted"
           /\ \A t \in Slot : calling[t].op = "propose" => calling[t].id # r.id,
         r.op = "assign" => match[r.id].proposal = "accepted",
         r.op = "status" /\ match[r.id].proposal # "accepted" =>
           r.status \in {"join", "cancelled"} /\ r.before \in {Null, "join"}
  PROVE  ChallengeInv'
<1>0. /\ ChallengeShapes /\ Answering /\ Underway /\ Newborn /\ EventsBorn
      /\ Linking /\ MatchesOf /\ PointsBack /\ Judging /\ Waiting
  BY DEF ChallengeInv
<1>1. /\ calling[s] = C!Idle /\ calling' = [calling EXCEPT ![s] = r]
      /\ challenge' = challenge /\ match' = match /\ squad' = squad
  BY DEF C!Begin, C!Proceed, C!store
<1>2. /\ calling' = [t \in Slot |-> calling'[t]]
      /\ \A t \in Slot : calling'[t] = IF t = s THEN r ELSE calling[t]
      /\ \A t \in Slot : IsCall(calling'[t])
  BY <1>0, <1>1, CallSet
<1>3. calling[s].op = "idle" BY <1>1, CallRecords
<1>4. ChallengeShapes' BY <1>0, <1>1, <1>2 DEF ChallengeShapes
<1>5. Answering' BY <1>0, <1>1, <1>2 DEF Answering
<1>6. Underway'
  <2>1. r.op \in Building => r.op = "event" BY DEF Building
  <2>2. \A t \in Slot : calling[t].op \in Building => t # s BY <1>3 DEF Building
  <2> SUFFICES ASSUME NEW o \in Slot, calling'[o].op \in Building
      PROVE
      /\ calling'[o].id \in ChallengeId
      /\ challenge[calling'[o].id].status = "accepted"
      /\ challenge[calling'[o].id].eventId = Null
      /\ \A t \in Slot :
           calling'[t].op \in Building /\ calling'[t].id = calling'[o].id => t = o
      /\ calling'[o].op \in {"event", "type"} =>
           \A f \in EventId : match[f].type = "challenge" => match[f].of # calling'[o].id
      /\ calling'[o].op = "event" =>
           {calling'[o].group, calling'[o].opponent} =
             {challenge[calling'[o].id].from, challenge[calling'[o].id].to}
    BY <1>1 DEF Underway
  <2>3. CASE o = s
    <3>1. calling'[o] = r BY <1>2, <2>3
    <3>2. \A t \in Slot : calling'[t].op \in Building /\ calling'[t].id = r.id => t = o
      BY <1>2, <2>1, <2>3, <3>1
    <3> QED BY <2>1, <3>1, <3>2
  <2>4. CASE o # s
    <3>1. calling'[o] = calling[o] BY <1>2, <2>4
    <3>2. \A t \in Slot :
            calling'[t].op \in Building /\ calling'[t].id = calling[o].id => t = o
      BY <1>0, <1>2, <2>1, <3>1 DEF Underway
    <3> QED BY <1>0, <3>1, <3>2, SMTT(30) DEF Underway
  <2> QED BY <2>3, <2>4
<1>7. Newborn' /\ EventsBorn'
  <2>1. \A t \in Slot : /\ calling[t].op = "type" => calling'[t] = calling[t]
                        /\ calling'[t].op = "type" => calling'[t] = calling[t]
    BY <1>2, <1>3
  <2>2. Newborn'
    <3> SUFFICES ASSUME NEW o \in Slot, calling'[o].op = "type"
        PROVE
        /\ calling'[o].event \in EventId /\ match[calling'[o].event].type = "normal"
        /\ match[calling'[o].event].status = "join"
        /\ match[calling'[o].event].before = Null
        /\ {match[calling'[o].event].group, calling'[o].opponent} =
             {challenge[calling'[o].id].from, challenge[calling'[o].id].to}
        /\ \A t \in Slot :
             calling'[t].op = "type" /\ calling'[t].event = calling'[o].event => t = o
      BY <1>1 DEF Newborn
    <3>1. calling'[o] = calling[o] BY <2>1
    <3>2. /\ calling[o].event \in EventId /\ match[calling[o].event].type = "normal"
          /\ match[calling[o].event].status = "join" /\ match[calling[o].event].before = Null
          /\ {match[calling[o].event].group, calling[o].opponent} =
               {challenge[calling[o].id].from, challenge[calling[o].id].to}
          /\ \A t \in Slot :
               calling[t].op = "type" /\ calling[t].event = calling[o].event => t = o
      BY <1>0, <3>1 DEF Newborn
    <3>3. \A t \in Slot :
            calling'[t].op = "type" /\ calling'[t].event = calling[o].event => t = o
      BY <2>1, <3>2
    <3> QED BY <3>1, <3>2, <3>3
  <2>3. EventsBorn' BY <1>0, <1>1, <2>1 DEF EventsBorn
  <2> QED BY <2>2, <2>3
<1>8. Linking' /\ MatchesOf' /\ PointsBack'
  <2>1. \A t \in Slot : /\ calling[t].op = "link" => calling'[t] = calling[t]
                        /\ calling'[t].op = "link" => calling'[t] = calling[t]
    BY <1>2, <1>3
  <2>2. Linking' BY <1>0, <1>1, <2>1 DEF Linking
  <2>3. MatchesOf' BY <1>0, <1>1, <2>1 DEF MatchesOf
  <2>4. PointsBack' BY <1>0, <1>1 DEF PointsBack
  <2> QED BY <2>2, <2>3, <2>4
<1>9. Judging' BY <1>0, <1>1, <1>2 DEF Judging
<1>10. Waiting' BY <1>0, <1>1, <1>2 DEF Waiting
<1> QED BY <1>4, <1>5, <1>6, <1>7, <1>8, <1>9, <1>10 DEF ChallengeInv

\* Off a match that has not been agreed to leads only the way it may come back from.
LEMMA RequestEnds ==
  ASSUME NEW status \in {"join", "cancelled"},
         C!CanTransition("challenge", status, "cancelled")
  PROVE  status = "join"
<1>1. C!MatchTransitions["cancelled"] = {} BY DEF C!MatchTransitions
<1>2. C!ChallengeTransitions["cancelled"] = C!MatchTransitions["cancelled"]
  BY DEF C!ChallengeTransitions, C!MatchTransitions
<1>3. C!TransitionsFor("challenge") = C!ChallengeTransitions BY DEF C!TransitionsFor
<1>4. "cancelled" \in C!ChallengeTransitions[status] BY <1>3 DEF C!CanTransition
<1> QED BY <1>1, <1>2, <1>4

\* An event that is none yet, or not yet a match, has nobody at it.
LEMMA OnlyMatches ==
  ASSUME ChallengeInv, "birth" \in Ordered, NEW e \in C!Events, ~C!Unborn(e)
  PROVE  e \in EventId /\ match[e].type = "challenge" /\ C!KindOf(e) = "challenge"
<1>1. EventsBorn BY DEF ChallengeInv
<1>2. e \in EventId /\ match[e].type # "none" BY DEF C!Events
<1>3. match[e].type # "normal"
  <2>1. \A s \in Slot : calling[s].op = "type" => calling[s].event # e
    BY DEF C!Unborn, C!At
  <2> QED BY <1>1, <1>2, <2>1 DEF EventsBorn
<1>4. match[e].type = "challenge" BY <1>1, <1>2, <1>3 DEF EventsBorn
<1> QED BY <1>2, <1>4 DEF C!KindOf, C!Matches

LEMMA CallsBegin ==
  ASSUME ChallengeInv, {"answers", "matches", "verdicts", "birth"} \subseteq Ordered,
         Null \notin EventId, NEW s \in Slot,
         \/ \E g, h \in Club : C!Create(s, g, h)
         \/ \E c \in ChallengeId :
              \/ \E answer \in {"accepted", "rejected"} : C!Respond(s, c, answer)
              \/ \E g \in Club : C!Propose(s, c, g)
         \/ \E e \in EventId :
              \/ C!Assign(s, e) \/ C!Resubmit(s, e) \/ C!Cancel(s, e) \/ C!Restore(s, e)
              \/ \E verdict \in {"accepted", "rejected"} : C!Review(s, e, verdict)
              \/ \E to \in C!Status : C!SetStatus(s, e, to)
  PROVE  ChallengeInv'
<1>0. /\ ChallengeShapes /\ Answering /\ Underway /\ Newborn /\ EventsBorn
      /\ Linking /\ MatchesOf /\ PointsBack /\ Judging /\ Waiting
  BY DEF ChallengeInv
<1>1. ASSUME NEW g \in Club, NEW h \in Club, C!Create(s, g, h) PROVE ChallengeInv'
  <2> DEFINE r == [op |-> "create", from |-> g, to |-> h]
  <2>1. IsCall(r) /\ r.op = "create" BY CallRecords
  <2>2. C!Begin(s, r) BY <1>1 DEF C!Create
  <2> HIDE DEF r
  <2> QED BY <2>1, <2>2, CallBegins
<1>2. ASSUME NEW c \in ChallengeId, NEW answer \in {"accepted", "rejected"},
             C!Respond(s, c, answer)
      PROVE  ChallengeInv'
  <2> DEFINE r == [op |-> "respond", id |-> c, answer |-> answer]
  <2>1. IsCall(r) /\ r.op = "respond" /\ r.id = c BY CallRecords
  <2>2. /\ C!Begin(s, r) /\ challenge[c].status = "proposed"
        /\ \A t \in Slot : calling[t].op = "respond" => calling[t].id # c
    BY <1>2 DEF C!Respond, C!Answerable, C!Free, C!InFlight
  <2> HIDE DEF r
  <2> QED BY <2>1, <2>2, CallBegins
<1>3. ASSUME NEW c \in ChallengeId, NEW g \in Club, C!Propose(s, c, g) PROVE ChallengeInv'
  <2> DEFINE h == IF g = challenge[c].from THEN challenge[c].to ELSE challenge[c].from
             r == [op |-> "event", id |-> c, group |-> g, opponent |-> h]
  <2>1. IsCall(r) /\ r.op = "event" /\ r.id = c /\ r.group = g /\ r.opponent = h
    BY CallRecords
  <2>2. /\ C!Begin(s, r) /\ challenge[c].status = "accepted" /\ challenge[c].eventId = Null
        /\ g \in {challenge[c].from, challenge[c].to}
        /\ \A t \in Slot : calling[t].op \in Building => calling[t].id # c
    BY <1>3 DEF C!Propose, C!Open, C!Free, C!InFlight, Building
  <2>3. {g, h} = {challenge[c].from, challenge[c].to} BY <2>2
  <2>4. \A f \in EventId : match[f].type = "challenge" => match[f].of # c
    <3> SUFFICES ASSUME NEW f \in EventId, match[f].type = "challenge", match[f].of = c
                 PROVE  FALSE
      OBVIOUS
    <3>1. PICK t \in Slot : calling[t].op = "link" /\ calling[t].event = f
      BY <1>0, <2>2 DEF MatchesOf
    <3>2. calling[t].id = c BY <1>0, <3>1 DEF Linking
    <3> QED BY <2>2, <3>1, <3>2 DEF Building
  <2> HIDE DEF r, h
  <2> QED BY <2>1, <2>2, <2>3, <2>4, CallBegins
<1>4. ASSUME NEW e \in EventId, C!Assign(s, e) PROVE ChallengeInv'
  <2> DEFINE r == [op |-> "assign", id |-> e]
  <2>1. IsCall(r) /\ r.op = "assign" /\ r.id = e BY CallRecords
  <2>2. C!Begin(s, r) /\ match[e].type = "challenge" /\ match[e].proposal = "accepted"
    BY <1>4 DEF C!Assign, C!Agreed, C!Matches
  <2> HIDE DEF r
  <2> QED BY <2>1, <2>2, CallBegins
<1>5. ASSUME NEW e \in EventId, NEW verdict,
             \/ C!Resubmit(s, e) /\ verdict = "proposed"
             \/ C!Review(s, e, verdict)
      PROVE  ChallengeInv'
  <2> DEFINE r == [op |-> "propose", id |-> e, proposal |-> verdict]
  <2>1. IsCall(r) /\ r.op = "propose" /\ r.id = e BY CallRecords
  <2>2. /\ C!Begin(s, r) /\ match[e].type = "challenge"
        /\ match[e].proposal \in {"proposed", "rejected"}
        /\ \A t \in Slot : calling[t].op = "propose" => calling[t].id # e
    BY <1>5 DEF C!Resubmit, C!Revisable, C!Review, C!Matches, C!Free, C!InFlight
  <2> HIDE DEF r
  <2>3. match[e].proposal # "accepted" BY <2>2
  <2> QED BY <2>1, <2>2, <2>3, CallBegins
<1>6. ASSUME NEW e \in EventId, NEW status, NEW before,
             C!Begin(s, [op |-> "status", id |-> e, status |-> status, before |-> before]),
             match[e].type = "challenge",
             match[e].proposal # "accepted" =>
               status \in {"join", "cancelled"} /\ before \in {Null, "join"}
      PROVE  ChallengeInv'
  <2> DEFINE r == [op |-> "status", id |-> e, status |-> status, before |-> before]
  <2>1. IsCall(r) /\ r.op = "status" /\ r.id = e /\ r.status = status /\ r.before = before
    BY CallRecords
  <2>2. C!Begin(s, r) BY <1>6
  <2> HIDE DEF r
  <2> QED BY <1>6, <2>1, <2>2, CallBegins
<1>7. ASSUME NEW e \in EventId, NEW to \in C!Status, C!SetStatus(s, e, to) PROVE ChallengeInv'
  <2>1. e \in C!Events /\ ~C!Unborn(e) BY <1>7 DEF C!SetStatus
  <2>2. match[e].type = "challenge" BY <2>1, OnlyMatches
  <2>3. match[e].proposal = "accepted" BY <1>7, <2>2 DEF C!SetStatus, C!Agreed, C!Matches
  <2>4. C!Begin(s, [op |-> "status", id |-> e, status |-> to, before |-> match[e].before])
    BY <1>7 DEF C!SetStatus
  <2> QED BY <1>6, <2>2, <2>3, <2>4
<1>8. ASSUME NEW e \in EventId, C!Cancel(s, e) PROVE ChallengeInv'
  <2>1. e \in C!Events /\ ~C!Unborn(e) BY <1>8 DEF C!Cancel
  <2>2. match[e].type = "challenge" /\ C!KindOf(e) = "challenge" BY <2>1, OnlyMatches
  <2>3. C!CanTransition("challenge", match[e].status, "cancelled")
    BY <1>8, <2>2 DEF C!Cancel
  <2>4. match[e].proposal # "accepted" => match[e].status = "join"
    BY <1>0, <2>2, <2>3, RequestEnds DEF Waiting
  <2>5. C!Begin(s, [op |-> "status", id |-> e, status |-> "cancelled",
                    before |-> match[e].status])
    BY <1>8 DEF C!Cancel
  <2> QED BY <1>6, <2>2, <2>4, <2>5
<1>9. ASSUME NEW e \in EventId, C!Restore(s, e) PROVE ChallengeInv'
  <2>1. e \in C!Events /\ ~C!Unborn(e) BY <1>9 DEF C!Restore
  <2>2. match[e].type = "challenge" BY <2>1, OnlyMatches
  <2> DEFINE back == IF match[e].before = Null THEN "join" ELSE match[e].before
  <2>3. match[e].proposal # "accepted" => back = "join" BY <1>0, <2>2 DEF Waiting
  <2>4. C!Begin(s, [op |-> "status", id |-> e, before |-> Null, status |-> back])
    BY <1>9 DEF C!Restore
  <2> HIDE DEF back
  <2>5. C!Begin(s, [op |-> "status", id |-> e, status |-> back, before |-> Null])
    <3>1. [op |-> "status", id |-> e, before |-> Null, status |-> back] =
            [op |-> "status", id |-> e, status |-> back, before |-> Null]
      OBVIOUS
    <3> QED BY <2>4, <3>1
  <2> QED BY <1>6, <2>2, <2>3, <2>5
<1> QED BY <1>1, <1>2, <1>3, <1>4, <1>5, <1>7, <1>8, <1>9

\* A step that leaves the matches alone, and of the challenges answers open ones, or
\* adds some.
LEMMA ChallengesMove ==
  ASSUME ChallengeInv, match' = match, squad' = squad,
         challenge' = [c \in ChallengeId |-> challenge'[c]],
         \A c \in ChallengeId :
           /\ challenge'[c] = [from |-> challenge'[c].from, to |-> challenge'[c].to,
                               status |-> challenge'[c].status,
                               eventId |-> challenge'[c].eventId,
                               unread |-> challenge'[c].unread]
           /\ \/ challenge[c].status = "none" /\ challenge'[c].eventId = Null
              \/ /\ challenge'[c].from = challenge[c].from /\ challenge'[c].to = challenge[c].to
                 /\ challenge'[c].eventId = challenge[c].eventId
                 /\ \/ challenge'[c].status = challenge[c].status
                    \/ /\ challenge[c].status = "proposed"
                       /\ \A t \in Slot : calling'[t].op = "respond" => calling'[t].id # c,
         calling' = [t \in Slot |-> calling'[t]],
         \A t \in Slot :
           \/ calling'[t] = calling[t]
           \/ calling'[t] = C!Idle /\ calling[t].op \in {"create", "respond"}
  PROVE  ChallengeInv'
<1>0. /\ ChallengeShapes /\ Answering /\ Underway /\ Newborn /\ EventsBorn
      /\ Linking /\ MatchesOf /\ PointsBack /\ Judging /\ Waiting
  BY DEF ChallengeInv
<1>1. \A t \in Slot :
        /\ IsCall(calling'[t])
        /\ calling'[t].op # "idle" => calling'[t] = calling[t]
        /\ calling[t].op \notin {"create", "respond"} => calling'[t] = calling[t]
  BY <1>0, CallRecords DEF ChallengeShapes
<1>2. \A c \in ChallengeId : challenge[c].status = "accepted" =>
        /\ challenge'[c].status = "accepted" /\ challenge'[c].eventId = challenge[c].eventId
        /\ challenge'[c].from = challenge[c].from /\ challenge'[c].to = challenge[c].to
  OBVIOUS
<1>3. ChallengeShapes' BY <1>0, <1>1 DEF ChallengeShapes
<1>4. Answering'
  <2> SUFFICES ASSUME NEW o \in Slot, calling'[o].op = "respond"
      PROVE
      /\ calling'[o].id \in ChallengeId /\ challenge'[calling'[o].id].status = "proposed"
      /\ \A t \in Slot :
           calling'[t].op = "respond" /\ calling'[t].id = calling'[o].id => t = o
    BY DEF Answering
  <2>1. calling'[o] = calling[o] BY <1>1
  <2>2. /\ calling[o].id \in ChallengeId /\ challenge[calling[o].id].status = "proposed"
        /\ \A t \in Slot : calling[t].op = "respond" /\ calling[t].id = calling[o].id => t = o
    BY <1>0, <2>1 DEF Answering
  <2>3. challenge'[calling[o].id].status = "proposed" BY <2>1, <2>2
  <2>4. \A t \in Slot : calling'[t].op = "respond" => calling'[t] = calling[t] BY <1>1
  <2> QED BY <2>1, <2>2, <2>3, <2>4
<1>5. Underway'
  <2> SUFFICES ASSUME NEW o \in Slot, calling'[o].op \in Building
      PROVE
      /\ calling'[o].id \in ChallengeId
      /\ challenge'[calling'[o].id].status = "accepted"
      /\ challenge'[calling'[o].id].eventId = Null
      /\ \A t \in Slot :
           calling'[t].op \in Building /\ calling'[t].id = calling'[o].id => t = o
      /\ calling'[o].op \in {"event", "type"} =>
           \A f \in EventId : match[f].type = "challenge" => match[f].of # calling'[o].id
      /\ calling'[o].op = "event" =>
           {calling'[o].group, calling'[o].opponent} =
             {challenge'[calling'[o].id].from, challenge'[calling'[o].id].to}
    BY DEF Underway
  <2>1. \A t \in Slot : calling'[t].op \in Building => calling'[t] = calling[t]
    BY <1>1 DEF Building
  <2>2. calling'[o] = calling[o] BY <2>1
  <2>3. /\ calling[o].id \in ChallengeId
        /\ challenge[calling[o].id].status = "accepted"
        /\ challenge[calling[o].id].eventId = Null
        /\ \A t \in Slot : calling[t].op \in Building /\ calling[t].id = calling[o].id => t = o
        /\ calling[o].op \in {"event", "type"} =>
             \A f \in EventId : match[f].type = "challenge" => match[f].of # calling[o].id
        /\ calling[o].op = "event" =>
             {calling[o].group, calling[o].opponent} =
               {challenge[calling[o].id].from, challenge[calling[o].id].to}
    BY <1>0, <2>2 DEF Underway
  <2>4. /\ challenge'[calling[o].id].status = "accepted"
        /\ challenge'[calling[o].id].eventId = Null
        /\ challenge'[calling[o].id].from = challenge[calling[o].id].from
        /\ challenge'[calling[o].id].to = challenge[calling[o].id].to
    BY <1>2, <2>3
  <2>5. \A t \in Slot :
          calling'[t].op \in Building /\ calling'[t].id = calling[o].id => t = o
    BY <2>1, <2>3
  <2> QED BY <2>2, <2>3, <2>4, <2>5, SMTT(30)
<1>6. Newborn' /\ EventsBorn'
  <2>1. \A t \in Slot : /\ calling[t].op = "type" => calling'[t] = calling[t]
                        /\ calling'[t].op = "type" => calling'[t] = calling[t]
    BY <1>1
  <2>2. \A t \in Slot : calling[t].op = "type" =>
          /\ challenge'[calling[t].id].from = challenge[calling[t].id].from
          /\ challenge'[calling[t].id].to = challenge[calling[t].id].to
    BY <1>0, <1>2 DEF Underway, Building
  <2>3. Newborn'
    <3> SUFFICES ASSUME NEW o \in Slot, calling'[o].op = "type"
        PROVE
        /\ calling'[o].event \in EventId /\ match[calling'[o].event].type = "normal"
        /\ match[calling'[o].event].status = "join"
        /\ match[calling'[o].event].before = Null
        /\ {match[calling'[o].event].group, calling'[o].opponent} =
             {challenge'[calling'[o].id].from, challenge'[calling'[o].id].to}
        /\ \A t \in Slot :
             calling'[t].op = "type" /\ calling'[t].event = calling'[o].event => t = o
      BY DEF Newborn
    <3>1. calling'[o] = calling[o] BY <2>1
    <3>2. /\ calling[o].event \in EventId /\ match[calling[o].event].type = "normal"
          /\ match[calling[o].event].status = "join" /\ match[calling[o].event].before = Null
          /\ {match[calling[o].event].group, calling[o].opponent} =
               {challenge[calling[o].id].from, challenge[calling[o].id].to}
          /\ \A t \in Slot :
               calling[t].op = "type" /\ calling[t].event = calling[o].event => t = o
      <4>1. calling[o].op = "type" BY <3>1
      <4>2. Newborn BY <1>0
      <4> QED BY ONLY <4>1, <4>2, o \in Slot DEF Newborn
    <3>3. \A t \in Slot :
            calling'[t].op = "type" /\ calling'[t].event = calling[o].event => t = o
      BY <2>1, <3>2
    <3>4. {challenge'[calling[o].id].from, challenge'[calling[o].id].to} =
            {challenge[calling[o].id].from, challenge[calling[o].id].to}
      BY <2>2, <3>1
    <3> QED BY ONLY <3>1, <3>2, <3>3, <3>4
  <2>4. EventsBorn' BY <1>0, <2>1 DEF EventsBorn
  <2> QED BY <2>3, <2>4
<1>7. Linking' /\ MatchesOf' /\ PointsBack'
  <2>1. \A t \in Slot : /\ calling[t].op = "link" => calling'[t] = calling[t]
                        /\ calling'[t].op = "link" => calling'[t] = calling[t]
    BY <1>1
  <2>2. \A e \in EventId : match[e].type = "challenge" =>
          /\ challenge'[match[e].of].status = "accepted"
          /\ challenge'[match[e].of].eventId = challenge[match[e].of].eventId
          /\ challenge'[match[e].of].from = challenge[match[e].of].from
          /\ challenge'[match[e].of].to = challenge[match[e].of].to
    BY <1>0, <1>2 DEF MatchesOf
  <2>3. \A c \in ChallengeId : challenge'[c].eventId # Null =>
          challenge'[c].eventId = challenge[c].eventId
    OBVIOUS
  <2>4. Linking' BY <1>0, <2>1 DEF Linking
  <2>5. MatchesOf'
    <3> SUFFICES ASSUME NEW e \in EventId, match[e].type = "challenge"
        PROVE
        /\ match[e].of \in ChallengeId /\ challenge'[match[e].of].status = "accepted"
        /\ {match[e].group, match[e].opponent} =
             {challenge'[match[e].of].from, challenge'[match[e].of].to}
        /\ \/ challenge'[match[e].of].eventId = e
           \/ \E s \in Slot : calling'[s].op = "link" /\ calling'[s].event = e
        /\ \A f \in EventId :
             match[f].type = "challenge" /\ match[f].of = match[e].of => f = e
      BY ZenonT(30) DEF MatchesOf
    <3>1. /\ match[e].of \in ChallengeId
          /\ {match[e].group, match[e].opponent} =
               {challenge[match[e].of].from, challenge[match[e].of].to}
          /\ \/ challenge[match[e].of].eventId = e
             \/ \E s \in Slot : calling[s].op = "link" /\ calling[s].event = e
          /\ \A f \in EventId :
               match[f].type = "challenge" /\ match[f].of = match[e].of => f = e
      BY <1>0 DEF MatchesOf
    <3>2. {challenge'[match[e].of].from, challenge'[match[e].of].to} =
            {challenge[match[e].of].from, challenge[match[e].of].to}
      BY <2>2
    <3> QED BY <2>1, <2>2, <3>1, <3>2, ZenonT(30)
  <2>6. PointsBack' BY <1>0, <2>3 DEF PointsBack
  <2> QED BY <2>4, <2>5, <2>6
<1>8. Judging' BY <1>0, <1>1 DEF Judging
<1>9. Waiting' BY <1>0, <1>1 DEF Waiting
<1> QED BY <1>3, <1>4, <1>5, <1>6, <1>7, <1>8, <1>9 DEF ChallengeInv

\* A challenge keeps its form, whatever becomes of one of its fields.
LEMMA ChallengeFields ==
  ASSUME NEW p, p = [from |-> p.from, to |-> p.to, status |-> p.status,
                     eventId |-> p.eventId, unread |-> p.unread],
         NEW q, NEW x,
         \/ q = [p EXCEPT !.status = x]
         \/ q = [p EXCEPT !.eventId = x]
         \/ x \in BOOLEAN /\ q = [p EXCEPT !.unread = x]
  PROVE  /\ q = [from |-> q.from, to |-> q.to, status |-> q.status,
                 eventId |-> q.eventId, unread |-> q.unread]
         /\ q.from = p.from /\ q.to = p.to
         /\ q = [p EXCEPT !.status = x] => q.status = x /\ q.eventId = p.eventId
         /\ q = [p EXCEPT !.eventId = x] => q.status = p.status /\ q.eventId = x
         /\ q = [p EXCEPT !.unread = x] => q.status = p.status /\ q.eventId = p.eventId
OBVIOUS

LEMMA NewChallenge ==
  ASSUME NEW p, p = [from |-> p.from, to |-> p.to, status |-> p.status,
                     eventId |-> p.eventId, unread |-> p.unread],
         NEW q, NEW from, NEW to, NEW unread \in BOOLEAN,
         q = [p EXCEPT !.from = from, !.to = to, !.status = "proposed", !.unread = unread]
  PROVE  /\ q = [from |-> q.from, to |-> q.to, status |-> q.status,
                 eventId |-> q.eventId, unread |-> q.unread]
         /\ q.eventId = p.eventId
OBVIOUS

LEMMA ChallengeSteps ==
  ASSUME ChallengeInv,
         \/ \E s \in Slot : C!Insert(s) \/ C!SaveAnswer(s)
         \/ \E g \in Club : C!MarkRead(g)
  PROVE  ChallengeInv'
<1>0. ChallengeShapes /\ Answering BY DEF ChallengeInv
<1>1. \A c \in ChallengeId :
        challenge[c] = [from |-> challenge[c].from, to |-> challenge[c].to,
                        status |-> challenge[c].status, eventId |-> challenge[c].eventId,
                        unread |-> challenge[c].unread]
  BY <1>0 DEF ChallengeShapes
<1>2. ASSUME NEW s \in Slot, C!Insert(s) PROVE ChallengeInv'
  <2> DEFINE new == [C!NoChallenge EXCEPT !.from = calling[s].from, !.to = calling[s].to,
                                          !.status = "proposed", !.unread = TRUE]
  <2>1. PICK i \in ChallengeId : challenge[i].status = "none"
                                 /\ challenge' = [challenge EXCEPT ![i] = new]
    BY <1>2 DEF C!Insert
  <2>2. /\ new = [from |-> new.from, to |-> new.to, status |-> new.status,
                  eventId |-> new.eventId, unread |-> new.unread]
        /\ new.eventId = Null
    <3> DEFINE none == C!NoChallenge
               unread == TRUE
    <3>1. /\ none = [from |-> none.from, to |-> none.to, status |-> none.status,
                     eventId |-> none.eventId, unread |-> none.unread]
          /\ none.eventId = Null
      BY DEF C!NoChallenge
    <3>2. new = [none EXCEPT !.from = calling[s].from, !.to = calling[s].to,
                             !.status = "proposed", !.unread = unread]
      OBVIOUS
    <3>3. unread \in BOOLEAN OBVIOUS
    <3> HIDE DEF none, unread, new
    <3> QED BY <3>1, <3>2, <3>3, NewChallenge
  <2> HIDE DEF new
  <2>3. /\ match' = match /\ squad' = squad /\ calling[s].op = "create"
        /\ calling' = [calling EXCEPT ![s] = C!Idle]
    BY <1>2 DEF C!Insert, C!At, C!Finish, C!Proceed
  <2>4. /\ calling' = [t \in Slot |-> calling'[t]]
        /\ \A t \in Slot : calling'[t] = IF t = s THEN C!Idle ELSE calling[t]
    BY <1>0, <2>3, CallSet, CallRecords
  <2>5. /\ challenge' = [c \in ChallengeId |-> challenge'[c]]
        /\ \A c \in ChallengeId : challenge'[c] = IF c = i THEN new ELSE challenge[c]
    BY <1>0, <2>1 DEF ChallengeShapes
  <2> QED BY <1>1, <2>1, <2>2, <2>3, <2>4, <2>5, ChallengesMove
<1>3. ASSUME NEW s \in Slot, C!SaveAnswer(s) PROVE ChallengeInv'
  <2> DEFINE c == calling[s].id
             x == calling[s].answer
  <2>1. /\ match' = match /\ squad' = squad /\ calling[s].op = "respond"
        /\ calling' = [calling EXCEPT ![s] = C!Idle]
        /\ challenge' = [challenge EXCEPT ![c].status = x]
    BY <1>3 DEF C!SaveAnswer, C!At, C!Finish, C!Proceed
  <2>2. /\ c \in ChallengeId /\ challenge[c].status = "proposed"
        /\ \A t \in Slot : calling[t].op = "respond" /\ calling[t].id = c => t = s
    BY <1>0, <2>1 DEF Answering
  <2>3. /\ calling' = [t \in Slot |-> calling'[t]]
        /\ \A t \in Slot : calling'[t] = IF t = s THEN C!Idle ELSE calling[t]
    BY <1>0, <2>1, CallSet, CallRecords
  <2>4. \A t \in Slot : calling'[t].op = "respond" => calling'[t].id # c
    BY <2>2, <2>3, CallRecords
  <2>5. /\ challenge' = [d \in ChallengeId |-> challenge'[d]]
        /\ \A d \in ChallengeId : d # c => challenge'[d] = challenge[d]
        /\ challenge'[c] = [challenge[c] EXCEPT !.status = x]
    BY <1>0, <2>1, <2>2 DEF ChallengeShapes
  <2> HIDE DEF c, x
  <2>6. /\ challenge'[c] = [from |-> challenge'[c].from, to |-> challenge'[c].to,
                            status |-> challenge'[c].status,
                            eventId |-> challenge'[c].eventId,
                            unread |-> challenge'[c].unread]
        /\ challenge'[c].from = challenge[c].from /\ challenge'[c].to = challenge[c].to
        /\ challenge'[c].eventId = challenge[c].eventId
    BY <1>1, <2>2, <2>5, ChallengeFields
  <2> QED BY <1>1, <2>1, <2>2, <2>3, <2>4, <2>5, <2>6, ChallengesMove, SMTT(30)
<1>4. ASSUME NEW g \in Club, C!MarkRead(g) PROVE ChallengeInv'
  <2>1. /\ match' = match /\ squad' = squad /\ calling' = calling
        /\ challenge' = [c \in ChallengeId |->
             [challenge[c] EXCEPT !.unread = @ /\ challenge[c].to # g]]
    BY <1>4 DEF C!MarkRead
  <2>2. ASSUME NEW c \in ChallengeId
        PROVE  /\ challenge'[c] = [from |-> challenge'[c].from, to |-> challenge'[c].to,
                                   status |-> challenge'[c].status,
                                   eventId |-> challenge'[c].eventId,
                                   unread |-> challenge'[c].unread]
               /\ challenge'[c].from = challenge[c].from /\ challenge'[c].to = challenge[c].to
               /\ challenge'[c].eventId = challenge[c].eventId
               /\ challenge'[c].status = challenge[c].status
    <3> DEFINE x == challenge[c].unread /\ challenge[c].to # g
    <3>1. challenge'[c] = [challenge[c] EXCEPT !.unread = x] BY <2>1
    <3>2. x \in BOOLEAN OBVIOUS
    <3> HIDE DEF x
    <3> QED BY <1>1, <3>1, <3>2, ChallengeFields
  <2>3. challenge' = [c \in ChallengeId |-> challenge'[c]] BY <2>1
  <2>4. calling' = [t \in Slot |-> calling'[t]] /\ \A t \in Slot : calling'[t] = calling[t]
    BY <1>0, <2>1 DEF ChallengeShapes
  <2> QED BY <2>1, <2>2, <2>3, <2>4, ChallengesMove
<1> QED BY <1>2, <1>3, <1>4

\* A step that moves the proposal of a match, or its status.
LEMMA MatchesMove ==
  ASSUME ChallengeInv, challenge' = challenge, squad' = squad,
         match' = [e \in EventId |-> match'[e]],
         \A e \in EventId :
           /\ match'[e] = [type |-> match'[e].type, of |-> match'[e].of,
                           group |-> match'[e].group, opponent |-> match'[e].opponent,
                           proposal |-> match'[e].proposal, status |-> match'[e].status,
                           before |-> match'[e].before]
           /\ match'[e].type = match[e].type /\ match'[e].of = match[e].of
           /\ match'[e].group = match[e].group /\ match'[e].opponent = match[e].opponent
           /\ match[e].type # "challenge" => match'[e] = match[e]
           /\ match[e].proposal = "accepted" => match'[e].proposal = "accepted"
           /\ match[e].type = "challenge" /\ match'[e].proposal # "accepted" =>
                match'[e].status \in {"join", "cancelled"} /\ match'[e].before \in {Null, "join"},
         calling' = [t \in Slot |-> calling'[t]],
         \A t \in Slot :
           \/ calling'[t] = calling[t]
           \/ calling'[t] = C!Idle /\ calling[t].op \in {"propose", "status"},
         \A t \in Slot : calling'[t].op = "propose" => match'[calling[t].id].proposal # "accepted"
  PROVE  ChallengeInv'
<1>0. /\ ChallengeShapes /\ Answering /\ Underway /\ Newborn /\ EventsBorn
      /\ Linking /\ MatchesOf /\ PointsBack /\ Judging /\ Waiting
  BY DEF ChallengeInv
<1>1. \A t \in Slot :
        /\ IsCall(calling'[t])
        /\ calling'[t].op # "idle" => calling'[t] = calling[t]
        /\ calling[t].op \notin {"propose", "status"} => calling'[t] = calling[t]
  BY <1>0, CallRecords DEF ChallengeShapes
<1>2. \A e \in EventId :
        /\ match'[e].type = match[e].type /\ match'[e].of = match[e].of
        /\ match'[e].group = match[e].group /\ match'[e].opponent = match[e].opponent
        /\ match[e].type # "challenge" => match'[e] = match[e]
        /\ match[e].proposal = "accepted" => match'[e].proposal = "accepted"
  OBVIOUS
<1>3. ChallengeShapes' BY <1>0, <1>1 DEF ChallengeShapes
<1>4. Answering' BY <1>0, <1>1 DEF Answering
<1>5. Underway'
  <2>1. \A t \in Slot : /\ calling'[t].op \in Building => calling'[t] = calling[t]
                        /\ calling[t].op \in Building => calling'[t] = calling[t]
    BY <1>1 DEF Building
  <2>2. Underway /\ challenge' = challenge BY <1>0
  <2> QED BY ONLY <2>1, <2>2, <1>2 DEF Underway
<1>6. Newborn' /\ EventsBorn'
  <2>1. \A t \in Slot : /\ calling[t].op = "type" => calling'[t] = calling[t]
                        /\ calling'[t].op = "type" => calling'[t] = calling[t]
    BY <1>1
  <2>2. Newborn'
    <3> SUFFICES ASSUME NEW o \in Slot, calling'[o].op = "type"
        PROVE
        /\ calling'[o].event \in EventId /\ match'[calling'[o].event].type = "normal"
        /\ match'[calling'[o].event].status = "join"
        /\ match'[calling'[o].event].before = Null
        /\ {match'[calling'[o].event].group, calling'[o].opponent} =
             {challenge[calling'[o].id].from, challenge[calling'[o].id].to}
        /\ \A t \in Slot :
             calling'[t].op = "type" /\ calling'[t].event = calling'[o].event => t = o
      BY DEF Newborn
    <3>1. calling'[o] = calling[o] BY <2>1
    <3>2. /\ calling[o].event \in EventId /\ match[calling[o].event].type = "normal"
          /\ match[calling[o].event].status = "join" /\ match[calling[o].event].before = Null
          /\ {match[calling[o].event].group, calling[o].opponent} =
               {challenge[calling[o].id].from, challenge[calling[o].id].to}
          /\ \A t \in Slot :
               calling[t].op = "type" /\ calling[t].event = calling[o].event => t = o
      <4>1. calling[o].op = "type" BY <3>1
      <4>2. Newborn BY <1>0
      <4> QED BY ONLY <4>1, <4>2, o \in Slot DEF Newborn
    <3>3. \A t \in Slot :
            calling'[t].op = "type" /\ calling'[t].event = calling[o].event => t = o
      BY <2>1, <3>2
    <3>4. match'[calling[o].event] = match[calling[o].event] BY <1>2, <3>2
    <3> QED BY ONLY <3>1, <3>2, <3>3, <3>4
  <2>3. EventsBorn' BY ONLY <1>0, <1>2, <2>1 DEF EventsBorn
  <2> QED BY <2>2, <2>3
<1>7. Linking' /\ MatchesOf' /\ PointsBack'
  <2>1. \A t \in Slot : /\ calling[t].op = "link" => calling'[t] = calling[t]
                        /\ calling'[t].op = "link" => calling'[t] = calling[t]
    BY <1>1
  <2>2. challenge' = challenge OBVIOUS
  <2>3. Linking' BY ONLY <1>0, <1>2, <2>1 DEF Linking
  <2>4. MatchesOf' BY ONLY <1>0, <1>2, <2>1, <2>2 DEF MatchesOf
  <2>5. PointsBack' BY ONLY <1>0, <1>2, <2>2 DEF PointsBack
  <2> QED BY <2>3, <2>4, <2>5
<1>8. Judging'
  <2>1. \A t \in Slot : calling'[t].op = "propose" => calling'[t] = calling[t] BY <1>1
  <2>2. \A t \in Slot : calling'[t].op = "propose" =>
          match'[calling[t].id].proposal # "accepted"
    OBVIOUS
  <2> QED BY ONLY <1>0, <1>2, <2>1, <2>2 DEF Judging
<1>9. Waiting'
  <2>1. \A t \in Slot : calling'[t].op \in {"assign", "status"} => calling'[t] = calling[t]
    BY <1>1
  <2>2. \A e \in EventId : match[e].type = "challenge" /\ match'[e].proposal # "accepted" =>
          match'[e].status \in {"join", "cancelled"} /\ match'[e].before \in {Null, "join"}
    OBVIOUS
  <2>3. squad' = squad OBVIOUS
  <2> QED BY ONLY <1>0, <1>2, <2>1, <2>2, <2>3 DEF Waiting
<1> QED BY <1>3, <1>4, <1>5, <1>6, <1>7, <1>8, <1>9 DEF ChallengeInv

\* A match keeps its form, whatever its proposal or its status.
LEMMA MatchFields ==
  ASSUME NEW p, p = [type |-> p.type, of |-> p.of, group |-> p.group,
                     opponent |-> p.opponent, proposal |-> p.proposal,
                     status |-> p.status, before |-> p.before],
         NEW q, NEW x, NEW y
  PROVE  /\ q = [p EXCEPT !.proposal = x] =>
              q = [type |-> p.type, of |-> p.of, group |-> p.group, opponent |-> p.opponent,
                   proposal |-> x, status |-> p.status, before |-> p.before]
         /\ q = [p EXCEPT !.type = x, !.group = y] =>
              q = [type |-> x, of |-> p.of, group |-> y, opponent |-> p.opponent,
                   proposal |-> p.proposal, status |-> p.status, before |-> p.before]
         /\ q = [p EXCEPT !.type = "challenge", !.of = x, !.opponent = y, !.proposal = "proposed"] =>
              q = [type |-> "challenge", of |-> x, group |-> p.group, opponent |-> y,
                   proposal |-> "proposed", status |-> p.status, before |-> p.before]
         /\ q = [p EXCEPT !.status = x, !.before = y] =>
              q = [type |-> p.type, of |-> p.of, group |-> p.group, opponent |-> p.opponent,
                   proposal |-> p.proposal, status |-> x, before |-> y]
OBVIOUS

LEMMA MatchSteps ==
  ASSUME ChallengeInv, NEW s \in Slot, C!SaveProposal(s) \/ C!SaveStatus(s)
  PROVE  ChallengeInv'
<1>0. ChallengeShapes /\ EventsBorn /\ Judging /\ Waiting BY DEF ChallengeInv
<1> DEFINE e == calling[s].id
<1>1. /\ challenge' = challenge /\ squad' = squad /\ calling[s].op \in {"propose", "status"}
      /\ calling' = [calling EXCEPT ![s] = C!Idle]
  BY DEF C!SaveProposal, C!SaveStatus, C!At, C!Finish, C!Proceed
<1>2. /\ e \in EventId /\ match[e].type = "challenge"
      /\ calling[s].op = "propose" =>
           /\ match[e].proposal # "accepted"
           /\ \A t \in Slot : calling[t].op = "propose" /\ calling[t].id = e => t = s
      /\ calling[s].op = "status" /\ match[e].proposal # "accepted" =>
           calling[s].status \in {"join", "cancelled"} /\ calling[s].before \in {Null, "join"}
      /\ match[e].proposal # "accepted" =>
           match[e].status \in {"join", "cancelled"} /\ match[e].before \in {Null, "join"}
  BY <1>0, <1>1 DEF Judging, Waiting
<1>3. /\ calling' = [t \in Slot |-> calling'[t]]
      /\ \A t \in Slot : calling'[t] = IF t = s THEN C!Idle ELSE calling[t]
  BY <1>0, <1>1, CallSet, CallRecords
<1>4. match[e] = [type |-> match[e].type, of |-> match[e].of, group |-> match[e].group,
                  opponent |-> match[e].opponent, proposal |-> match[e].proposal,
                  status |-> match[e].status, before |-> match[e].before]
  BY <1>0, <1>2 DEF ChallengeShapes
<1>5. PICK proposal, status, before :
        /\ match' = [match EXCEPT ![e] =
             [type |-> match[e].type, of |-> match[e].of, group |-> match[e].group,
              opponent |-> match[e].opponent, proposal |-> proposal, status |-> status,
              before |-> before]]
        /\ \/ status = match[e].status /\ before = match[e].before /\ calling[s].op = "propose"
           \/ /\ proposal = match[e].proposal /\ calling[s].op = "status"
              /\ status = calling[s].status /\ before = calling[s].before
  <2>1. CASE C!SaveProposal(s)
    <3> DEFINE q == [match[e] EXCEPT !.proposal = calling[s].proposal]
    <3>1. match' = [match EXCEPT ![e] = q] /\ calling[s].op = "propose"
      BY <2>1 DEF C!SaveProposal, C!At
    <3>2. q = [match[e] EXCEPT !.proposal = calling[s].proposal] OBVIOUS
    <3> HIDE DEF q, e
    <3>3. q = [type |-> match[e].type, of |-> match[e].of, group |-> match[e].group,
               opponent |-> match[e].opponent, proposal |-> calling[s].proposal,
               status |-> match[e].status, before |-> match[e].before]
      BY <1>4, <3>2, MatchFields
    <3> QED BY <3>1, <3>3
  <2>2. CASE C!SaveStatus(s)
    <3> DEFINE q == [match[e] EXCEPT !.status = calling[s].status,
                                     !.before = calling[s].before]
    <3>1. e \in C!Events BY <1>2 DEF C!Events
    <3>2. /\ match' = [match EXCEPT ![e].status = calling[s].status,
                                    ![e].before = calling[s].before]
          /\ calling[s].op = "status"
      BY <2>2, <3>1 DEF C!SaveStatus, C!At
    <3>3. match' = [match EXCEPT ![e] = q]
      BY <1>0, <1>2, <3>2 DEF ChallengeShapes
    <3>4. q = [match[e] EXCEPT !.status = calling[s].status, !.before = calling[s].before]
      OBVIOUS
    <3> HIDE DEF q, e
    <3>5. q = [type |-> match[e].type, of |-> match[e].of, group |-> match[e].group,
               opponent |-> match[e].opponent, proposal |-> match[e].proposal,
               status |-> calling[s].status, before |-> calling[s].before]
      BY <1>4, <3>4, MatchFields
    <3> QED BY <3>2, <3>3, <3>5
  <2> QED BY <2>1, <2>2
<1> DEFINE new == [type |-> match[e].type, of |-> match[e].of, group |-> match[e].group,
                   opponent |-> match[e].opponent, proposal |-> proposal, status |-> status,
                   before |-> before]
<1>6. /\ new = [type |-> new.type, of |-> new.of, group |-> new.group,
                opponent |-> new.opponent, proposal |-> new.proposal, status |-> new.status,
                before |-> new.before]
      /\ new.type = match[e].type /\ new.of = match[e].of /\ new.group = match[e].group
      /\ new.opponent = match[e].opponent /\ new.proposal = proposal
      /\ new.status = status /\ new.before = before
  OBVIOUS
<1>7. match' = [match EXCEPT ![e] = new] BY <1>5
<1> HIDE DEF e, new
<1>8. /\ match' = [d \in EventId |-> match'[d]]
      /\ \A d \in EventId : match'[d] = IF d = e THEN new ELSE match[d]
  BY <1>0, <1>2, <1>7 DEF ChallengeShapes
<1>9. /\ match[e].proposal = "accepted" => proposal = "accepted"
      /\ proposal # "accepted" => status \in {"join", "cancelled"} /\ before \in {Null, "join"}
  BY <1>2, <1>5 DEF e
<1>10. \A d \in EventId :
         /\ match'[d] = [type |-> match'[d].type, of |-> match'[d].of,
                         group |-> match'[d].group, opponent |-> match'[d].opponent,
                         proposal |-> match'[d].proposal, status |-> match'[d].status,
                         before |-> match'[d].before]
         /\ match'[d].type = match[d].type /\ match'[d].of = match[d].of
         /\ match'[d].group = match[d].group /\ match'[d].opponent = match[d].opponent
         /\ match[d].type # "challenge" => match'[d] = match[d]
         /\ match[d].proposal = "accepted" => match'[d].proposal = "accepted"
         /\ match[d].type = "challenge" /\ match'[d].proposal # "accepted" =>
              match'[d].status \in {"join", "cancelled"} /\ match'[d].before \in {Null, "join"}
  <2> SUFFICES ASSUME NEW d \in EventId
      PROVE
         /\ match'[d] = [type |-> match'[d].type, of |-> match'[d].of,
                         group |-> match'[d].group, opponent |-> match'[d].opponent,
                         proposal |-> match'[d].proposal, status |-> match'[d].status,
                         before |-> match'[d].before]
         /\ match'[d].type = match[d].type /\ match'[d].of = match[d].of
         /\ match'[d].group = match[d].group /\ match'[d].opponent = match[d].opponent
         /\ match[d].type # "challenge" => match'[d] = match[d]
         /\ match[d].proposal = "accepted" => match'[d].proposal = "accepted"
         /\ match[d].type = "challenge" /\ match'[d].proposal # "accepted" =>
              match'[d].status \in {"join", "cancelled"} /\ match'[d].before \in {Null, "join"}
    OBVIOUS
  <2>1. CASE d = e BY <1>2, <1>6, <1>8, <1>9, <2>1
  <2>2. CASE d # e
    <3>1. match'[d] = match[d] BY <1>8, <2>2
    <3> QED BY <1>0, <3>1 DEF ChallengeShapes, Waiting
  <2> QED BY <2>1, <2>2
<1>11. \A t \in Slot : calling'[t].op = "propose" => match'[calling[t].id].proposal # "accepted"
  <2> SUFFICES ASSUME NEW t \in Slot, calling'[t].op = "propose"
               PROVE  match'[calling[t].id].proposal # "accepted"
    OBVIOUS
  <2>1. t # s /\ calling[t].op = "propose" BY <1>3, CallRecords
  <2>2. calling[t].id \in EventId /\ match[calling[t].id].proposal # "accepted"
    BY <1>0, <2>1 DEF Judging
  <2>3. CASE calling[t].id # e BY <1>8, <2>2, <2>3
  <2>4. CASE calling[t].id = e
    <3>1. calling[s].op # "propose" BY <1>2, <2>1, <2>4
    <3>2. proposal = match[e].proposal BY <1>5, <3>1
    <3> QED BY <1>2, <1>6, <1>8, <2>2, <2>4, <3>2
  <2> QED BY <2>3, <2>4
<1> QED BY <1>1, <1>3, <1>8, <1>10, <1>11, MatchesMove

LEMMA SquadSteps ==
  ASSUME ChallengeInv,
         \/ \E s \in Slot : C!SaveAssign(s)
         \/ \E e \in EventId : C!Unassign(e)
  PROVE  ChallengeInv'
<1>0. /\ ChallengeShapes /\ Answering /\ Underway /\ Newborn /\ EventsBorn
      /\ Linking /\ MatchesOf /\ PointsBack /\ Judging /\ Waiting
  BY DEF ChallengeInv
<1>1. /\ challenge' = challenge /\ match' = match
      /\ calling' = [t \in Slot |-> calling'[t]]
      /\ \A t \in Slot :
           \/ calling'[t] = calling[t]
           \/ calling'[t] = C!Idle /\ calling[t].op = "assign"
      /\ \A e \in squad' :
           \/ e \in squad
           \/ \E s \in Slot : calling[s].op = "assign" /\ calling[s].id = e
  <2>1. ASSUME NEW s \in Slot, C!SaveAssign(s) PROVE <1>1
    <3>1. /\ challenge' = challenge /\ match' = match /\ calling[s].op = "assign"
          /\ calling' = [calling EXCEPT ![s] = C!Idle]
          /\ squad' = squad \cup {calling[s].id}
      BY <2>1 DEF C!SaveAssign, C!Finish, C!Proceed, C!At
    <3>2. /\ calling' = [t \in Slot |-> calling'[t]]
          /\ \A t \in Slot : calling'[t] = IF t = s THEN C!Idle ELSE calling[t]
      BY <1>0, <3>1, CallSet, CallRecords
    <3> QED BY <3>1, <3>2
  <2>2. ASSUME NEW e \in EventId, C!Unassign(e) PROVE <1>1
    <3>1. /\ challenge' = challenge /\ match' = match /\ calling' = calling
          /\ squad' \subseteq squad
      BY <2>2 DEF C!Unassign
    <3> QED BY <1>0, <3>1 DEF ChallengeShapes
  <2> QED BY <2>1, <2>2
<1>2. \A t \in Slot :
        /\ IsCall(calling'[t])
        /\ calling'[t].op # "idle" => calling'[t] = calling[t]
        /\ calling[t].op # "assign" => calling'[t] = calling[t]
  BY <1>0, <1>1, CallRecords DEF ChallengeShapes
<1>3. ChallengeShapes' BY <1>0, <1>1, <1>2 DEF ChallengeShapes
<1>4. Answering' BY <1>0, <1>1, <1>2 DEF Answering
<1>5. Underway'
  <2>1. \A t \in Slot : calling'[t].op \in Building => calling'[t] = calling[t]
    BY <1>2 DEF Building
  <2>2. Underway /\ challenge' = challenge /\ match' = match BY <1>0, <1>1
  <2> QED BY ONLY <2>1, <2>2 DEF Underway
<1>6. Newborn' BY <1>0, <1>1, <1>2 DEF Newborn
<1>7. EventsBorn' BY <1>0, <1>1, <1>2 DEF EventsBorn
<1>8. Linking' BY <1>0, <1>1, <1>2 DEF Linking
<1>9. MatchesOf' BY <1>0, <1>1, <1>2 DEF MatchesOf
<1>10. PointsBack' BY <1>0, <1>1 DEF PointsBack
<1>11. Judging' BY <1>0, <1>1, <1>2 DEF Judging
<1>12. Waiting'
  <2>1. \A e \in squad' : /\ e \in EventId /\ match[e].type = "challenge"
                          /\ match[e].proposal = "accepted"
    BY <1>0, <1>1 DEF Waiting
  <2> QED BY <1>0, <1>1, <1>2, <2>1 DEF Waiting
<1> QED BY <1>3, <1>4, <1>5, <1>6, <1>7, <1>8, <1>9, <1>10, <1>11, <1>12 DEF ChallengeInv

\* The event is created, an ordinary one yet.
LEMMA CreateEventKeeps ==
  ASSUME ChallengeInv, NEW s \in Slot, C!CreateEvent(s)
  PROVE  ChallengeInv'
<1>0. /\ ChallengeShapes /\ Answering /\ Underway /\ Newborn /\ EventsBorn
      /\ Linking /\ MatchesOf /\ PointsBack /\ Judging /\ Waiting
  BY DEF ChallengeInv
<1>1. /\ calling[s].op = "event" /\ challenge' = challenge /\ squad' = squad
  BY DEF C!CreateEvent, C!At
<1>2. CASE match' = match /\ calling' = [calling EXCEPT ![s] = C!Idle]
  <2>1. /\ calling' = [t \in Slot |-> calling'[t]]
        /\ \A t \in Slot : calling'[t] = IF t = s THEN C!Idle ELSE calling[t]
    BY <1>0, <1>2, CallSet, CallRecords
  <2>2. /\ \A c \in ChallengeId :
             challenge[c] = [from |-> challenge[c].from, to |-> challenge[c].to,
                             status |-> challenge[c].status, eventId |-> challenge[c].eventId,
                             unread |-> challenge[c].unread]
        /\ challenge' = [c \in ChallengeId |-> challenge'[c]]
    BY <1>0, <1>1 DEF ChallengeShapes
  <2>3. \A t \in Slot :
          /\ IsCall(calling'[t])
          /\ calling'[t].op # "idle" => calling'[t] = calling[t]
          /\ calling[t].op # "event" => calling'[t] = calling[t]
    BY <1>0, <1>1, <2>1, CallRecords DEF ChallengeShapes
  <2>4. ChallengeShapes' BY <1>0, <1>1, <1>2, <2>1, <2>3 DEF ChallengeShapes
  <2>5. Answering' BY <1>0, <1>1, <2>3 DEF Answering
  <2>6. Underway'
    <3>1. \A t \in Slot : calling'[t].op \in Building => calling'[t] = calling[t]
      BY <2>3 DEF Building
    <3>2. Underway /\ challenge' = challenge /\ match' = match BY <1>0, <1>1, <1>2
    <3> QED BY ONLY <3>1, <3>2, ZenonT(30) DEF Underway
  <2>7. Newborn' BY <1>0, <1>1, <1>2, <2>3 DEF Newborn
  <2>8. EventsBorn' BY <1>0, <1>1, <1>2, <2>3 DEF EventsBorn
  <2>9. Linking' BY <1>0, <1>1, <1>2, <2>3 DEF Linking
  <2>10. MatchesOf' BY <1>0, <1>1, <1>2, <2>3 DEF MatchesOf
  <2>11. PointsBack' BY <1>0, <1>1, <1>2 DEF PointsBack
  <2>12. Judging' BY <1>0, <1>1, <1>2, <2>3 DEF Judging
  <2>13. Waiting' BY <1>0, <1>1, <1>2, <2>3 DEF Waiting
  <2> QED BY <2>4, <2>5, <2>6, <2>7, <2>8, <2>9, <2>10, <2>11, <2>12, <2>13 DEF ChallengeInv
<1>3. ASSUME NEW e \in EventId, match[e].type = "none",
             match' = [match EXCEPT ![e] = [C!NoEvent EXCEPT !.type = "normal",
                                                             !.group = calling[s].group]],
             calling' = [calling EXCEPT ![s] = [op |-> "type", id |-> calling[s].id, event |-> e,
                                                opponent |-> calling[s].opponent]]
      PROVE  ChallengeInv'
  <2> DEFINE r == [op |-> "type", id |-> calling[s].id, event |-> e,
                   opponent |-> calling[s].opponent]
             new == [C!NoEvent EXCEPT !.type = "normal", !.group = calling[s].group]
  <2>1. /\ IsCall(r) /\ r.op = "type" /\ r.id = calling[s].id /\ r.event = e
        /\ r.opponent = calling[s].opponent /\ calling' = [calling EXCEPT ![s] = r]
    BY <1>3, CallRecords
  <2>2. /\ new = [type |-> new.type, of |-> new.of, group |-> new.group,
                  opponent |-> new.opponent, proposal |-> new.proposal, status |-> new.status,
                  before |-> new.before]
        /\ new.type = "normal" /\ new.group = calling[s].group /\ new.status = "join"
        /\ new.before = Null
    <3> DEFINE none == C!NoEvent
    <3>1. /\ none = [type |-> none.type, of |-> none.of, group |-> none.group,
                     opponent |-> none.opponent, proposal |-> none.proposal,
                     status |-> none.status, before |-> none.before]
          /\ none.status = "join" /\ none.before = Null
      BY DEF C!NoEvent
    <3>2. new = [none EXCEPT !.type = "normal", !.group = calling[s].group] OBVIOUS
    <3> HIDE DEF none, new
    <3> QED BY <3>1, <3>2, MatchFields
  <2>20. match' = [match EXCEPT ![e] = new] BY <1>3
  <2> HIDE DEF r, new
  <2>3. /\ calling' = [t \in Slot |-> calling'[t]]
        /\ \A t \in Slot : calling'[t] = IF t = s THEN r ELSE calling[t]
        /\ \A t \in Slot : IsCall(calling'[t])
    BY <1>0, <2>1, CallSet
  <2>4. /\ match' = [d \in EventId |-> match'[d]]
        /\ \A d \in EventId : match'[d] = IF d = e THEN new ELSE match[d]
    BY <1>0, <1>3, <2>20 DEF ChallengeShapes
  <2>5. \A d \in EventId : /\ match[d].type = "challenge" => match'[d] = match[d]
                           /\ match'[d].type = "challenge" => match'[d] = match[d]
    BY <1>3, <2>2, <2>4
  <2>6. \A t \in Slot : calling[t].op = "type" => /\ calling[t].event # e
                                                   /\ calling[t].event \in EventId
    BY <1>0, <1>3 DEF Newborn
  <2>7. /\ calling[s].id \in ChallengeId
        /\ challenge[calling[s].id].status = "accepted"
        /\ challenge[calling[s].id].eventId = Null
        /\ \A t \in Slot : calling[t].op \in Building /\ calling[t].id = calling[s].id => t = s
        /\ \A f \in EventId : match[f].type = "challenge" => match[f].of # calling[s].id
        /\ {calling[s].group, calling[s].opponent} =
             {challenge[calling[s].id].from, challenge[calling[s].id].to}
    BY <1>0, <1>1 DEF Underway, Building
  <2>8. ChallengeShapes' BY <1>0, <1>1, <2>2, <2>3, <2>4 DEF ChallengeShapes
  <2>9. Answering' BY <1>0, <1>1, <2>1, <2>3 DEF Answering
  <2>10. Underway'
    <3> SUFFICES ASSUME NEW o \in Slot, calling'[o].op \in Building
        PROVE
      /\ calling'[o].id \in ChallengeId
      /\ challenge[calling'[o].id].status = "accepted"
      /\ challenge[calling'[o].id].eventId = Null
      /\ \A t \in Slot :
           calling'[t].op \in Building /\ calling'[t].id = calling'[o].id => t = o
      /\ calling'[o].op \in {"event", "type"} =>
           \A f \in EventId : match'[f].type = "challenge" => match'[f].of # calling'[o].id
      /\ calling'[o].op = "event" =>
           {calling'[o].group, calling'[o].opponent} =
             {challenge[calling'[o].id].from, challenge[calling'[o].id].to}
      BY <1>1 DEF Underway
    <3>1. \A t \in Slot : /\ calling'[t].op \in Building => calling[t].op \in Building
                          /\ calling'[t].op \in Building => calling'[t].id = calling[t].id
      BY <1>1, <2>1, <2>3 DEF Building
    <3>2. CASE o = s
      <4>1. calling'[o] = r BY <2>3, <3>2
      <4>2. \A t \in Slot : calling'[t].op \in Building /\ calling'[t].id = r.id => t = o
        BY <2>1, <2>7, <3>1, <3>2
      <4>3. \A f \in EventId : match'[f].type = "challenge" => match'[f].of # r.id
        BY <2>1, <2>5, <2>7
      <4>4. r.id \in ChallengeId /\ challenge[r.id].status = "accepted"
            /\ challenge[r.id].eventId = Null
        BY <2>1, <2>7
      <4> QED BY ONLY <2>1, <4>1, <4>2, <4>3, <4>4
    <3>3. CASE o # s
      <4>1. calling'[o] = calling[o] BY <2>3, <3>3
      <4>2. /\ calling[o].id \in ChallengeId
            /\ challenge[calling[o].id].status = "accepted"
            /\ challenge[calling[o].id].eventId = Null
            /\ \A t \in Slot : calling[t].op \in Building /\ calling[t].id = calling[o].id => t = o
            /\ calling[o].op \in {"event", "type"} =>
                 \A f \in EventId : match[f].type = "challenge" => match[f].of # calling[o].id
            /\ calling[o].op = "event" =>
                 {calling[o].group, calling[o].opponent} =
                   {challenge[calling[o].id].from, challenge[calling[o].id].to}
        BY <1>0, <4>1 DEF Underway
      <4>3. \A t \in Slot :
              calling'[t].op \in Building /\ calling'[t].id = calling[o].id => t = o
        BY <3>1, <4>2
      <4>4. calling[o].op \in {"event", "type"} =>
              \A f \in EventId : match'[f].type = "challenge" => match'[f].of # calling[o].id
        BY <2>5, <4>2
      <4> QED BY ONLY <4>1, <4>2, <4>3, <4>4
    <3> QED BY <3>2, <3>3
  <2>11. Newborn'
    <3> SUFFICES ASSUME NEW o \in Slot, calling'[o].op = "type"
        PROVE
      /\ calling'[o].event \in EventId /\ match'[calling'[o].event].type = "normal"
      /\ match'[calling'[o].event].status = "join"
      /\ match'[calling'[o].event].before = Null
      /\ {match'[calling'[o].event].group, calling'[o].opponent} =
           {challenge[calling'[o].id].from, challenge[calling'[o].id].to}
      /\ \A t \in Slot :
           calling'[t].op = "type" /\ calling'[t].event = calling'[o].event => t = o
      BY <1>1 DEF Newborn
    <3>1. CASE o = s
      <4>1. calling'[o] = r BY <2>3, <3>1
      <4>2. match'[e] = new BY <2>4
      <4>3. \A t \in Slot : calling'[t].op = "type" /\ calling'[t].event = e => t = o
        BY <2>3, <2>6, <3>1
      <4>4. {new.group, r.opponent} = {challenge[r.id].from, challenge[r.id].to}
        BY <2>1, <2>2, <2>7
      <4> QED BY ONLY <2>1, <2>2, <4>1, <4>2, <4>3, <4>4, e \in EventId
    <3>2. CASE o # s
      <4>1. calling'[o] = calling[o] /\ calling[o].op = "type" BY <2>3, <3>2
      <4>2. /\ calling[o].event \in EventId /\ match[calling[o].event].type = "normal"
            /\ match[calling[o].event].status = "join" /\ match[calling[o].event].before = Null
            /\ {match[calling[o].event].group, calling[o].opponent} =
                 {challenge[calling[o].id].from, challenge[calling[o].id].to}
            /\ \A t \in Slot :
                 calling[t].op = "type" /\ calling[t].event = calling[o].event => t = o
        BY <1>0, <4>1 DEF Newborn
      <4>3. calling[o].event # e BY <2>6, <4>1
      <4>4. match'[calling[o].event] = match[calling[o].event] BY <2>4, <4>2, <4>3
      <4>5. \A t \in Slot :
              calling'[t].op = "type" /\ calling'[t].event = calling[o].event => t = o
        BY <2>1, <2>3, <4>2, <4>3
      <4> QED BY ONLY <4>1, <4>2, <4>4, <4>5
    <3> QED BY <3>1, <3>2
  <2>12. EventsBorn'
    <3> SUFFICES ASSUME NEW d \in EventId
                 PROVE  /\ match'[d].type \in {"none", "normal", "challenge"}
                        /\ match'[d].type = "normal" =>
                             \E t \in Slot : calling'[t].op = "type" /\ calling'[t].event = d
      BY DEF EventsBorn
    <3>1. CASE d = e
      <4>1. calling'[s].op = "type" /\ calling'[s].event = d BY <2>1, <2>3, <3>1
      <4> QED BY <2>2, <2>4, <3>1, <4>1
    <3>2. CASE d # e
      <4>1. match'[d] = match[d] BY <2>4, <3>2
      <4>2. \A t \in Slot : calling[t].op = "type" => calling'[t] = calling[t]
        BY <1>1, <2>3
      <4> QED BY <1>0, <4>1, <4>2 DEF EventsBorn
    <3> QED BY <3>1, <3>2
  <2>13. \A t \in Slot :
          /\ calling[t].op \in {"link", "propose", "assign", "status"} => calling'[t] = calling[t]
          /\ calling'[t].op \in {"link", "propose", "assign", "status"} => calling'[t] = calling[t]
    BY <1>1, <2>1, <2>3
  <2>14. Linking' BY ONLY <1>0, <2>5, <2>13 DEF Linking
  <2>15. MatchesOf' BY ONLY <1>0, <1>1, <2>5, <2>13 DEF MatchesOf
  <2>16. PointsBack' BY ONLY <1>0, <1>1, <2>5 DEF PointsBack
  <2>17. Judging' BY ONLY <1>0, <2>5, <2>13 DEF Judging
  <2>18. Waiting' BY ONLY <1>0, <1>1, <2>5, <2>13 DEF Waiting
  <2> QED BY <2>8, <2>9, <2>10, <2>11, <2>12, <2>14, <2>15, <2>16, <2>17, <2>18 DEF ChallengeInv
<1> QED BY <1>2, <1>3 DEF C!CreateEvent, C!Finish, C!Proceed

\* The event becomes the match of its challenge.
LEMMA MakeMatchKeeps ==
  ASSUME ChallengeInv, NEW s \in Slot, C!MakeMatch(s)
  PROVE  ChallengeInv'
<1>0. /\ ChallengeShapes /\ Answering /\ Underway /\ Newborn /\ EventsBorn
      /\ Linking /\ MatchesOf /\ PointsBack /\ Judging /\ Waiting
  BY DEF ChallengeInv
<1> DEFINE c == calling[s].id
           e == calling[s].event
           r == [calling[s] EXCEPT !.op = "link"]
<1>1. /\ calling[s].op = "type" /\ challenge' = challenge /\ squad' = squad
      /\ calling' = [calling EXCEPT ![s] = r]
      /\ match' = [match EXCEPT ![e].type = "challenge", ![e].of = c,
                                ![e].opponent = calling[s].opponent,
                                ![e].proposal = "proposed"]
  BY DEF C!MakeMatch, C!At, C!Proceed
<1>2. IsCall(r) /\ r.op = "link" /\ r.id = c /\ r.event = e
  <2>1. calling[s] = [op |-> calling[s].op, id |-> c, event |-> e,
                      opponent |-> calling[s].opponent]
    BY <1>0, <1>1 DEF ChallengeShapes, IsCall
  <2>2. r = [op |-> "link", id |-> c, event |-> e, opponent |-> calling[s].opponent]
    BY <2>1
  <2> HIDE DEF r, c, e
  <2> QED BY <2>2, CallRecords
<1>3. /\ c \in ChallengeId /\ challenge[c].status = "accepted" /\ challenge[c].eventId = Null
      /\ \A t \in Slot : calling[t].op \in Building /\ calling[t].id = c => t = s
      /\ \A f \in EventId : match[f].type = "challenge" => match[f].of # c
  BY <1>0, <1>1 DEF Underway, Building
<1>4. /\ e \in EventId /\ match[e].type = "normal" /\ match[e].status = "join"
      /\ match[e].before = Null
      /\ {match[e].group, calling[s].opponent} = {challenge[c].from, challenge[c].to}
      /\ \A t \in Slot : calling[t].op = "type" /\ calling[t].event = e => t = s
  BY <1>0, <1>1 DEF Newborn
<1> DEFINE new == [match[e] EXCEPT !.type = "challenge", !.of = c,
                                   !.opponent = calling[s].opponent, !.proposal = "proposed"]
<1>5. match' = [match EXCEPT ![e] = new] BY <1>0, <1>1, <1>4 DEF ChallengeShapes
<1>6. /\ new = [type |-> new.type, of |-> new.of, group |-> new.group,
                opponent |-> new.opponent, proposal |-> new.proposal, status |-> new.status,
                before |-> new.before]
      /\ new.type = "challenge" /\ new.of = c /\ new.group = match[e].group
      /\ new.opponent = calling[s].opponent /\ new.status = "join" /\ new.before = Null
  <2>1. match[e] = [type |-> match[e].type, of |-> match[e].of, group |-> match[e].group,
                    opponent |-> match[e].opponent, proposal |-> match[e].proposal,
                    status |-> match[e].status, before |-> match[e].before]
    BY <1>0, <1>4 DEF ChallengeShapes
  <2>2. new = [match[e] EXCEPT !.type = "challenge", !.of = c,
                               !.opponent = calling[s].opponent, !.proposal = "proposed"]
    OBVIOUS
  <2> HIDE DEF new, c, e
  <2>3. new = [type |-> "challenge", of |-> c, group |-> match[e].group,
               opponent |-> calling[s].opponent, proposal |-> "proposed",
               status |-> match[e].status, before |-> match[e].before]
    BY <2>1, <2>2, MatchFields
  <2> QED BY <1>4, <2>3
<1>7. /\ calling' = [t \in Slot |-> calling'[t]]
      /\ \A t \in Slot : calling'[t] = IF t = s THEN r ELSE calling[t]
      /\ \A t \in Slot : IsCall(calling'[t])
  BY <1>0, <1>1, <1>2, CallSet
<1> HIDE DEF new, r
<1>8. /\ match' = [d \in EventId |-> match'[d]]
      /\ \A d \in EventId : match'[d] = IF d = e THEN new ELSE match[d]
  BY <1>0, <1>4, <1>5 DEF ChallengeShapes
<1>9. \A d \in EventId : match[d].type = "challenge" => d # e /\ match'[d] = match[d]
  BY <1>4, <1>8
<1>10. \A t \in Slot :
         /\ calling[t].op \in {"link", "propose", "assign", "status"} =>
              t # s /\ calling'[t] = calling[t]
         /\ calling'[t].op \in {"respond", "propose", "assign", "status"} =>
              calling'[t] = calling[t]
         /\ calling'[t].op = "type" => t # s /\ calling'[t] = calling[t]
  BY <1>1, <1>2, <1>7
<1> HIDE DEF c, e
<1>11. ChallengeShapes' BY <1>0, <1>1, <1>6, <1>7, <1>8, ZenonT(30) DEF ChallengeShapes
<1>12. Answering' BY ONLY <1>0, <1>1, <1>10 DEF Answering
<1>13. Underway'
  <2> SUFFICES ASSUME NEW o \in Slot, calling'[o].op \in Building
      PROVE
      /\ calling'[o].id \in ChallengeId
      /\ challenge[calling'[o].id].status = "accepted"
      /\ challenge[calling'[o].id].eventId = Null
      /\ \A t \in Slot :
           calling'[t].op \in Building /\ calling'[t].id = calling'[o].id => t = o
      /\ calling'[o].op \in {"event", "type"} =>
           \A f \in EventId : match'[f].type = "challenge" => match'[f].of # calling'[o].id
      /\ calling'[o].op = "event" =>
           {calling'[o].group, calling'[o].opponent} =
             {challenge[calling'[o].id].from, challenge[calling'[o].id].to}
    BY <1>1 DEF Underway
  <2>1. \A t \in Slot : /\ calling'[t].op \in Building => calling[t].op \in Building
                        /\ calling'[t].op \in Building => calling'[t].id = calling[t].id
    BY <1>1, <1>2, <1>7 DEF Building, c
  <2>2. CASE o = s
    <3>1. calling'[o] = r BY <1>7, <2>2
    <3>2. \A t \in Slot : calling'[t].op \in Building /\ calling'[t].id = c => t = o
      BY <1>3, <2>1, <2>2
    <3> QED BY ONLY <1>2, <1>3, <3>1, <3>2
  <2>3. CASE o # s
    <3>1. calling'[o] = calling[o] BY <1>7, <2>3
    <3>2.   /\ calling[o].id \in ChallengeId
            /\ challenge[calling[o].id].status = "accepted"
            /\ challenge[calling[o].id].eventId = Null
            /\ \A t \in Slot : calling[t].op \in Building /\ calling[t].id = calling[o].id => t = o
            /\ calling[o].op \in {"event", "type"} =>
                 \A f \in EventId : match[f].type = "challenge" => match[f].of # calling[o].id
            /\ calling[o].op = "event" =>
                 {calling[o].group, calling[o].opponent} =
                   {challenge[calling[o].id].from, challenge[calling[o].id].to}
      BY <1>0, <3>1 DEF Underway
    <3>3. \A t \in Slot :
            calling'[t].op \in Building /\ calling'[t].id = calling[o].id => t = o
      BY <2>1, <3>2
    <3>4. calling[o].id # c BY <1>3, <2>3, <3>1
    <3>5. calling[o].op \in {"event", "type"} =>
            \A f \in EventId : match'[f].type = "challenge" => match'[f].of # calling[o].id
      BY <1>6, <1>8, <3>2, <3>4
    <3> QED BY ONLY <3>1, <3>2, <3>3, <3>5
  <2> QED BY <2>2, <2>3
<1>14. Newborn'
  <2> SUFFICES ASSUME NEW o \in Slot, calling'[o].op = "type"
      PROVE
      /\ calling'[o].event \in EventId /\ match'[calling'[o].event].type = "normal"
      /\ match'[calling'[o].event].status = "join"
      /\ match'[calling'[o].event].before = Null
      /\ {match'[calling'[o].event].group, calling'[o].opponent} =
           {challenge[calling'[o].id].from, challenge[calling'[o].id].to}
      /\ \A t \in Slot :
           calling'[t].op = "type" /\ calling'[t].event = calling'[o].event => t = o
    BY <1>1 DEF Newborn
  <2>1. o # s /\ calling'[o] = calling[o] /\ calling[o].op = "type" BY <1>10
  <2>2. /\ calling[o].event \in EventId /\ match[calling[o].event].type = "normal"
        /\ match[calling[o].event].status = "join" /\ match[calling[o].event].before = Null
        /\ {match[calling[o].event].group, calling[o].opponent} =
             {challenge[calling[o].id].from, challenge[calling[o].id].to}
        /\ \A t \in Slot :
             calling[t].op = "type" /\ calling[t].event = calling[o].event => t = o
    BY <1>0, <2>1 DEF Newborn
  <2>3. calling[o].event # e BY <1>4, <2>1
  <2>4. match'[calling[o].event] = match[calling[o].event] BY <1>8, <2>2, <2>3
  <2>5. \A t \in Slot :
          calling'[t].op = "type" /\ calling'[t].event = calling[o].event => t = o
    BY <1>10, <2>2
  <2> QED BY ONLY <2>1, <2>2, <2>4, <2>5
<1>15. EventsBorn'
  <2> SUFFICES ASSUME NEW d \in EventId
               PROVE  /\ match'[d].type \in {"none", "normal", "challenge"}
                      /\ match'[d].type = "normal" =>
                           \E t \in Slot : calling'[t].op = "type" /\ calling'[t].event = d
    BY DEF EventsBorn
  <2>1. CASE d = e BY <1>6, <1>8, <2>1
  <2>2. CASE d # e
    <3>1. match'[d] = match[d] BY <1>8, <2>2
    <3>2. \A t \in Slot : calling[t].op = "type" /\ calling[t].event = d =>
            calling'[t] = calling[t]
      BY <1>7, <2>2 DEF e
    <3> QED BY <1>0, <3>1, <3>2 DEF EventsBorn
  <2> QED BY <2>1, <2>2
<1>16. Linking'
  <2> SUFFICES ASSUME NEW o \in Slot, calling'[o].op = "link"
               PROVE  /\ calling'[o].event \in EventId
                      /\ match'[calling'[o].event].type = "challenge"
                      /\ match'[calling'[o].event].of = calling'[o].id
    BY DEF Linking
  <2>1. CASE o = s
    <3>1. calling'[o] = r BY <1>7, <2>1
    <3>2. match'[e] = new BY <1>4, <1>8
    <3> QED BY ONLY <1>2, <1>4, <1>6, <3>1, <3>2
  <2>2. CASE o # s
    <3>1. calling'[o] = calling[o] BY <1>7, <2>2
    <3>2. /\ calling[o].event \in EventId /\ match[calling[o].event].type = "challenge"
          /\ match[calling[o].event].of = calling[o].id
      BY <1>0, <3>1 DEF Linking
    <3> QED BY <1>9, <3>1, <3>2
  <2> QED BY <2>1, <2>2
<1>17. MatchesOf'
  <2> SUFFICES ASSUME NEW d \in EventId, match'[d].type = "challenge"
      PROVE
      /\ match'[d].of \in ChallengeId /\ challenge[match'[d].of].status = "accepted"
      /\ {match'[d].group, match'[d].opponent} =
           {challenge[match'[d].of].from, challenge[match'[d].of].to}
      /\ \/ challenge[match'[d].of].eventId = d
         \/ \E t \in Slot : calling'[t].op = "link" /\ calling'[t].event = d
      /\ \A f \in EventId :
           match'[f].type = "challenge" /\ match'[f].of = match'[d].of => f = d
    BY <1>1 DEF MatchesOf
  <2>1. CASE d = e
    <3>1. match'[d] = new BY <1>8, <2>1
    <3>2. calling'[s].op = "link" /\ calling'[s].event = d BY <1>2, <1>7, <2>1
    <3>3. \A f \in EventId : match'[f].type = "challenge" /\ match'[f].of = c => f = d
      BY <1>3, <1>8, <2>1
    <3>4. {new.group, new.opponent} = {challenge[c].from, challenge[c].to} BY <1>4, <1>6
    <3> QED BY <1>3, <1>6, <3>1, <3>2, <3>3, <3>4
  <2>2. CASE d # e
    <3>1. match'[d] = match[d] BY <1>8, <2>2
    <3>2. /\ match[d].of \in ChallengeId /\ challenge[match[d].of].status = "accepted"
          /\ {match[d].group, match[d].opponent} =
               {challenge[match[d].of].from, challenge[match[d].of].to}
          /\ \/ challenge[match[d].of].eventId = d
             \/ \E t \in Slot : calling[t].op = "link" /\ calling[t].event = d
          /\ \A f \in EventId :
               match[f].type = "challenge" /\ match[f].of = match[d].of => f = d
      BY <1>0, <3>1 DEF MatchesOf
    <3>3. match[d].of # c BY <1>3, <3>1
    <3>4. \A f \in EventId : match'[f].type = "challenge" /\ match'[f].of = match[d].of => f = d
      BY <1>6, <1>8, <3>2, <3>3
    <3>5. \/ challenge[match[d].of].eventId = d
          \/ \E t \in Slot : calling'[t].op = "link" /\ calling'[t].event = d
      BY <1>10, <3>2
    <3> QED BY ONLY <3>1, <3>2, <3>4, <3>5
  <2> QED BY <2>1, <2>2
<1>18. PointsBack'
  <2>1. challenge' = challenge /\ PointsBack BY <1>0, <1>1
  <2> QED BY ONLY <2>1, <1>9 DEF PointsBack
<1>19. Judging' BY ONLY <1>0, <1>9, <1>10 DEF Judging
<1>20. Waiting'
  <2> SUFFICES
      /\ \A d \in squad : /\ d \in EventId /\ match'[d].type = "challenge"
                          /\ match'[d].proposal = "accepted"
      /\ \A d \in EventId : match'[d].type = "challenge" /\ match'[d].proposal # "accepted" =>
           match'[d].status \in {"join", "cancelled"} /\ match'[d].before \in {Null, "join"}
      /\ \A o \in Slot : calling'[o].op = "assign" =>
           /\ calling'[o].id \in EventId /\ match'[calling'[o].id].type = "challenge"
           /\ match'[calling'[o].id].proposal = "accepted"
      /\ \A o \in Slot : calling'[o].op = "status" =>
           /\ calling'[o].id \in EventId /\ match'[calling'[o].id].type = "challenge"
           /\ match'[calling'[o].id].proposal # "accepted" =>
                calling'[o].status \in {"join", "cancelled"} /\ calling'[o].before \in {Null, "join"}
    BY <1>1 DEF Waiting
  <2>1. \A d \in squad : /\ d \in EventId /\ match'[d].type = "challenge"
                         /\ match'[d].proposal = "accepted"
    BY ONLY <1>0, <1>9 DEF Waiting
  <2>2. \A d \in EventId : match'[d].type = "challenge" /\ match'[d].proposal # "accepted" =>
          match'[d].status \in {"join", "cancelled"} /\ match'[d].before \in {Null, "join"}
    BY <1>0, <1>6, <1>8 DEF Waiting
  <2>3. \A o \in Slot : calling'[o].op = "assign" =>
          /\ calling'[o].id \in EventId /\ match'[calling'[o].id].type = "challenge"
          /\ match'[calling'[o].id].proposal = "accepted"
    BY ONLY <1>0, <1>9, <1>10 DEF Waiting
  <2>4. \A o \in Slot : calling'[o].op = "status" =>
          /\ calling'[o].id \in EventId /\ match'[calling'[o].id].type = "challenge"
          /\ match'[calling'[o].id].proposal # "accepted" =>
               calling'[o].status \in {"join", "cancelled"} /\ calling'[o].before \in {Null, "join"}
    BY ONLY <1>0, <1>9, <1>10 DEF Waiting
  <2> QED BY <2>1, <2>2, <2>3, <2>4
<1> QED BY <1>11, <1>12, <1>13, <1>14, <1>15, <1>16, <1>17, <1>18, <1>19, <1>20 DEF ChallengeInv

\* The challenge points at its match.
LEMMA LinkKeeps ==
  ASSUME ChallengeInv, NEW s \in Slot, C!Link(s)
  PROVE  ChallengeInv'
<1>0. /\ ChallengeShapes /\ Answering /\ Underway /\ Newborn /\ EventsBorn
      /\ Linking /\ MatchesOf /\ PointsBack /\ Judging /\ Waiting
  BY DEF ChallengeInv
<1> DEFINE c == calling[s].id
           e == calling[s].event
<1>1. /\ calling[s].op = "link" /\ match' = match /\ squad' = squad
      /\ calling' = [calling EXCEPT ![s] = C!Idle]
      /\ challenge' = [challenge EXCEPT ![c].eventId = e]
  BY DEF C!Link, C!At, C!Finish, C!Proceed
<1>2. /\ c \in ChallengeId /\ challenge[c].status = "accepted"
      /\ \A t \in Slot : calling[t].op \in Building /\ calling[t].id = c => t = s
  BY <1>0, <1>1 DEF Underway, Building
<1>3. e \in EventId /\ match[e].type = "challenge" /\ match[e].of = c
  BY <1>0, <1>1 DEF Linking
<1>4. \A d \in EventId : match[d].type = "challenge" /\ match[d].of = c => d = e
  BY <1>0, <1>3 DEF MatchesOf
<1>5. /\ challenge' = [d \in ChallengeId |-> challenge'[d]]
      /\ \A d \in ChallengeId : d # c => challenge'[d] = challenge[d]
      /\ challenge'[c] = [challenge[c] EXCEPT !.eventId = e]
  BY <1>0, <1>1, <1>2 DEF ChallengeShapes
<1>6. challenge[c] = [from |-> challenge[c].from, to |-> challenge[c].to,
                      status |-> challenge[c].status, eventId |-> challenge[c].eventId,
                      unread |-> challenge[c].unread]
  BY <1>0, <1>2 DEF ChallengeShapes
<1>7. /\ calling' = [t \in Slot |-> calling'[t]]
      /\ \A t \in Slot : calling'[t] = IF t = s THEN C!Idle ELSE calling[t]
      /\ \A t \in Slot : IsCall(calling'[t])
  BY <1>0, <1>1, CallSet, CallRecords
<1>8. \A t \in Slot :
        /\ calling'[t].op # "idle" => t # s /\ calling'[t] = calling[t]
        /\ calling[t].op # "link" => calling'[t] = calling[t]
  BY <1>1, <1>7, CallRecords
<1>20. \A t \in Slot : calling[t].op = "link" /\ calling[t].event # e =>
         calling'[t] = calling[t]
  BY <1>7
<1> HIDE DEF c, e
<1>9. /\ challenge'[c] = [from |-> challenge'[c].from, to |-> challenge'[c].to,
                          status |-> challenge'[c].status, eventId |-> challenge'[c].eventId,
                          unread |-> challenge'[c].unread]
      /\ challenge'[c].from = challenge[c].from /\ challenge'[c].to = challenge[c].to
      /\ challenge'[c].status = challenge[c].status /\ challenge'[c].eventId = e
  BY <1>5, <1>6, ChallengeFields
<1>10. \A d \in ChallengeId :
         /\ challenge'[d].from = challenge[d].from /\ challenge'[d].to = challenge[d].to
         /\ challenge'[d].status = challenge[d].status
         /\ d # c => challenge'[d].eventId = challenge[d].eventId
  BY <1>5, <1>9
<1>11. ChallengeShapes' BY <1>0, <1>1, <1>5, <1>7, <1>9 DEF ChallengeShapes
<1>12. Answering' BY ONLY <1>0, <1>8, <1>10 DEF Answering
<1>13. Underway'
  <2> SUFFICES ASSUME NEW o \in Slot, calling'[o].op \in Building
      PROVE
      /\ calling'[o].id \in ChallengeId
      /\ challenge'[calling'[o].id].status = "accepted"
      /\ challenge'[calling'[o].id].eventId = Null
      /\ \A t \in Slot :
           calling'[t].op \in Building /\ calling'[t].id = calling'[o].id => t = o
      /\ calling'[o].op \in {"event", "type"} =>
           \A f \in EventId : match[f].type = "challenge" => match[f].of # calling'[o].id
      /\ calling'[o].op = "event" =>
           {calling'[o].group, calling'[o].opponent} =
             {challenge'[calling'[o].id].from, challenge'[calling'[o].id].to}
    BY <1>1 DEF Underway
  <2>1. o # s /\ calling'[o] = calling[o] BY <1>8 DEF Building
  <2>2. /\ calling[o].id \in ChallengeId
        /\ challenge[calling[o].id].status = "accepted"
        /\ challenge[calling[o].id].eventId = Null
        /\ \A t \in Slot : calling[t].op \in Building /\ calling[t].id = calling[o].id => t = o
        /\ calling[o].op \in {"event", "type"} =>
             \A f \in EventId : match[f].type = "challenge" => match[f].of # calling[o].id
        /\ calling[o].op = "event" =>
             {calling[o].group, calling[o].opponent} =
               {challenge[calling[o].id].from, challenge[calling[o].id].to}
    BY <1>0, <2>1 DEF Underway
  <2>3. \A t \in Slot :
          calling'[t].op \in Building /\ calling'[t].id = calling[o].id => t = o
    <3>1. \A t \in Slot : calling'[t].op \in Building => calling'[t] = calling[t]
      BY <1>8 DEF Building
    <3> QED BY <2>2, <3>1
  <2>4. calling[o].id # c BY <1>2, <2>1
  <2>5. challenge'[calling[o].id] = challenge[calling[o].id] BY <1>5, <2>2, <2>4
  <2> QED BY ONLY <2>1, <2>2, <2>3, <2>5
<1>14. Newborn'
  <2> SUFFICES ASSUME NEW o \in Slot, calling'[o].op = "type"
      PROVE
      /\ calling'[o].event \in EventId /\ match[calling'[o].event].type = "normal"
      /\ match[calling'[o].event].status = "join"
      /\ match[calling'[o].event].before = Null
      /\ {match[calling'[o].event].group, calling'[o].opponent} =
           {challenge'[calling'[o].id].from, challenge'[calling'[o].id].to}
      /\ \A t \in Slot :
           calling'[t].op = "type" /\ calling'[t].event = calling'[o].event => t = o
    BY <1>1 DEF Newborn
  <2>1. o # s /\ calling'[o] = calling[o] /\ calling[o].op = "type" BY <1>8
  <2>2. /\ calling[o].event \in EventId /\ match[calling[o].event].type = "normal"
        /\ match[calling[o].event].status = "join" /\ match[calling[o].event].before = Null
        /\ {match[calling[o].event].group, calling[o].opponent} =
             {challenge[calling[o].id].from, challenge[calling[o].id].to}
        /\ \A t \in Slot :
             calling[t].op = "type" /\ calling[t].event = calling[o].event => t = o
    BY <1>0, <2>1 DEF Newborn
  <2>3. calling[o].id \in ChallengeId BY <1>0, <2>1 DEF Underway, Building
  <2>4. /\ challenge'[calling[o].id].from = challenge[calling[o].id].from
        /\ challenge'[calling[o].id].to = challenge[calling[o].id].to
    BY <1>10, <2>3
  <2>5. \A t \in Slot :
          calling'[t].op = "type" /\ calling'[t].event = calling[o].event => t = o
    BY <1>8, <2>2
  <2> QED BY ONLY <2>1, <2>2, <2>4, <2>5
<1>15. EventsBorn' BY ONLY <1>0, <1>1, <1>8 DEF EventsBorn
<1>16. Linking' BY ONLY <1>0, <1>1, <1>8 DEF Linking
<1>17. MatchesOf'
  <2> SUFFICES ASSUME NEW d \in EventId, match[d].type = "challenge"
      PROVE
      /\ match[d].of \in ChallengeId /\ challenge'[match[d].of].status = "accepted"
      /\ {match[d].group, match[d].opponent} =
           {challenge'[match[d].of].from, challenge'[match[d].of].to}
      /\ \/ challenge'[match[d].of].eventId = d
         \/ \E t \in Slot : calling'[t].op = "link" /\ calling'[t].event = d
      /\ \A f \in EventId :
           match[f].type = "challenge" /\ match[f].of = match[d].of => f = d
    BY <1>1 DEF MatchesOf
  <2>1. /\ match[d].of \in ChallengeId /\ challenge[match[d].of].status = "accepted"
        /\ {match[d].group, match[d].opponent} =
             {challenge[match[d].of].from, challenge[match[d].of].to}
        /\ \/ challenge[match[d].of].eventId = d
           \/ \E t \in Slot : calling[t].op = "link" /\ calling[t].event = d
        /\ \A f \in EventId :
             match[f].type = "challenge" /\ match[f].of = match[d].of => f = d
    BY <1>0 DEF MatchesOf
  <2>2. /\ challenge'[match[d].of].status = "accepted"
        /\ {challenge'[match[d].of].from, challenge'[match[d].of].to} =
             {challenge[match[d].of].from, challenge[match[d].of].to}
    BY <1>10, <2>1
  <2>3. \/ challenge'[match[d].of].eventId = d
        \/ \E t \in Slot : calling'[t].op = "link" /\ calling'[t].event = d
    <3>1. CASE match[d].of = c BY <1>4, <1>9, <3>1
    <3>2. CASE match[d].of # c
      <4>1. d # e BY <1>3, <3>2
      <4>2. challenge'[match[d].of].eventId = challenge[match[d].of].eventId
        BY <1>10, <2>1, <3>2
      <4> QED BY <1>20, <2>1, <4>1, <4>2
    <3> QED BY <3>1, <3>2
  <2> QED BY ONLY <2>1, <2>2, <2>3
<1>18. PointsBack' BY ONLY <1>0, <1>1, <1>3, <1>9, <1>10 DEF PointsBack
<1>19. Judging' BY ONLY <1>0, <1>1, <1>8 DEF Judging
<1>21. Waiting' BY ONLY <1>0, <1>1, <1>8 DEF Waiting
<1> QED BY <1>11, <1>12, <1>13, <1>14, <1>15, <1>16, <1>17, <1>18, <1>19, <1>21 DEF ChallengeInv

LEMMA ChallengeNext ==
  ASSUME ChallengeInv, {"answers", "matches", "verdicts", "birth"} \subseteq Ordered,
         Null \notin EventId, [C!Next]_C!vars
  PROVE  ChallengeInv'
<1>1. CASE UNCHANGED C!vars
  <2>0. /\ ChallengeShapes /\ Answering /\ Underway /\ Newborn /\ EventsBorn
        /\ Linking /\ MatchesOf /\ PointsBack /\ Judging /\ Waiting
    BY DEF ChallengeInv
  <2>1. challenge' = challenge /\ match' = match /\ squad' = squad /\ calling' = calling
    BY <1>1 DEF C!vars, C!store
  <2>2. ChallengeShapes' BY ONLY <2>0, <2>1 DEF ChallengeShapes
  <2>3. Answering' BY ONLY <2>0, <2>1 DEF Answering
  <2>4. Underway' BY ONLY <2>0, <2>1 DEF Underway
  <2>5. Newborn' BY ONLY <2>0, <2>1 DEF Newborn
  <2>6. EventsBorn' BY ONLY <2>0, <2>1 DEF EventsBorn
  <2>7. Linking' BY ONLY <2>0, <2>1 DEF Linking
  <2>8. MatchesOf' BY ONLY <2>0, <2>1 DEF MatchesOf
  <2>9. PointsBack' BY ONLY <2>0, <2>1 DEF PointsBack
  <2>10. Judging' BY ONLY <2>0, <2>1 DEF Judging
  <2>11. Waiting' BY ONLY <2>0, <2>1 DEF Waiting
  <2> QED BY <2>2, <2>3, <2>4, <2>5, <2>6, <2>7, <2>8, <2>9, <2>10, <2>11 DEF ChallengeInv
<1>2. CASE C!Next
  <2>1. ASSUME NEW s \in Slot,
               \/ C!Insert(s) \/ C!SaveAnswer(s) \/ C!CreateEvent(s) \/ C!MakeMatch(s)
               \/ C!Link(s) \/ C!SaveProposal(s) \/ C!SaveAssign(s) \/ C!SaveStatus(s)
        PROVE  ChallengeInv'
    BY <2>1, ChallengeSteps, CreateEventKeeps, MakeMatchKeeps, LinkKeeps, MatchSteps, SquadSteps
  <2> QED BY <1>2, <2>1, CallsBegin, ChallengeSteps, SquadSteps DEF C!Next
<1> QED BY <1>1, <1>2

LEMMA ChallengeInit == C!Init => ChallengeInv
<1> SUFFICES ASSUME C!Init PROVE ChallengeInv OBVIOUS
<1> DEFINE none == C!NoChallenge
           plain == C!NoEvent
<1>1. /\ challenge = [c \in ChallengeId |-> none] /\ match = [e \in EventId |-> plain]
      /\ squad = {} /\ calling = [s \in Slot |-> C!Idle]
  BY DEF C!Init
<1>2. /\ none = [from |-> none.from, to |-> none.to, status |-> none.status,
                 eventId |-> none.eventId, unread |-> none.unread]
      /\ none.eventId = Null
  BY DEF C!NoChallenge
<1>3. /\ plain = [type |-> plain.type, of |-> plain.of, group |-> plain.group,
                  opponent |-> plain.opponent, proposal |-> plain.proposal,
                  status |-> plain.status, before |-> plain.before]
      /\ plain.type = "none"
  BY DEF C!NoEvent
<1> HIDE DEF none, plain
<1>4. IsCall(C!Idle) /\ \A s \in Slot : calling[s].op = "idle" BY <1>1, CallRecords
<1>5. ChallengeShapes BY <1>1, <1>2, <1>3, <1>4 DEF ChallengeShapes
<1>6. /\ Answering /\ Underway /\ Newborn /\ Linking /\ Judging
  BY <1>4 DEF Answering, Underway, Newborn, Linking, Judging, Building
<1>7. EventsBorn /\ MatchesOf BY <1>1, <1>3 DEF EventsBorn, MatchesOf
<1>8. PointsBack BY <1>1, <1>2 DEF PointsBack
<1>9. Waiting BY <1>1, <1>3, <1>4 DEF Waiting
<1> QED BY <1>5, <1>6, <1>7, <1>8, <1>9 DEF ChallengeInv

\* The match of a challenge is one and belongs to the two groups that agreed on it, and
\* nothing runs on it that waits for the other side's verdict (createChallengeEvent,
\* reviewProposal), whichever requests cross; if an answer, a verdict and the making of
\* the match are each done by one request at a time, and nobody moves the event before
\* it is a match.
THEOREM ChallengesStaySound ==
  ASSUME {"answers", "matches", "verdicts", "birth"} \subseteq Ordered, Null \notin EventId
  PROVE  C!Spec => []C!ChallengeSound
<1>1. ChallengeInv => C!ChallengeSound
  <2> SUFFICES ASSUME ChallengeInv PROVE C!ChallengeSound OBVIOUS
  <2>0. Linking /\ MatchesOf /\ PointsBack /\ Waiting BY DEF ChallengeInv
  <2>1. C!OneMatch BY <2>0 DEF MatchesOf, PointsBack, C!OneMatch, C!Matches, C!At
  <2>2. C!NothingUnagreed
    BY <2>0 DEF Waiting, C!NothingUnagreed, C!Matches, C!InFlight
  <2> QED BY <2>1, <2>2 DEF C!ChallengeSound
<1>2. C!Init => ChallengeInv BY ChallengeInit
<1>3. ChallengeInv /\ [C!Next]_C!vars => ChallengeInv' BY ChallengeNext
<1> QED BY <1>1, <1>2, <1>3, PTL DEF C!Spec

\* A challenge is accepted or rejected once, and a proposal the other side has accepted
\* stays accepted (respond: "The verdict is the end of the handshake"; reviewProposal),
\* under the same discipline.
THEOREM ChallengesAnsweredForGood ==
  ASSUME {"answers", "matches", "verdicts", "birth"} \subseteq Ordered, Null \notin EventId
  PROVE  C!Spec => [][C!AnsweredForGood]_C!vars
<1>1. ASSUME ChallengeInv, C!Next PROVE C!AnsweredForGood
  <2>0. ChallengeShapes /\ Answering /\ Newborn /\ Judging BY <1>1 DEF ChallengeInv
  <2>1. \A c \in ChallengeId : challenge[c].status \in {"accepted", "rejected"} =>
          challenge'[c].status = challenge[c].status
    <3> SUFFICES ASSUME NEW c \in ChallengeId, challenge[c].status \in {"accepted", "rejected"}
                 PROVE  challenge'[c].status = challenge[c].status
      OBVIOUS
    <3>0. challenge[c] = [from |-> challenge[c].from, to |-> challenge[c].to,
                          status |-> challenge[c].status, eventId |-> challenge[c].eventId,
                          unread |-> challenge[c].unread]
      BY <2>0 DEF ChallengeShapes
    <3>1. CASE challenge' = challenge BY <3>1
    <3>2. ASSUME NEW s \in Slot, C!Insert(s) PROVE challenge'[c].status = challenge[c].status
      <4>1. challenge'[c] = challenge[c] BY <2>0, <3>2 DEF C!Insert, ChallengeShapes
      <4> QED BY <4>1
    <3>3. ASSUME NEW s \in Slot, C!SaveAnswer(s)
          PROVE  challenge'[c].status = challenge[c].status
      <4>1. /\ challenge' = [challenge EXCEPT ![calling[s].id].status = calling[s].answer]
            /\ calling[s].id # c
        BY <2>0, <3>3 DEF C!SaveAnswer, C!At, Answering
      <4>2. challenge'[c] = challenge[c] BY <2>0, <4>1 DEF ChallengeShapes
      <4> QED BY <4>2
    <3>4. ASSUME NEW s \in Slot, C!Link(s) PROVE challenge'[c].status = challenge[c].status
      <4>1. challenge' = [challenge EXCEPT ![calling[s].id].eventId = calling[s].event]
        BY <3>4 DEF C!Link
      <4>2. CASE calling[s].id = c
        <5>1. challenge'[c] = [challenge[c] EXCEPT !.eventId = calling[s].event]
          BY <2>0, <4>1, <4>2 DEF ChallengeShapes
        <5> QED BY <3>0, <5>1, ChallengeFields
      <4>3. CASE calling[s].id # c
        <5>1. challenge'[c] = challenge[c] BY <2>0, <4>1, <4>3 DEF ChallengeShapes
        <5> QED BY <5>1
      <4> QED BY <4>2, <4>3
    <3>5. ASSUME NEW g \in Club, C!MarkRead(g) PROVE challenge'[c].status = challenge[c].status
      <4> DEFINE x == challenge[c].unread /\ challenge[c].to # g
      <4>1. challenge'[c] = [challenge[c] EXCEPT !.unread = x] BY <3>5 DEF C!MarkRead
      <4>2. x \in BOOLEAN OBVIOUS
      <4> HIDE DEF x
      <4> QED BY <3>0, <4>1, <4>2, ChallengeFields
    <3>6. \/ challenge' = challenge
          \/ \E s \in Slot : C!Insert(s) \/ C!SaveAnswer(s) \/ C!Link(s)
          \/ \E g \in Club : C!MarkRead(g)
      <4>1. ASSUME NEW s \in Slot,
                   \/ C!CreateEvent(s) \/ C!MakeMatch(s) \/ C!SaveProposal(s)
                   \/ C!SaveAssign(s) \/ C!SaveStatus(s)
            PROVE  challenge' = challenge
        BY <4>1 DEF C!CreateEvent, C!MakeMatch, C!SaveProposal, C!SaveAssign, C!SaveStatus
      <4>2. ASSUME NEW s \in Slot,
                   \/ \E g, h \in Club : C!Create(s, g, h)
                   \/ \E d \in ChallengeId :
                        \/ \E answer \in {"accepted", "rejected"} : C!Respond(s, d, answer)
                        \/ \E g \in Club : C!Propose(s, d, g)
                   \/ \E e \in EventId :
                        \/ C!Assign(s, e) \/ C!Resubmit(s, e) \/ C!Cancel(s, e) \/ C!Restore(s, e)
                        \/ \E verdict \in {"accepted", "rejected"} : C!Review(s, e, verdict)
                        \/ \E to \in C!Status : C!SetStatus(s, e, to)
            PROVE  challenge' = challenge
        BY <4>2 DEF C!Create, C!Respond, C!Propose, C!Assign, C!Resubmit, C!Cancel, C!Restore,
                    C!Review, C!SetStatus, C!Begin, C!store
      <4>3. ASSUME NEW e \in EventId, C!Unassign(e) PROVE challenge' = challenge
        BY <4>3 DEF C!Unassign
      <4> QED BY <1>1, <4>1, <4>2, <4>3, Zenon DEF C!Next
    <3> QED BY <3>1, <3>2, <3>3, <3>4, <3>5, <3>6
  <2>2. \A e \in EventId : match[e].type = "challenge" /\ match[e].proposal = "accepted" =>
          match'[e].proposal = "accepted"
    <3> SUFFICES ASSUME NEW e \in EventId, match[e].type = "challenge",
                        match[e].proposal = "accepted"
                 PROVE  match'[e].proposal = "accepted"
      OBVIOUS
    <3>0. match[e] = [type |-> match[e].type, of |-> match[e].of, group |-> match[e].group,
                      opponent |-> match[e].opponent, proposal |-> match[e].proposal,
                      status |-> match[e].status, before |-> match[e].before]
      BY <2>0 DEF ChallengeShapes
    <3>1. CASE match' = match BY <3>1
    <3>2. ASSUME NEW s \in Slot, C!CreateEvent(s) PROVE match'[e].proposal = "accepted"
      <4>1. match'[e] = match[e] BY <2>0, <3>2 DEF C!CreateEvent, ChallengeShapes
      <4> QED BY <4>1
    <3>3. ASSUME NEW s \in Slot, C!MakeMatch(s) PROVE match'[e].proposal = "accepted"
      <4>1. calling[s].event # e BY <2>0, <3>3 DEF C!MakeMatch, C!At, Newborn
      <4>2. match'[e] = match[e] BY <2>0, <3>3, <4>1 DEF C!MakeMatch, ChallengeShapes
      <4> QED BY <4>2
    <3>4. ASSUME NEW s \in Slot, C!SaveProposal(s) PROVE match'[e].proposal = "accepted"
      <4>1. calling[s].id # e BY <2>0, <3>4 DEF C!SaveProposal, C!At, Judging
      <4>2. match'[e] = match[e] BY <2>0, <3>4, <4>1 DEF C!SaveProposal, ChallengeShapes
      <4> QED BY <4>2
    <3>5. ASSUME NEW s \in Slot, C!SaveStatus(s) PROVE match'[e].proposal = "accepted"
      <4>1. \/ match' = match
            \/ match' = [match EXCEPT ![calling[s].id].status = calling[s].status,
                                     ![calling[s].id].before = calling[s].before]
        BY <3>5 DEF C!SaveStatus
      <4>2. CASE match' = match BY <4>2
      <4>3. CASE match'[e] = [match[e] EXCEPT !.status = calling[s].status,
                                              !.before = calling[s].before]
        <5> DEFINE q == match'[e]
                   x == calling[s].status
                   y == calling[s].before
        <5>1. q = [match[e] EXCEPT !.status = x, !.before = y] BY <4>3
        <5> HIDE DEF q, x, y
        <5>2. q = [type |-> match[e].type, of |-> match[e].of, group |-> match[e].group,
                   opponent |-> match[e].opponent, proposal |-> match[e].proposal,
                   status |-> x, before |-> y]
          BY <3>0, <5>1, MatchFields
        <5>3. q.proposal = match[e].proposal BY <5>2
        <5> QED BY <5>3 DEF q
      <4>4. CASE match'[e] = match[e] BY <4>4
      <4> QED BY <2>0, <4>1, <4>2, <4>3, <4>4 DEF ChallengeShapes
    <3>6. \/ match' = match
          \/ \E s \in Slot : \/ C!CreateEvent(s) \/ C!MakeMatch(s)
                             \/ C!SaveProposal(s) \/ C!SaveStatus(s)
      BY <1>1, ZenonT(60) DEF C!Next, C!Insert, C!SaveAnswer, C!Link, C!MarkRead, C!SaveAssign,
           C!Create, C!Respond, C!Propose, C!Assign, C!Resubmit, C!Cancel, C!Restore, C!Review,
           C!SetStatus, C!Begin, C!store, C!Unassign
    <3> QED BY <3>1, <3>2, <3>3, <3>4, <3>5, <3>6
  <2> QED BY <2>1, <2>2 DEF C!AnsweredForGood, C!Matches
<1>2. ChallengeInv /\ [C!Next]_C!vars => [C!AnsweredForGood]_C!vars BY <1>1
<1>3. ChallengeInv /\ [C!Next]_C!vars => ChallengeInv' BY ChallengeNext
<1> QED BY <1>2, <1>3, ChallengeInit, PTL DEF C!Spec

-----------------------------------------------------------------------------
(* The parts in the behaviours of Society that are about them.  Such a behaviour is
   one of the part, the others being at rest: [SocietyNext]_societyVars is a step of
   the part, or one that leaves it alone, and it never changes the area. *)

LEMMA AreaKept == [SocietyNext]_societyVars => area' = area
BY DEF SocietyNext, societyVars

\* What CatalogueStaysSound says of the catalogue, in every behaviour of Society that is
\* about it: what is stored is listed, unless a profile repeats it, and what broke off
\* can be done again.
THEOREM CatalogueHolds ==
  ASSUME NullIsNothing
  PROVE  SocietySpec => []CatalogueSound
<1> DEFINE Here == area = "sports"
<1>1. SocietyInit => Sports!Init BY DEF SocietyInit
<1>2. [SocietyNext]_societyVars => (Here <=> Here') BY AreaKept
<1>3. Here /\ [SocietyNext]_societyVars => [Sports!Next]_(Sports!vars)
  BY DEF SocietyNext, societyVars, catalogueVars, Sports!vars, Sports!profile
<1>4. (Here => Sports!CatalogueSound) => CatalogueSound BY DEF CatalogueSound
<1> QED BY <1>1, <1>2, <1>3, <1>4, CatalogueStaysSound, PTL DEF SocietySpec, Sports!Spec

\* One live friendship per pair, and nothing open in the cool-down (FriendshipStaysSound),
\* in every behaviour of Society that is about friends.
THEOREM FriendshipHolds == SocietySpec => []FriendshipSound
<1> DEFINE Here == area = "friends"
<1>1. SocietyInit => F!Init BY DEF SocietyInit
<1>2. [SocietyNext]_societyVars => (Here <=> Here') BY AreaKept
<1>3. Here /\ [SocietyNext]_societyVars => [F!Next]_(F!vars)
  BY DEF SocietyNext, societyVars, friendVars, F!vars
<1>4. (Here => F!FriendshipSound) => FriendshipSound BY DEF FriendshipSound
<1> QED BY <1>1, <1>2, <1>3, <1>4, FriendshipStaysSound, PTL DEF SocietySpec, F!Spec

\* Seats promised within the capacity, acceptances on the roster, invitations between
\* friends (InvitationsStaySound), in every behaviour of Society that is about them.
THEOREM InvitationsHold ==
  ASSUME Careful, IsFiniteSet(Person), Capacity \in Nat
  PROVE  SocietySpec => []InvitationsSound
<1> IsFiniteSet(Slot) BY MembershipAssumption
<1> DEFINE Here == area = "invitations"
<1>1. SocietyInit => I!Init BY DEF SocietyInit
<1>2. [SocietyNext]_societyVars => (Here <=> Here') BY AreaKept
<1>3. Here /\ [SocietyNext]_societyVars => [I!Next]_(I!vars)
  BY DEF SocietyNext, societyVars, invitationVars, I!vars, I!store
<1>4. (Here => I!InvitationsSound) => InvitationsSound BY DEF InvitationsSound
<1> QED BY <1>1, <1>2, <1>3, <1>4, InvitationsStaySound, PTL DEF SocietySpec, I!Spec

\* One match for a challenge, and nothing before both sides agreed (ChallengesStaySound),
\* in every behaviour of Society that is about challenges.
THEOREM ChallengesHold ==
  ASSUME {"answers", "matches", "verdicts", "birth"} \subseteq Ordered, Null \notin EventId
  PROVE  SocietySpec => []ChallengeSound
<1> DEFINE Here == area = "challenges"
<1>1. SocietyInit => C!Init BY DEF SocietyInit
<1>2. [SocietyNext]_societyVars => (Here <=> Here') BY AreaKept
<1>3. Here /\ [SocietyNext]_societyVars => [C!Next]_(C!vars)
  BY DEF SocietyNext, societyVars, challengeVars, C!vars, C!store
<1>4. (Here => C!ChallengeSound) => ChallengeSound BY DEF ChallengeSound
<1> QED BY <1>1, <1>2, <1>3, <1>4, ChallengesStaySound, PTL DEF SocietySpec, C!Spec

\* Lists and rows of locations agree and keep their caps, and no location changes hands
\* (LocationsStaySound), in every behaviour of Society that is about them.
THEOREM LocationsHold ==
  ASSUME LocationBounds, Orderly
  PROVE  SocietySpec => LocationsSound
<1> DEFINE Here == area = "locations"
<1>1. SocietyInit => L!Init BY DEF SocietyInit
<1>2. [SocietyNext]_societyVars => (Here <=> Here') BY AreaKept
<1>3. Here /\ [SocietyNext]_societyVars => [L!Next]_(L!vars)
  BY DEF SocietyNext, societyVars, locationVars, L!vars
<1>4. [SocietyNext]_societyVars /\ [L!LocationsStep]_(L!vars)
        => [Here => L!LocationsStep]_<<area, locationVars>>
  BY AreaKept DEF locationVars, L!vars
<1>5. ~Here => [Here => L!LocationsStep]_<<area, locationVars>> OBVIOUS
<1> QED BY <1>1, <1>2, <1>3, <1>4, <1>5, LocationsStaySound, PTL
        DEF SocietySpec, L!Spec, LocationsSound

\* Nobody deleted holds a place, and nothing finished is touched (AccountDeparts), in
\* every behaviour of Society that is about an account.
THEOREM DeletionHolds ==
  ASSUME Quiet, Null \notin Q!Kind
  PROVE  SocietySpec => DeletionSound
<1> DEFINE Here == area = "account"
<1>1. SocietyInit => Q!Init BY DEF SocietyInit
<1>2. [SocietyNext]_societyVars => (Here <=> Here') BY AreaKept
<1>3. Here /\ [SocietyNext]_societyVars => [Q!Next]_(Q!vars)
  BY DEF SocietyNext, societyVars, accountVars, Q!vars
<1>4. [SocietyNext]_societyVars /\ [Q!DeletionStep]_(Q!vars)
        => [Here => Q!DeletionStep]_<<area, accountVars>>
  BY AreaKept DEF accountVars, Q!vars
<1>5. ~Here => [Here => Q!DeletionStep]_<<area, accountVars>> OBVIOUS
<1> QED BY <1>1, <1>2, <1>3, <1>4, <1>5, AccountDeparts, PTL
        DEF SocietySpec, Q!Spec, DeletionSound

\* Every answer is final, to whichever question: memberships, friend requests,
\* challenges and their proposals (AnswersSettleForGood, FriendsAnsweredForGood,
\* ChallengesAnsweredForGood), in the behaviours of Society that are about them.
THEOREM AnswersAreFinal ==
  ASSUME {"answers", "birth", "limit"} \subseteq Exclusive,
         {"answers", "matches", "verdicts", "birth"} \subseteq Ordered, Null \notin EventId
  PROVE  SocietySpec => AnswersSettle
<1> DEFINE Members == area = "members"
           Friends == area = "friends"
           Challenges == area = "challenges"
           Settles == /\ Members => AnswerSettles
                      /\ Friends => F!AnsweredForGood
                      /\ Challenges => C!AnsweredForGood
           changed == <<area, vars, friendVars, challengeVars>>
<1>1. SocietyInit => Init /\ F!Init /\ C!Init BY DEF SocietyInit
<1>2. [SocietyNext]_societyVars =>
        (Members <=> Members') /\ (Friends <=> Friends') /\ (Challenges <=> Challenges')
  BY AreaKept
<1>3. /\ Members /\ [SocietyNext]_societyVars => [Next]_vars
      /\ Friends /\ [SocietyNext]_societyVars => [F!Next]_(F!vars)
      /\ Challenges /\ [SocietyNext]_societyVars => [C!Next]_(C!vars)
  BY DEF SocietyNext, societyVars, friendVars, challengeVars, F!vars, C!vars, C!store
<1>4. [SocietyNext]_societyVars =>
        /\ Members => UNCHANGED friendVars /\ UNCHANGED challengeVars
        /\ Friends => UNCHANGED vars /\ UNCHANGED challengeVars
        /\ Challenges => UNCHANGED vars /\ UNCHANGED friendVars
        /\ Members \/ Friends \/ Challenges \/ UNCHANGED changed
  BY DEF SocietyNext, societyVars
<1>5. /\ ~(Members /\ Friends) /\ ~(Members /\ Challenges) /\ ~(Friends /\ Challenges)
  OBVIOUS
<1>6. [SocietyNext]_societyVars /\ Members /\ [AnswerSettles]_vars => [Settles]_changed
  BY <1>4, <1>5, AreaKept
<1>7. [SocietyNext]_societyVars /\ Friends /\ [F!AnsweredForGood]_(F!vars) => [Settles]_changed
  BY <1>4, <1>5, AreaKept DEF F!vars, friendVars
<1>8. [SocietyNext]_societyVars /\ Challenges /\ [C!AnsweredForGood]_(C!vars) => [Settles]_changed
  BY <1>4, <1>5, AreaKept DEF C!vars, C!store, challengeVars
<1>9. [SocietyNext]_societyVars /\ ~Members /\ ~Friends /\ ~Challenges => [Settles]_changed
  OBVIOUS
<1> QED BY <1>1, <1>2, <1>3, <1>6, <1>7, <1>8, <1>9, AnswersSettleForGood,
           FriendsAnsweredForGood, ChallengesAnsweredForGood, PTL
        DEF SocietySpec, Spec, F!Spec, C!Spec, AnswersSettle

=============================================================================
