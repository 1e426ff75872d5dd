----------------------------- MODULE Locations -----------------------------
(***************************************************************************)
(* The places groups play at (locations/locations.service.ts, and the      *)
(* parts of groups/groups.service.ts that touch them).  A location is a    *)
(* row with a creator and perhaps a group that owns it; a group keeps the  *)
(* ids of at most MAX_GROUP_LOCATIONS of them in a list.  The two are      *)
(* written separately: a row is inserted and then attached, deleted and    *)
(* then pulled, attached by a new group and then adopted by it.            *)
(*                                                                         *)
(* A group's staff (owner and admins) is chosen with it and stays.  The    *)
(* name and the pin, which update and updateForGroup change, are left out. *)
(***************************************************************************)
EXTENDS Naturals, FiniteSets

CONSTANTS User, Group,
          Location,   \* Location rows over time (a bound)
          MaxGroupLocations,
          Slot,       \* requests in flight at a time (a bound)
          Exclusive,  \* "birth": nobody acts on a group before the request that
                      \* creates it has returned; "removal": a location is not
                      \* removed while a group is created with it; "teardown":
                      \* no location is created in a group being deleted
          Null

VARIABLES
  location,  \* Location rows
  group,     \* Group documents: owner, staff and their list of locations
  request    \* what each request in flight still has to do

vars == <<location, group, request>>

-----------------------------------------------------------------------------
NoLocation == [phase |-> "none", createdBy |-> Null, groupId |-> Null]
NoGroup == [phase |-> "none", owner |-> Null, staff |-> {}, locations |-> {}]

There == {l \in Location : location[l].phase = "there"}
Live == {g \in Group : group[g].phase = "there"}

Idle == [op |-> "idle"]
InFlight(ops) == {s \in Slot : request[s].op \in ops}
Hold(s, r) == request' = [request EXCEPT ![s] = r]
Go(s, op) == Hold(s, [request[s] EXCEPT !.op = op])
Rest == \A s \in Slot : request[s] = Idle

\* An id is known once the request that made the row has answered.
Known == {l \in There : \A s \in InFlight({"attach", "undo"}) : request[s].l # l}

Settled(g) == "birth" \in Exclusive => \A s \in InFlight({"adopt"}) : request[s].g # g
Staff(g, u) == g \in Live /\ u \in group[g].staff /\ Settled(g)

Insert(l, u, g) ==
  /\ location[l] = NoLocation
  /\ location' = [location EXCEPT ![l] = [phase |-> "there", createdBy |-> u, groupId |-> g]]
Delete(l) == location' = [location EXCEPT ![l].phase = "deleted"]

-----------------------------------------------------------------------------
(* POST /locations *)

CreatePersonal(l, u) == Insert(l, u, Null) /\ UNCHANGED <<group, request>>

-----------------------------------------------------------------------------
(* createForGroup *)

Room(g) == g \in Live /\ Cardinality(group[g].locations) < MaxGroupLocations

CreateForGroup(s, u, g) ==
  /\ request[s] = Idle /\ Staff(g, u)
  /\ Cardinality(group[g].locations) < MaxGroupLocations
  /\ "teardown" \in Exclusive => \A t \in InFlight({"purge", "drop"}) : request[t].g # g
  /\ Hold(s, [op |-> "insert", g |-> g, by |-> u]) /\ UNCHANGED <<location, group>>

InsertRow(s) ==
  /\ request[s].op = "insert"
  /\ \E l \in Location :
       /\ Insert(l, request[s].by, request[s].g)
       /\ Hold(s, [op |-> "attach", g |-> request[s].g, l |-> l])
  /\ UNCHANGED group

\* The cap is part of the update's filter; a group that is full, or gone, takes
\* nothing, and the row is removed again.
Attach(s) ==
  /\ request[s].op = "attach"
  /\ LET g == request[s].g
     IN  IF Room(g)
         THEN /\ group' = [group EXCEPT ![g].locations = @ \cup {request[s].l}]
              /\ Hold(s, Idle)
         ELSE Go(s, "undo") /\ UNCHANGED group
  /\ UNCHANGED location

Undo(s) ==
  /\ request[s].op = "undo" /\ Delete(request[s].l)
  /\ Hold(s, Idle) /\ UNCHANGED group

-----------------------------------------------------------------------------
(* Groups: create with locationIds, and remove *)

\* Only locations the caller created may be named.
CreateGroup(s, u, g, ids) ==
  /\ request[s] = Idle /\ group[g] = NoGroup
  /\ Cardinality(ids) <= MaxGroupLocations
  /\ \A l \in ids : l \in Known /\ location[l].createdBy = u
  /\ "removal" \in Exclusive => \A t \in InFlight({"delete", "pull"}) : request[t].l \notin ids
  /\ \A t \in InFlight({"birth"}) : request[t].g # g
  /\ Hold(s, [op |-> "birth", g |-> g, by |-> u, ids |-> ids]) /\ UNCHANGED <<location, group>>

Birth(s) ==
  /\ request[s].op = "birth"
  /\ \E others \in SUBSET User :
       LET q == request[s]
       IN  group' = [group EXCEPT ![q.g] = [phase |-> "there", owner |-> q.by,
                                            staff |-> {q.by} \cup others, locations |-> q.ids]]
  /\ Go(s, "adopt") /\ UNCHANGED location

\* Mutant: whatever the caller created is taken over.
UnclaimedOrNot(l, u) == l \in There /\ location[l].createdBy = u
Unclaimed(l, u) == l \in There /\ location[l].createdBy = u /\ location[l].groupId = Null

\* adoptPersonalLocations
Adopt(s) ==
  /\ request[s].op = "adopt"
  /\ LET q == request[s]
     IN  location' = [l \in Location |->
           IF l \in q.ids /\ Unclaimed(l, q.by) THEN [location[l] EXCEPT !.groupId = q.g]
           ELSE location[l]]
  /\ Hold(s, Idle) /\ UNCHANGED group

DeleteGroup(s, g) ==
  /\ request[s] = Idle /\ Staff(g, group[g].owner)
  /\ "teardown" \in Exclusive =>
       \A t \in InFlight({"insert", "attach", "undo"}) : request[t].g # g
  /\ Hold(s, [op |-> "purge", g |-> g]) /\ UNCHANGED <<location, group>>

\* The group's own locations go; what other groups attached keeps its id there.
Purge(s) ==
  /\ request[s].op = "purge"
  /\ location' = [l \in Location |->
       IF l \in There /\ location[l].groupId = request[s].g
       THEN [location[l] EXCEPT !.phase = "deleted"] ELSE location[l]]
  /\ Go(s, "drop") /\ UNCHANGED group

Drop(s) ==
  /\ request[s].op = "drop"
  /\ group' = [group EXCEPT ![request[s].g] = [NoGroup EXCEPT !.phase = "deleted"]]
  /\ Hold(s, Idle) /\ UNCHANGED location

-----------------------------------------------------------------------------
(* removeForGroup *)

BelongsTo(g, l) == location[l].groupId = g \/ l \in group[g].locations

RemoveForGroup(s, u, g, l) ==
  /\ request[s] = Idle /\ Staff(g, u)
  /\ l \in Known /\ BelongsTo(g, l)
  /\ "removal" \in Exclusive => \A t \in InFlight({"birth", "adopt"}) : l \notin request[t].ids
  /\ Hold(s, [op |-> IF location[l].groupId = g THEN "delete" ELSE "detach", g |-> g, l |-> l])
  /\ UNCHANGED <<location, group>>

\* Attached but owned elsewhere: only the reference goes.
Detach(s) ==
  /\ request[s].op = "detach"
  /\ group' = [group EXCEPT ![request[s].g].locations = @ \ {request[s].l}]
  /\ Hold(s, Idle) /\ UNCHANGED location

DeleteRow(s) ==
  /\ request[s].op = "delete"
  /\ Delete(request[s].l) /\ Go(s, "pull") /\ UNCHANGED group

Pulled(l, g) == [h \in Group |-> [group[h] EXCEPT !.locations = @ \ {l}]]

Pull(s) ==
  /\ request[s].op = "pull"
  /\ group' = Pulled(request[s].l, request[s].g)
  /\ Hold(s, Idle) /\ UNCHANGED location

-----------------------------------------------------------------------------
Init ==
  /\ location = [l \in Location |-> NoLocation]
  /\ group = [g \in Group |-> NoGroup]
  /\ request = [s \in Slot |-> Idle]

Next ==
  \/ \E l \in Location, u \in User : CreatePersonal(l, u)
  \/ \E s \in Slot :
       \/ InsertRow(s) \/ Attach(s) \/ Undo(s)
       \/ Birth(s) \/ Adopt(s) \/ Purge(s) \/ Drop(s)
       \/ Detach(s) \/ DeleteRow(s) \/ Pull(s)
       \/ \E g \in Group :
            \/ DeleteGroup(s, g)
            \/ \E u \in User :
                 \/ CreateForGroup(s, u, g)
                 \/ \E ids \in SUBSET Location : CreateGroup(s, u, g, ids)
                 \/ \E l \in Location : RemoveForGroup(s, u, g, l)

Spec == Init /\ [][Next]_vars

-----------------------------------------------------------------------------
(* Properties *)

\* However many admins create at once, a group's list never outgrows the cap
\* ("Re-check the cap atomically: a concurrent create may have filled the last
\* slot").
CapHolds == \A g \in Group : Cardinality(group[g].locations) <= MaxGroupLocations

\* Between requests the list and the rows agree: what a group lists is there
\* (unless its owning group was deleted since, which removes the row and not the
\* reference: see the README), and what a live group owns it lists, so that every
\* location can be found and counts.
ListMatchesRows ==
  Rest =>
    /\ \A g \in Live : \A l \in group[g].locations :
         l \in There \/ location[l].groupId \in Group \ (Live \cup {g})
    /\ \A l \in There : location[l].groupId # Null =>
         location[l].groupId \in Live /\ l \in group[location[l].groupId].locations

\* A location that a group owns never comes to belong to another ("creating a
\* group could quietly steal another group's venue").
NeverReassigned ==
  \A l \in Location : location[l].groupId # Null => location'[l].groupId = location[l].groupId

LocationsStep == CapHolds /\ ListMatchesRows /\ NeverReassigned

=============================================================================
