------------------------------- MODULE Photos -------------------------------
(***************************************************************************)
(* The photos of one group and of its events (photos/photos.service.ts,    *)
(* and the routes that use it).  A photo is a row here and a file at an    *)
(* image host, made and unmade in separate steps that may fail; an event's *)
(* photo is shown in its group's gallery too.                              *)
(*                                                                         *)
(* Who may do what (organizers, owners and admins) does not change here.   *)
(* A cover or a logo, which is a field of its owner, is left out.          *)
(***************************************************************************)
EXTENDS EventLifecycle, Naturals, FiniteSets

CONSTANTS Event,       \* the group's events
          Club,        \* the group
          Photo,       \* photos over time (a bound)
          MaxPhotosPerTarget,
          MaxGalleryPhotosPerGroup,
          Slot,        \* requests in flight at a time (a bound)
          Exclusive,   \* "uploads": one upload at a time; "teardown": none while
                       \* the group is deleted
          Null

VARIABLES
  event,    \* status of each event, or "deleted"
  club,     \* "there" or "deleted"
  photo,    \* per photo: whether its file is at the host, and its row's target
  faulty,   \* a call to the host, or the process, has failed
  request   \* what each request in flight still has to do

vars == <<event, club, photo, faulty, request>>

-----------------------------------------------------------------------------
Target == Event \cup {Club}
Exists(t) == IF t = Club THEN club = "there" ELSE event[t] # "deleted"

Of(t) == {p \in Photo : photo[p].on = t}
Listed == {p \in Photo : photo[p].on # Null}
Files == {p \in Photo : photo[p].file = "there"}

\* listForGroup: the group's own photos and those of its events.
Gallery == Listed

Idle == [op |-> "idle"]
InFlight(ops) == {s \in Slot : request[s].op \in ops}
Hold(s, r) == request' = [request EXCEPT ![s] = r]
Rest == \A s \in Slot : request[s] = Idle

Fails(s) == faulty' = TRUE /\ Hold(s, Idle) /\ UNCHANGED photo

-----------------------------------------------------------------------------
(* add *)

\* addPhoto, and the group's own route
MayAdd(t) == IF t = Club THEN club = "there" ELSE event[t] # "deleted" /\ CanSubmitResult(event[t])

\* Both caps are counted before the upload.
UnderCaps(t) ==
  /\ t # Club => Cardinality(Of(t)) < MaxPhotosPerTarget
  /\ Cardinality(Gallery) < MaxGalleryPhotosPerGroup

Add(s, t) ==
  /\ request[s] = Idle /\ MayAdd(t) /\ UnderCaps(t)
  /\ "uploads" \in Exclusive => InFlight({"upload", "insert"}) = {}
  /\ "teardown" \in Exclusive => InFlight({"events", "purge", "sweep"}) = {}
  /\ Hold(s, [op |-> "upload", on |-> t]) /\ UNCHANGED <<event, club, photo, faulty>>

Upload(s) ==
  /\ request[s].op = "upload"
  /\ \/ \E p \in Photo :
          /\ photo[p].file = "none"
          /\ photo' = [photo EXCEPT ![p].file = "there"]
          /\ Hold(s, [op |-> "insert", on |-> request[s].on, p |-> p]) /\ UNCHANGED faulty
     \/ Fails(s)
  /\ UNCHANGED <<event, club>>

\* A failure here leaves the file without a row.
Insert(s) ==
  /\ request[s].op = "insert"
  /\ \/ /\ photo' = [photo EXCEPT ![request[s].p].on = request[s].on]
        /\ Hold(s, Idle) /\ UNCHANGED faulty
     \/ Fails(s)
  /\ UNCHANGED <<event, club>>

-----------------------------------------------------------------------------
(* remove, removeAllForTarget *)

\* Mutant: the file goes first.
FileFirst(ps) == [p \in Photo |-> IF p \in ps THEN [photo[p] EXCEPT !.file = "gone"] ELSE photo[p]]
RowsFirst(ps) == [p \in Photo |-> IF p \in ps THEN [photo[p] EXCEPT !.on = Null] ELSE photo[p]]

Remove(s, p) ==
  /\ request[s] = Idle /\ p \in Listed /\ Exists(photo[p].on)
  /\ photo' = RowsFirst({p})
  /\ Hold(s, [op |-> "sweep", left |-> {p}, then |-> Null])
  /\ UNCHANGED <<event, club, faulty>>

\* The file of a row that is gone; a failure is logged and passed over.
Sweep(s) ==
  /\ request[s].op = "sweep"
  /\ \E p \in request[s].left :
       /\ \/ photo' = [photo EXCEPT ![p].file = "gone"] /\ UNCHANGED faulty
          \/ faulty' = TRUE /\ UNCHANGED photo
       /\ Hold(s, [request[s] EXCEPT !.left = @ \ {p}])
  /\ UNCHANGED <<event, club>>

Swept(s) ==
  /\ request[s].op = "sweep" /\ request[s].left = {}
  /\ club' = IF request[s].then = Club THEN "deleted" ELSE club
  /\ Hold(s, Idle) /\ UNCHANGED <<event, photo, faulty>>

-----------------------------------------------------------------------------
(* Events and the group *)

SetStatus(e, to) ==
  /\ event[e] # "deleted" /\ CanTransition("no_match", event[e], to)
  /\ event' = [event EXCEPT ![e] = to]
  /\ UNCHANGED <<club, photo, faulty, request>>

\* Neither this nor removeAllForGroup touches the events' photos.
RemoveEvent(e) ==
  /\ event[e] # "deleted" /\ CanModify(event[e])
  /\ event' = [event EXCEPT ![e] = "deleted"]
  /\ UNCHANGED <<club, photo, faulty, request>>

\* GroupsService.remove: the events, then the group's own photos, the group last.
RemoveGroup(s) ==
  /\ request[s] = Idle /\ club = "there" /\ InFlight({"purge", "events"}) = {}
  /\ "teardown" \in Exclusive => InFlight({"upload", "insert"}) = {}
  /\ Hold(s, [op |-> "events"]) /\ UNCHANGED <<event, club, photo, faulty>>

RemoveAllForGroup(s) ==
  /\ request[s].op = "events"
  /\ event' = [e \in Event |-> "deleted"]
  /\ Hold(s, [op |-> "purge", left |-> Of(Club)]) /\ UNCHANGED <<club, photo, faulty>>

\* deleteMany names the target, so it takes rows the find did not return; when it
\* returned none there is no deleteMany.
Purge(s) ==
  /\ request[s].op = "purge"
  /\ photo' = IF request[s].left = {} THEN photo ELSE RowsFirst(Of(Club))
  /\ Hold(s, [op |-> "sweep", left |-> request[s].left, then |-> Club])
  /\ UNCHANGED <<event, club, faulty>>

-----------------------------------------------------------------------------
Init ==
  /\ event = [e \in Event |-> "playing"] /\ club = "there"
  /\ photo = [p \in Photo |-> [file |-> "none", on |-> Null]]
  /\ faulty = FALSE
  /\ request = [s \in Slot |-> Idle]

Next ==
  \/ \E s \in Slot :
       \/ \E t \in Target : Add(s, t)
       \/ \E p \in Photo : Remove(s, p)
       \/ Upload(s) \/ Insert(s) \/ Sweep(s) \/ Swept(s)
       \/ RemoveGroup(s) \/ RemoveAllForGroup(s) \/ Purge(s)
  \/ \E e \in Event : RemoveEvent(e) \/ \E to \in Status : SetStatus(e, to)

Spec == Init /\ [][Next]_vars

-----------------------------------------------------------------------------
(* Properties *)

\* No gallery ever shows a photo whose file is gone, whatever fails and however
\* requests overlap ("if ImageKit fails we would rather leak a file than leave a
\* row whose URL 404s").
NoBrokenPhoto == Listed \subseteq Files

\* An event's photos and the group's gallery, which holds those of its events
\* too, stay within their caps; with overlapping uploads they need not.
CapsHold ==
  "uploads" \in Exclusive =>
    /\ \A e \in Event : Cardinality(Of(e)) <= MaxPhotosPerTarget
    /\ Cardinality(Listed) <= MaxGalleryPhotosPerGroup

\* Until something fails, no file is left behind without a row; deleting a group
\* while a photo is uploaded to it does leave one.
NothingLeaked == "teardown" \in Exclusive /\ Rest /\ ~faulty => Files \subseteq Listed

\* Rows of what is no longer there.
Stranded == {p \in Listed : ~Exists(photo[p].on)}

\* A deleted group leaves none of its own photos behind, whatever fails; those of
\* its events stay, as do those of any deleted event, and nobody can remove them
\* any more.  ("An event's photos went with the event", groups.service.ts:740, is
\* not what removeAllForGroup does.)
GroupLeavesNone ==
  "teardown" \in Exclusive => \A p \in Stranded : photo[p].on \in Event

PhotosSound == NoBrokenPhoto /\ CapsHold /\ NothingLeaked /\ GroupLeavesNone

=============================================================================
