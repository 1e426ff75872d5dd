--------------------------- MODULE SportCatalogue ---------------------------
(***************************************************************************)
(* The catalogue of sports and their formats, and the documents that store *)
(* its values (sport-types/sport-types.service.ts, with the writes of      *)
(* groups and events that choose a sport): a group, its events, events and *)
(* templates outside any group, and a user's interests.                    *)
(*                                                                         *)
(* A request that changes the catalogue or the group's sport takes several *)
(* writes.  It may fail at any of them, half done where the write is an    *)
(* updateMany, and is then sent again before anybody asks for something    *)
(* else; requests do not overlap.  The order of a sport's formats, display *)
(* names and the like are left out.                                        *)
(*                                                                         *)
(* A profile is an array nobody keeps free of repetitions, here a bag: a   *)
(* user's sports; their preferred sports are written the same way.         *)
(***************************************************************************)
EXTENDS Sequences, Naturals, FiniteSets

CONSTANTS Sport, Format,
          Grouped,    \* events of the group
          Alone,      \* events and templates outside it
          Null

VARIABLES
  catalogue,    \* sports listed, with their formats
  groupSport,   \* Group.sportType
  holder,       \* sportType and subType of events and templates
  interest,     \* how many times a user's profile lists each sport
  repeated,     \* it was saved with one of them more than once (history)
  work          \* the request under way, and its next write

profile == <<interest, repeated>>
vars == <<catalogue, groupSport, holder, profile, work>>

-----------------------------------------------------------------------------
Holder == Grouped \cup Alone
NoHolder == [sport |-> Null, format |-> Null]
Existing == {h \in Holder : holder[h].sport # Null}

Listed == {x \in Sport : catalogue[x].listed}
Formats(x) == catalogue[x].formats

\* assertValid
Valid(x, f) == x \in Listed /\ (f # Null => f \in Formats(x))

\* What a user may save (a bound: of two sports, two mentions).
Profile == {p \in [Sport -> 0..2] : \A x, y \in Sport : x # y => p[x] + p[y] <= 2}
Interests(p) == {x \in Sport : p[x] > 0}

Used(x) == x = groupSport \/ x \in Interests(interest) \/ \E h \in Holder : holder[h].sport = x
FormatUsed(x, f) == \E h \in Holder : holder[h] = [sport |-> x, format |-> f]

Rest == [op |-> "rest"]
Resting == work = Rest

-----------------------------------------------------------------------------
(* Requests of a single write *)

\* EventsService.create, update: an event of the group carries the group's sport.
SaveEvent(h, x, f) ==
  /\ Resting /\ Valid(x, f)
  /\ h \in Grouped /\ groupSport # Null => x = groupSport
  /\ holder' = [holder EXCEPT ![h] = [sport |-> x, format |-> f]]
  /\ UNCHANGED <<catalogue, groupSport, profile, work>>

DeleteEvent(h) ==
  /\ Resting /\ h \in Existing
  /\ holder' = [holder EXCEPT ![h] = NoHolder]
  /\ UNCHANGED <<catalogue, groupSport, profile, work>>

UpdateProfile(sports) ==
  /\ Resting /\ Interests(sports) \subseteq Listed
  /\ interest' = sports /\ repeated' = (\E x \in Sport : sports[x] > 1)
  /\ UNCHANGED <<catalogue, groupSport, holder, work>>

CreateSport(x) ==
  /\ Resting /\ x \notin Listed
  /\ \E fs \in SUBSET Format : catalogue' = [catalogue EXCEPT ![x] = [listed |-> TRUE, formats |-> fs]]
  /\ UNCHANGED <<groupSport, holder, profile, work>>

AddSubType(x, f) ==
  /\ Resting /\ x \in Listed /\ f \notin Formats(x)
  /\ catalogue' = [catalogue EXCEPT ![x].formats = @ \cup {f}]
  /\ UNCHANGED <<groupSport, holder, profile, work>>

RemoveSubType(x, f) ==
  /\ Resting /\ x \in Listed /\ f \in Formats(x) /\ ~FormatUsed(x, f)
  /\ catalogue' = [catalogue EXCEPT ![x].formats = @ \ {f}]
  /\ UNCHANGED <<groupSport, holder, profile, work>>

-----------------------------------------------------------------------------
(* Requests of several writes: what they ask before the first, and the     *)
(* writes in their order                                                   *)

Ask ==
  [op : {"group"}, to : Sport] \cup [op : {"remove"}, of : Sport, to : Sport \cup {Null}]
    \cup [op : {"rename"}, of : Sport, from : Format, to : Format]

Accepted(a) ==
  CASE a.op = "group" -> a.to \in Listed
    [] a.op = "remove" -> /\ a.of \in Listed /\ a.to # a.of
                          /\ IF a.to = Null THEN ~Used(a.of) ELSE a.to \in Listed
    [] a.op = "rename" -> /\ a.of \in Listed /\ a.from \in Formats(a.of)
                          /\ a.to \notin Formats(a.of)

\* Mutant: holders change sport before their formats are looked at.
MoveThenClear(a) == <<"move", "clear", "group", "drop", "swap", "delete">>

\* reassignSport: a format named like the sport that goes is taken; otherwise
\* formats the new sport lacks are cleared, and then the sport changes.
Reassignment(a) ==
  IF a.of \in Formats(a.to) THEN <<"take", "group", "drop", "swap", "delete">>
  ELSE <<"clear", "move", "group", "drop", "swap", "delete">>

RenameWrites == <<"rename", "row">>

GroupWrites == <<"set", "carry", "fit">>

Writes(a) ==
  CASE a.op = "group" -> GroupWrites
    [] a.op = "rename" -> RenameWrites
    [] a.op = "remove" -> IF a.to = Null THEN <<"delete">> ELSE Reassignment(a)

\* What an updateMany makes of one holder.
Changed(a, w, h) ==
  LET d == holder[h]
      of == w \in {"take", "clear", "move"} /\ d.sport = a.of
      stray == d.format \notin Formats(a.to) \cup {Null}
  IN  CASE w = "take" /\ of -> [sport |-> a.to, format |-> a.of]
        [] w = "clear" /\ of /\ stray -> [d EXCEPT !.format = Null]
        [] w = "move" /\ of -> [d EXCEPT !.sport = a.to]
        [] w = "rename" /\ d = [sport |-> a.of, format |-> a.from] -> [d EXCEPT !.format = a.to]
        [] w = "carry" /\ h \in Grouped \cap Existing -> [d EXCEPT !.sport = a.to]
        [] w = "fit" /\ h \in Grouped \cap Existing /\ stray -> [d EXCEPT !.format = Null]
        [] OTHER -> d

\* Of a profile that lists both, the sport that goes is pulled out; where the new one is
\* missing, it takes the place of the first mention of the old.
Reassigned(a, w) ==
  CASE w = "drop" /\ {a.of, a.to} \subseteq Interests(interest) -> [interest EXCEPT ![a.of] = 0]
    [] w = "swap" /\ a.of \in Interests(interest) ->
         [interest EXCEPT ![a.of] = @ - 1, ![a.to] = @ + 1]
    [] OTHER -> interest

Write(a, w) ==
  /\ holder' = [h \in Holder |-> Changed(a, w, h)]
  /\ groupSport' = IF w = "set" \/ (w = "group" /\ groupSport = a.of) THEN a.to ELSE groupSport
  /\ interest' = Reassigned(a, w) /\ UNCHANGED repeated
  /\ catalogue' = CASE w = "row" -> [catalogue EXCEPT ![a.of].formats = (@ \ {a.from}) \cup {a.to}]
                    [] w = "delete" -> [catalogue EXCEPT ![a.of] = [listed |-> FALSE, formats |-> {}]]
                    [] OTHER -> catalogue

Begin(a) ==
  /\ Resting /\ Accepted(a)
  /\ work' = [op |-> "doing", asked |-> a, left |-> Writes(a)]
  /\ UNCHANGED <<catalogue, groupSport, holder, profile>>

Step ==
  /\ work.op = "doing"
  /\ Write(work.asked, Head(work.left))
  /\ work' = IF Len(work.left) = 1 THEN Rest ELSE [work EXCEPT !.left = Tail(@)]

\* The connection is lost: the write may have reached some holders, a write to
\* one document none.
Fail ==
  /\ work.op = "doing"
  /\ \E reach \in SUBSET Holder :
       holder' = [h \in Holder |-> IF h \in reach THEN Changed(work.asked, Head(work.left), h)
                                   ELSE holder[h]]
  /\ work' = [op |-> "failed", asked |-> work.asked]
  /\ UNCHANGED <<catalogue, groupSport, profile>>

Retry ==
  /\ work.op = "failed" /\ Accepted(work.asked)
  /\ work' = [op |-> "doing", asked |-> work.asked, left |-> Writes(work.asked)]
  /\ UNCHANGED <<catalogue, groupSport, holder, profile>>

-----------------------------------------------------------------------------
Init ==
  /\ catalogue \in [Sport -> {[listed |-> TRUE, formats |-> fs] : fs \in SUBSET Format}]
  /\ groupSport \in Sport \cup {Null}
  /\ holder = [h \in Holder |-> NoHolder]
  /\ interest = [x \in Sport |-> 0] /\ repeated = FALSE
  /\ work = Rest

Next ==
  \/ \E h \in Holder :
       \/ DeleteEvent(h)
       \/ \E x \in Sport, f \in Format \cup {Null} : SaveEvent(h, x, f)
  \/ \E sports \in Profile : UpdateProfile(sports)
  \/ \E x \in Sport : \/ CreateSport(x)
                      \/ \E f \in Format : AddSubType(x, f) \/ RemoveSubType(x, f)
  \/ \E a \in Ask : Begin(a)
  \/ Step \/ Fail \/ Retry

Spec == Init /\ [][Next]_vars

-----------------------------------------------------------------------------
(* Properties *)

\* When no request is under way, nothing stores a sport or a format the catalogue
\* does not list, and the group's events carry its sport ("A group event's
\* sportType is always its group's", events.service.ts:1652): however many of the
\* requests before failed at whichever of their writes, and were sent again.  Only a
\* profile saved with a sport more than once may keep one that is gone: a reassignment
\* replaces its first mention (sport-types.service.ts:259, which is to move "every
\* group, event, template and user profile").
ValuesListed ==
  Resting =>
    /\ \A h \in Existing : Valid(holder[h].sport, holder[h].format)
    /\ groupSport # Null => \A h \in Grouped \cap Existing : holder[h].sport = groupSport
    /\ {groupSport} \ {Null} \subseteq Listed
    /\ ~repeated => Interests(interest) \subseteq Listed

\* A request that failed is accepted when it is sent again: what its first writes
\* changed does not stand in its way ("a failed request can simply be retried",
\* sport-types.service.ts:209).
Retryable == work.op = "failed" => Accepted(work.asked)

CatalogueSound == ValuesListed /\ Retryable

=============================================================================
