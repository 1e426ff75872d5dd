-------------------------------- MODULE Feed --------------------------------
(***************************************************************************)
(* Reading a list page by page while other requests change it.             *)
(*                                                                         *)
(* Every paged route shares common/pagination/cursor.ts: the next page is  *)
(* "everything after THIS row", not an offset, and a lookahead row says    *)
(* whether there is one.  A feed is one such list: how it sorts, which     *)
(* states of a row it shows, and how other requests may change a row while *)
(* a client is between two pages.  Rows are numbered by _id.               *)
(***************************************************************************)
EXTENDS Naturals, FiniteSets

CONSTANTS
  Row,          \* the rows a list may hold, by _id
  Key,          \* values of the field a list sorts by
  Limit,        \* the ?limit= values a client sends, Null for a bad one
  DefaultPage,  \* DEFAULT_PAGE_LIMIT
  MaxPage,      \* MAX_PAGE_LIMIT
  MaxChanges,   \* bound: changes by others during one reading
  Null

VARIABLES
  feed,     \* the list being read
  rows,     \* [Row -> Null or [key, state]]
  cursor,   \* the client's marker: Null before the first page
  ended,    \* nextCursor came back null
  got,      \* [Row -> how often the client was given the row]
  steady,   \* rows shown, and not re-keyed, since the reading began
  rekeyed,  \* rows whose sort key changed since it began
  changes

vars == <<feed, rows, cursor, ended, got, steady, rekeyed, changes>>

-----------------------------------------------------------------------------
(* The lists.  "oldest" reads a key upwards, "newest" downwards; ties says  *)
(* which way _id breaks them.  A list without a date is read by _id alone.  *)
(* lapses are the changes the route makes itself before it reads.           *)

ByDate(order, shown, steps, moves) ==
  [order |-> order, ties |-> order, dated |-> TRUE, shown |-> shown,
   steps |-> steps, lapses |-> {}, moves |-> moves]

ById(shown, steps) ==
  [order |-> "oldest", ties |-> "oldest", dated |-> FALSE, shown |-> shown,
   steps |-> steps, lapses |-> {}, moves |-> FALSE]

\* Reading a notification changes nothing the list sorts or filters by.
Notifications == ByDate("newest", {"unread", "read"}, {<<"unread", "read">>}, FALSE)

ChatHistory == ByDate("newest", {"sent"}, {}, FALSE)

\* ?type= narrows the ledger; a ledger line never changes.
FundTransactions == ByDate("newest", {"contribution"}, {}, FALSE)

\* ?category= narrows the expenses, which an edit can move and a delete hides.
GroupExpenses ==
  ByDate("newest", {"wanted"},
         {<<"other", "wanted">>, <<"wanted", "other">>, <<"wanted", "deleted">>}, FALSE)

\* Highest debt first, member id upwards: totals move as members pay.
GroupOutstanding ==
  [order |-> "newest", ties |-> "oldest", dated |-> TRUE, shown |-> {"owing"},
   steps |-> {<<"owing", "clear">>, <<"clear", "owing">>}, lapses |-> {}, moves |-> TRUE]

EventPayments == ById({"unpaid"}, {<<"unpaid", "paid">>, <<"paid", "unpaid">>})

FriendRequests ==
  ByDate("newest", {"PENDING"},
         {<<"PENDING", s>> : s \in {"ACCEPTED", "REJECTED", "CANCELLED"}}, FALSE)

\* Sorted by the name shown, which its owner may change at any time.
Friends == ByDate("oldest", {"friend"}, {<<"friend", "gone">>, <<"gone", "friend">>}, TRUE)

\* An event's date can be edited, and the clock carries it into the past.
UpcomingWithFriend ==
  ByDate("oldest", {"upcoming"}, {<<"upcoming", "past">>, <<"upcoming", "hidden">>}, TRUE)

PastWithFriend ==
  ByDate("newest", {"past"}, {<<"upcoming", "past">>, <<"past", "hidden">>}, TRUE)

\* The route expires the invitations of closed events before it reads.
ReceivedInvitations ==
  [ByDate("newest", {"PENDING", "STALE"},
          {<<"PENDING", "STALE">>, <<"PENDING", "ACCEPTED">>, <<"STALE", "REVOKED">>}, FALSE)
     EXCEPT !.lapses = {<<"STALE", "EXPIRED">>}]

\* An MVP award is deleted when it is taken back or given to another player;
\* a group's award is listed while the player keeps it as a memory.
PlayerAwards == ByDate("newest", {"OWN", "MEMORY"},
                       {<<"OWN", "gone">>, <<"MEMORY", "open">>, <<"open", "MEMORY">>}, FALSE)

GroupAwards == ByDate("newest", {"awarded"}, {}, FALSE)

\* Rating again overwrites the row and keeps its createdAt.
Ratings == ByDate("newest", {"rated"}, {<<"rated", "removed">>}, FALSE)

\* Renamed, made private or deleted accounts come and go.
UserSearch == ById({"match"}, {<<"match", "other">>, <<"other", "match">>})

GroupSearch == ById({"match"}, {<<"match", "other">>, <<"other", "match">>})

EventSearch ==
  ByDate("oldest", {"match"}, {<<"match", "finished">>, <<"other", "match">>}, TRUE)

Lists ==
  {Notifications, ChatHistory, FundTransactions, GroupExpenses, GroupOutstanding,
   EventPayments, FriendRequests, Friends, UpcomingWithFriend, PastWithFriend,
   ReceivedInvitations, PlayerAwards, GroupAwards, Ratings, UserSearch, GroupSearch,
   EventSearch}

StatesOf(f) == f.shown \union UNION {{s[1], s[2]} : s \in f.steps \union f.lapses}

Present(t) == {r \in Row : t[r] # Null}

Shown(f, t) == {r \in Present(t) : t[r].state \in f.shown}

-----------------------------------------------------------------------------
(* The keyset *)

\* A bad ?limit= falls back; any other is brought into 1..MAX_PAGE_LIMIT.
Clamp(limit) ==
  CASE limit = Null    -> DefaultPage
    [] limit = 0       -> 1
    [] limit > MaxPage -> MaxPage
    [] OTHER           -> limit

Beyond(order, a, b) == IF order = "oldest" THEN b > a ELSE b < a

\* Mutant: comparing the date alone drops the rows that share it.
AfterDateOnly(f, t, mark, r) ==
  IF f.dated THEN Beyond(f.order, mark.key, t[r].key) ELSE Beyond(f.ties, mark.id, r)

\* Strictly after the marker: a later date, or the same date and a later _id.
After(f, t, mark, r) ==
  \/ f.dated /\ Beyond(f.order, mark.key, t[r].key)
  \/ (f.dated => t[r].key = mark.key) /\ Beyond(f.ties, mark.id, r)

Mark(t, r) == [key |-> t[r].key, id |-> r]

Matching(f, t, mark) == {r \in Shown(f, t) : mark = Null \/ After(f, t, mark, r)}

\* The list's own order: by date, and by _id among equals.
Precedes(f, t, s, r) ==
  IF f.dated /\ t[s].key # t[r].key THEN Beyond(f.order, t[s].key, t[r].key)
  ELSE Beyond(f.ties, s, r)

FirstOf(f, t, S, n) == {r \in S : Cardinality({s \in S : Precedes(f, t, s, r)}) < n}

LastOf(f, t, S) == CHOOSE r \in S : \A s \in S \ {r} : Precedes(f, t, s, r)

Lapse(f, t) ==
  [r \in Row |->
     IF t[r] = Null \/ ~\E s \in f.lapses : s[1] = t[r].state
     THEN t[r]
     ELSE [t[r] EXCEPT !.state = (CHOOSE s \in f.lapses : s[1] = t[r].state)[2]]]

-----------------------------------------------------------------------------
Init ==
  /\ feed \in Lists
  /\ rows \in [Row -> {Null} \union [key : Key, state : StatesOf(feed)]]
  /\ steady = Shown(feed, rows)
  /\ got = [r \in Row |-> 0]
  /\ cursor = Null /\ ended = FALSE /\ rekeyed = {} /\ changes = 0

\* The client asks for the next page: limit + 1 rows after its marker, of
\* which it is given limit, and the marker of the last one when there was one
\* more (toPage).
ReadPage ==
  \E limit \in Limit :
    LET now   == Lapse(feed, rows)
        found == Matching(feed, now, cursor)
        items == FirstOf(feed, now, found, Clamp(limit))
        more  == Cardinality(found) > Clamp(limit)
    IN /\ ~ended
       /\ rows' = now
       /\ got' = [r \in Row |-> got[r] + IF r \in items THEN 1 ELSE 0]
       /\ cursor' = IF more THEN Mark(now, LastOf(feed, now, items)) ELSE Null
       /\ ended' = ~more
       /\ steady' = steady \intersect Shown(feed, now)
       /\ UNCHANGED <<feed, rekeyed, changes>>

\* Another request changes the list between two pages.
Another(t, moved) ==
  /\ ~ended
  /\ changes < MaxChanges
  /\ changes' = changes + 1
  /\ rows' = t
  /\ steady' = (steady \intersect Shown(feed, t)) \ moved
  /\ rekeyed' = rekeyed \union moved
  /\ UNCHANGED <<feed, cursor, ended, got>>

RowAppears ==
  \E r \in Row, k \in Key, s \in StatesOf(feed) :
    rows[r] = Null /\ Another([rows EXCEPT ![r] = [key |-> k, state |-> s]], {})

RowChanges ==
  \E r \in Present(rows) : \E s \in feed.steps :
    rows[r].state = s[1] /\ Another([rows EXCEPT ![r].state = s[2]], {})

RowMoves ==
  \E r \in Present(rows), k \in Key :
    feed.moves /\ rows[r].key # k /\ Another([rows EXCEPT ![r].key = k], {r})

Next == ReadPage \/ RowAppears \/ RowChanges \/ RowMoves

Spec == Init /\ [][Next]_vars

-----------------------------------------------------------------------------
(* Properties *)

\* A row that stayed in the list under one key for the whole reading was
\* given to the client exactly once, whatever else came, went or moved.
NothingSkipped == ended => \A r \in steady : got[r] = 1

\* A row whose key did not change is never given twice, even if it left the
\* list and came back.
NothingRepeated == \A r \in Row \ rekeyed : got[r] <= 1

\* While pages remain, every steady row was given or is still ahead.
RestIsAhead ==
  cursor # Null =>
    \A r \in steady : got[r] = 1 <=> r \notin Matching(feed, rows, cursor)

\* Keyset paging is "stable under concurrent writes" (cursor.ts).
FeedSound == NothingSkipped /\ NothingRepeated /\ RestIsAhead
=============================================================================
