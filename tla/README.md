# KicKR backend: specification and verification

TLA+ models of the KicKR backend (NestJS, MongoDB through Mongoose, Socket.io), the TLC
runs that check them on small instances, and proofs for every instance.  The reference is
`src/`; `PROJECT.json` maps each definition to the lines it stands for.

## The system

The backend runs amateur sports: groups of players organise events, challenge each other,
hold tournaments, collect money for events and keep a fund per group.  It is one
stateless HTTP service, possibly in several instances, over one MongoDB.  There is no job
queue and no clock-driven work: everything that happens is a request handler, and handlers
of different requests interleave wherever they await the database.  MongoDB makes one
write to one document atomic; only the finance service uses transactions.  So the hard
behaviours are nearly all of one kind: **state read before an await and used after it**,
a **row and a counter written one after the other**, and **a legal sequence of calls that
ends where no single handler expects**.

### Inventory

| component | state | operations | interacts with | hard behaviour | what makes it correct |
|---|---|---|---|---|---|
| event roster (`events/events.service.ts`) | `Event.joinedCount`, `EventPlayer` rows (registered, guest, walk-in) | join, leave, removePlayer, addGuest, setGuestApproval, removeGuest, joinAnonymous, removeAnonymous, assignPlayers, respondInvitation, unassignPlayer | lifecycle; payments read the roster; teams are built from it; event invitations and administrators write it too | capacity under concurrent joins; a counter beside the rows; guests who follow their sponsor; rows reactivated | the counter is the number of seats; no overselling; no guest without a sponsor |
| event lifecycle (`events.lifecycle.ts`, `events.service.ts`) | `Event.status`, `statusBeforeCancel`, `cancelReason`, `proposedStatus` | setStatus, cancel, restore, update, reviewProposal, resubmitProposal, applyGroupSportType, remove | every roster and team operation is gated by it; groups change its sport | load, decide, save the whole decision; two tables swapped under an event | played events stay played; a reason exactly while cancelled; nothing runs before a proposal is accepted |
| payments (`events.service.ts`) | `EventPayment` rows | submitPayment, reviewPayment | reads price and roster; posts to the fund on a settled event | reads outside the transaction; resubmission against review; prices that move; rows older than `paidAmount` | what was approved is what was counted |
| finance (`finance/`) | `EventExpense`, `EventSettlement`, `GroupFund`, `GroupFundTransaction`, fee adjustments | create/update/deleteExpense, updateFee, settle, reopen, onPaymentReviewed | payments; event price, status and end time; group owner and cashier | transactions and their retries; settle, late payment, reopen, settle again | the ledger adds up; a settlement is posted once; expenses are frozen; the ledger matches the payments |
| teams, fixtures, standings (`events.service.ts`, `events.fixtures.ts`, `events.formation.ts`) | `Team`, `EventMatch`, team chats, `EventPlayer.team` | generateTeams, shuffleTeams, assignTeamPlayers, addMatch, setMatchScore, captains, formations | roster, lifecycle, awards | rebuilt in several writes; tied together by names; references into a roster that moves | a player is in one team, and rows, fixtures and rooms say so; round robin is complete; standings follow the scores; a score is never lost |
| tournaments (`tournaments/`) | `Tournament`, phases, groups, teams, matches, invitations | register, join by code, invite and answer, format, draw, fixtures, start, results, ties, withdrawal, qualification, bracket | groups | results racing the end of a phase; conditional moves of the status; walkovers and locks along a bracket; a draw replaced in several writes | each phase ends once, with everything played; a winner is where it should be; rankings are total |
| groups and membership (`groups/`, `invitations/`) | `Group`, `GroupMember` | create, request, approve, join by code, leave, remove, roles, cashier, payment details, delete | events, finance, challenges, tournaments ask for roles | check then write on capacity and cashier | one owner; capacity; the cashier is a member |
| friends (`friends/friends.service.ts`) | `Friendship` rows, unique per active pair | request, answer, cancel, unfriend | event invitations require friendship | crossed requests; answer against cancel; daily limits counted then used | one live friendship per pair; a request is answered once |
| event invitations (`friends/event-invitations.service.ts`) | `EventInvitation` rows | invite, accept, decline, revoke, expiry on read | takes seats on the roster | seat, claim, row, with compensation | accepted means seated; no seat is lost |
| challenges (`challenges/`, `createChallengeEvent`) | `Challenge` rows | create, respond, create the event | groups, events | two pending at once; three writes to create the event | one pending per pair; one event per challenge |
| results and awards (`events.service.ts`, `awards/`) | `Event.result`, `Award` rows | submitResult, submitMvp, awardMvp, revokeMvp, challenge award, memories | after a match; the award of a challenge when it is archived | the MVP is kept twice; delete then create; a request breaks off between its writes | result and award name one MVP; the winner holds the award |
| likes and ratings (`events.service.ts`, `ratings/`) | `EventLike` rows and `Event.likeCount`, `Rating` rows | like, unlike, rate, remove | rosters and finished events decide who may rate | a counter beside rows; a check that is old when the row is written; rosters that change after the match | the counter is the rows; a rating is by somebody who was there |
| photos (`photos/`) | `Photo` rows, files at an image host | add, remove, removal of a group's own with it | events, groups | file and row; two caps counted before; deleted owners | no row without its file; caps; nothing left of a deleted group |
| lists (`common/pagination/`, the list routes) | none | seventeen paged feeds, five lists of events | read everything | a list that changes between two pages; the same rule written five times | every row once; the lists agree on who sees what |
| account deletion (`users/users.service.ts`) | `User.deletedAt` | deleteAccount | cancels events, leaves rosters | many writes over other parts, any of which may refuse | nobody deleted holds a place; history stays |
| sports catalogue (`sport-types/`) | `SportType` rows, values copied into groups, events, templates, users | add, rename, delete and reassign, a group's change of sport | groups, events, users | several `updateMany`, retried after a failure; a profile may repeat a sport | only listed values are stored |
| locations (`locations/`) | `Location` rows, `Group.locations` | create, attach, detach, remove | groups | list and rows written apart; a cap | list and rows agree; the cap holds |
| authentication (`auth/`) | Cognito | sign-up, sign-in | users | the provider's | |
| notifications, push, chat | rows, sockets | create, read, send | told by everyone | best effort | none that others rely on |
| admin, countries, app config, plans, formations, health | rows edited one by one | CRUD, bulk join | read by the rest | weekly plan limits are counted, then used | |

## What is modelled

| module | models |
|---|---|
| `EventFunds` | payments, expenses, fee, settlement and fund of a group's events: one action per operation, and per stage of an operation that reads first and writes later |
| `FundPromise` | the fund as its readers understand it: settle, reopen, late payment, balance |
| `SumLemmas`, `EventFundsProofs` | facts about sums over finite sets, and the theorems about `EventFunds` and, in `Funds`, `Feed` |
| `EventRosterProofs` | theorems about `EventRoster`: types and steps; seats, guests and lifecycle |
| `TournamentEntryProofs`, `TournamentLeagueProofs` | theorems about registration and draw, and about the end of a league |
| `KnockoutProofs` | theorems about `KnockoutBracket` |
| `SocietyInvariants`, `SocietyProofs` | the inductive invariants of the parts of `Society`, and the theorems about them |
| `MatchDayProofs` | theorems about the parts of `MatchDay` |
| `EventLifecycle` | the transition tables and gates, a pure module as in the code |
| `EventRoster` | one event's roster, counter, guests, walk-ins, challenge players and lifecycle |
| `EventFixtures` | the fixture generator, the deal and the table of an event, pure functions |
| `EventTeams` | the teams, fixtures, scores and rooms of one event, beside a roster and a lifecycle that move |
| `Aftermath` | result, MVP, challenge award and memories, one step per write, any of which may fail; a request that breaks off leaves a mark (`owed`, `missed`) |
| `Ratings`, `Photos` | likes and ratings, one step per read or write, beside rosters that change at any time; photo rows, files and their caps |
| `EventLists`, `Feed` | who finds an event in which list; reading a paged list while it changes |
| `GroupMembership` | one group: requests, answers, departures, roles, cashier, limit, deletion |
| `Friendship`, `EventInvitations` | the handshake under its unique index; invitations with the seats they take and the friendships they rest on |
| `Challenge` | the handshake of two groups, the match event in three writes, the proposal, what waits for it |
| `AccountDeletion` | one account's way out, through its events and rosters |
| `SportCatalogue`, `Locations` | values copied into other documents; rows and the lists of ids that name them |
| `TournamentEntry` | one tournament's registrations, invitations, draw and withdrawals, up to and during its league |
| `TournamentEngine` | the pure half of tournaments: group draws, fixtures, standings, qualification, seeding; a shuffle is a set of outcomes |
| `TournamentLeague` | the league of one tournament and the review after it, from the draw to the start of the knockout |
| `KnockoutBracket` | the knockout phase of one tournament, from its bracket to its placements |
| `Funds`, `MatchDay`, `Society` | parts side by side, see "Areas": `EventFunds` and `Feed`; `EventTeams`, `Aftermath`, `Photos`, `Ratings` and `EventLists`; `GroupMembership`, `Locations`, `SportCatalogue`, `Friendship`, `EventInvitations`, `Challenge` and `AccountDeletion` |
| `MCEventFunds`, `MCEventRoster`, `MCEventTeams`, `MCAccountDeletion`, `MCEntry`, `MCKnockout`, `MCFunds`, `MCMatchDay`, `MCSociety` | the values of a small instance, for the module they are named after |
| `MCLeague` | two kinds of small leagues side by side |

**How state corresponds.**  A Mongoose document is a record, a collection a function from
its key; an absent row is a value of its own (`NoRow`, `NoGuest`, `"none"`).  Amounts are
integers: the code computes in satang and converts at the edges.  A request in flight is a
record in `request`: the operation's next stage and exactly what the handler has read and
will still use.  The number of `Slot`s bounds the requests in flight.  A handler's guard
is evaluated in the step that reads what the guard looks at; a refused request disappears.
What a transaction does is one step, because its writes conflict on the settlement row;
`ReviewAbort` is a transaction that aborts after it saved the document and is retried.

In `KnockoutBracket` a handler calls itself through others (`decideTie`, `placeTeam`,
`maybeWalkover`, `decideTie` again), so a request is a list of steps still to do: one step
per write or per read that something depends on, taken from the front, which may put
further steps before the rest.  A match is `<<round, slot, leg>>`; the match for third is
the one in the round after the final.

In `TournamentEntry` a request's record says which step comes next: a registration takes
its place, looks for a duplicate and creates its row; an acceptance has a claim before
that and a link or a hand-back after it.  `drawn` stands for the rows of groups and
rounds, of which only the teams matter here.  The draw is three steps: it reads the teams,
writes its rows and closes registration, while entrants go on; `meanwhile` remembers whose
registration held a place in between.

In `TournamentLeague` a result passes five steps: the match is saved, its group read, the
standings cached, the end of the league looked for, the qualification run.  `status` in a
request is the status it loaded, which the code keeps using: it decides whether an edit
after completion reopens a league, or a result qualifies anew.  Matches are counted in
play order; standings keep the tallies and the blocks of teams level after all
tiebreakers.  A bracket is the teams of its first round; what is played in it is
`KnockoutBracket`'s.  Mongo's order of ids and the shuffles of a draw are choices: a draw
by lot takes its team orders from `settings.shuffles`, a few of them.

In `EventTeams` names hold things together as they do in the code: a row, a fixture and a
room each say only the name of their team.  A shuffle is the one team request with stages:
it reads the roster, rebuilds, deals, and assigns team after team with the checks of an
assignment by hand, while people come and go.  `EventLists` has no requests: its actions
move the event, the group and the caller's standing, and the routes are operators that
say whether the caller sees the event.  In `Feed` a client asks for one page after the
other; each of the seventeen feeds has its order, the states it shows, and the changes its rows
go through.  `Aftermath`, `Photos`, `SportCatalogue` and `AccountDeletion` have a step in
which a request breaks off.  `Ratings` remembers who was on which roster when (`there`,
`together`): a rating outlives its rater's place.  In `SportCatalogue` a profile is a bag of
sports, for the array has no order that matters but may say a sport twice; a reassignment
replaces one mention.

**What is abstracted.**  Texts, dates, receipts, notifications, chat archival and HTTP
errors.  Time appears as `ended`, which the environment switches.  Roles appear as sets
(`Owner`, `Cashier`, `Manager`); who is an organizer is not told apart, since it leaves no
trace.  `assignPlayers` handles its list as one request per player, each reading the gates
again (the code reads them once for the list).

## The runs

| run | instance | shows |
|---|---|---|
| `funds` (pass) | one event, one member, one request at a time, ledger up to 4 rows; four areas: fees 1 and 2 with the cashier's price 2 and one expense; one fee, settled and reopened more often; expenses of 1 and 3 with a legacy row, aborts and retries; and seventeen feeds of three rows read by twos, with two changes meanwhile | a settled event's contribution is what was collected minus its expenses, and the snapshot is current; the balance chain, the totals, frozen expenses, one posting per settlement; the refinement of `FundPromise`; no page skips or repeats a row |
| `two_reviews` (violation) | two requests at a time | both approve the same submission: two late payments, one paid amount |
| `seats` (pass) | two players, three guest rows, one walk-in, an allowance of two guests, capacity 1 then 2, all kinds of event, two requests at a time about different people | the counter is the roster; the cancellation record; nothing happens before a proposal is accepted; history; frozen rosters |
| `overlap` (pass) | two players, one guest row, one walk-in, capacity 1 then 2, a match, two requests at a time about different people, either of which may be about the event | the status, a cancellation, a restore or an edit lands between any two stages of a join or a leave: the counter is never short, nobody is oversold, guests keep their sponsors |
| `withdrawn_guest` (violation) | one request at a time | a withdrawn guest can be approved, and is counted |
| `knockout` (pass) | four teams with a match for third; five teams with three byes in a bracket of eight, both with two requests and two withdrawals; the five teams with two legs per tie, one request and one withdrawal | winners and semi-final losers are where they go on, through corrections, forfeits and walkovers; results below a played match are locked; the placements follow the last correction; a cancelled tournament stays so; there is always a match to play; a withdrawn team's tie is decided without the organizer |
| `entry` (pass) | three captains, one group invited twice, two or three places, two requests in flight | places are counted through rollbacks and withdrawals; an accepted invitation has its team and is answered once; what is drawn is who takes part, but for those who registered across the draw |
| `tournament` (pass) | area "ranking": nine leagues - three groups of two (twice), two of three (twice), one of four, each played with every combination of a win by one, a loss by two and a draw with a booking; seven teams in two and three groups by lot with clubs kept apart, six from pots of two and one, one group of five, drawn and given fixtures.  Area "disturbed": a group of three with and without a knockout, two groups of two without; wins by one and draws, two results in flight, one changed result or restructuring, two withdrawals, three layouts by hand, changes of seeding | fixtures are a rested round robin of the promised length; draws are even; every place in a table is explained by a criterion; the order of the draw decides nothing that was not put to the organizer; brackets are seeded apart; the league ends once, whatever raced; what qualified, the bracket and the placements are what the results and rulings say; a cancelled tournament stays so |
| `matchday` (pass) | two players and a guest, three kinds of event, one pair of own names; one MVP of two players, three scores; three photos, caps 1 and 2; likes: two users and two events, three likes, two requests in flight; ratings: the same, one request that rates at a time; one event, one caller, every standing | players, captains, rows, fixtures and rooms tell of the same teams; scores and places are not lost; result and award name one MVP, and the winner has its award, but for the requests that broke off; files, rows and caps; likes and ratings; six routes agree |
| `society` (pass) | three users and limits 1 and 2; three friends; one seat and two invitations; two challenges and one event; one account and two events; two users, groups and locations; two sports, a profile of up to two mentions; two requests in flight | one owner; one live friendship per pair, and cool-downs; seats for the accepted; one match per challenge and nothing before its proposal is accepted; answers settle; values are listed; list and rows agree; nobody deleted holds a place |
| `shuffle_guests` (violation) | one player and two guests | they are dealt separately, both remainders to the first team: the shuffle is refused after the old teams are gone |
| `account_deletion` (violation) | one account, two events | an account on an open challenge cannot be deleted, and each attempt cancels its events first |

**Areas.**  Parts that share no state are checked in one run: the variable `area` chooses
one of them in the initial state, its module's `Next` moves its variables, and those of
the others rest in one state.  The states explored are the sum of the parts', never the
product, and a property of a part is asked in the behaviours about it.  The instances are
as small as the property needs to go wrong; the theorems say the same of every size.

The violations are disagreements between the code and what its own comments say of it;
`PROJECT.json` quotes each.

**Known differences no run shows.**  Found while modelling, and kept out of the passing
runs by the constant or the bound named with them, or left as the models have them:

- Three teams and a match for third: the bye semi-final has no loser, the match never gets
  its second team, the tournament never completes (`tournament-phases.service.ts:1433`).
  `SomethingToPlay` fails with three teams.
- Groups of different sizes with a best-of-the-rest place: which result a bigger group's
  team loses is decided by teams whose tie nobody was asked to resolve
  (`tournament-engine.ts:757`).  The leagues of `ranking` have groups of one size when
  they are played to the end.
- Deleting a group deletes its locations but not their ids in other groups' lists
  (`Locations`: `ListMatchesRows` excepts them).
- Renaming a team by hand leaves its old name on the rows of the players it loses, on its
  fixtures and on its room (`events.service.ts:2171`).  `Rename` is empty in `matchday`.
- An event's photos stay when the event is deleted, with its group or alone, rows and
  files, and nobody can remove them any more: `removeAllForGroup` (`events.service.ts:1817`)
  never touches them, though `groups.service.ts:740` and the change log of 2026-09-13,
  section 6, say they "went with the event" through it.  `GroupLeavesNone` of `Photos` is
  false without the words "photo[p].on \in Event".
- A challenge's winner whose award could not be written never gets it: the failure is
  logged (`events.service.ts:2786`), or the process stops after "done" was saved (1465), and
  "done" is final, so the "retried `done`" of `awards.service.ts:170` never comes.
  `WinnerHolds` of `Aftermath` is false
  without `missed`.
- A profile that says a sport twice keeps one mention when the sport is reassigned and
  deleted: `$set 'sports.$'` replaces the first (`sport-types.service.ts:259`), though the
  function "moves every group, event, template and user profile".  `ValuesListed` of
  `SportCatalogue` is false without `repeated`.
- A team that registers while the draw is made, between its read of the teams and the close
  of registration (`tournament-phases.service.ts:359`, 441), is approved and in no group.
  `DrawCurrent` of `TournamentEntry` is false without `meanwhile`.
- Deleting a match event leaves its id on the challenge, which then can get no other.
- Two groups that challenge each other at once get two open challenges; two proposals of
  one challenge at once get two matches (`Challenge`, "matches").
- A challenge made public by an edit admits walk-ins before its proposal is accepted
  (`Unforeseen` in `EventRoster`).
- Overlapping uploads pass a photo cap by one (`Photos`, "uploads"); overlapping likes of
  one person leave the counter too high (`Ratings`, `overlap`).
- The MVP requests and the result each write back the whole result they read: overlapping,
  one blanks the other's half (`Aftermath`, "results").
- A private group's public event is found by list and search; the maker of a private
  event outside any group finds it in no list (`EventLists` shows both).
- Two results of one group may cache its standings in crossed order; the older table stays
  until the next result, and nothing is decided by it.

**Why the bounds are enough.**  Every property speaks of one event's money or one event's
seats, and every request of at most one person: two people and two requests already give
every pair of stages an interleaving, three guests exceed an allowance of two,
and capacities 1 and 2 are reached and, by an edit, fall below what is seated.  `MaxLedger`
stops exploring, it does not stop the code: the proofs have no such bound on what they say.
A knockout needs four teams for a match
for third and five for byes that meet a full tie in round two; one score, 1-0, suffices,
since a forfeit, a second leg or penalties make the away team win.  The two-legged
bracket takes one request at a time, for a tie's two legs concern the same teams.
Teams need two players and a guest for a remainder of each kind, and three colours for a
shuffle that reuses two of them; the fixture functions are compared with their definitions
for two to seven teams.  Two of everything, with two requests, is what a friendship, a
challenge, a removed location or a last seat takes to go wrong.
A league needs three teams in a group for a tie that a criterion splits in part, four for
a circle that rotates both ways, five and seven for a phantom and uneven groups, two
groups of two sizes for results to be dropped; in the area "disturbed" a team with under half of its
matches and one with half of them withdraw, and with two withdrawals a group may have no
match left.  `MaxMatches` keeps the larger leagues from being played, not from being drawn.
Deadlock is checked in the funds runs; the roster runs turn it off because an archived
event is final and may leave nothing to do, the tournament runs because a tournament ends,
and the others because their documents run out.

**Disciplines, stated as constants.**  The code has no lock on a person or an event,
and some properties are false when two requests about the *same* person overlap: two
joins take two seats for one row, a guest added while the sponsor leaves stays behind.
`Exclusive` lists the restrictions of a run.  With "person", requests in flight are about
different people.  With "event", a request about the event itself runs alone.  `overlap`
has only the first.  What needs the second is the equality of
counter and roster (a leave that finds the event closed keeps its seat, so the counter
may exceed the roster but never fall short of it) and the lifecycle's own promises.
With `Exclusive` empty, a status change read before a cancellation and saved after it
leaves a live event with a cancellation reason (`CancelRecord`).  `Unforeseen` names two
sequential requests the code accepts that its comments do not expect, and the passing
runs are the roster without them: `withdrawn_guest` is the run with the one, and with the
other, an edit that makes a proposed challenge public, walk-ins join a match that exists
only on paper (`CancelRecord` has that part, `OnPaper`).
Likewise `LedgerMatchesPayments` and `SnapshotCurrent` hold for one request in flight,
without retries and without legacy rows, which is what `LedgerFollowsPayments` asks;
`two_reviews` is the counterpart, and asking it of the area "retries" gives two further
counterexamples (a retried approval posts without saving the row; an edited fee revalues
legacy rows).  `SettleSeesThePrice`, asked of the area "prices", gives another: a fee change
between a settlement's load and its lock is not in the figure the settlement records.

The knockout has the same discipline as `Apart`: requests in flight are about different
teams.  A result concerns the teams of its match, a withdrawal the team and those it meets
or has met, and a correction or a result for a withdrawn team concerns everyone, so it
runs alone.  Without it the code has races the properties rule out: two withdrawals in
one tie both give a walkover, an organizer's score lands between the placing of a
withdrawn team and its walkover, a correction overlaps the result that should lock it.

`TournamentEntry` takes the organizer's requests one at a time, the draw from its read to
its close among them, and registers different captains.  Registrations and answers overlap
with all of it.  With `Crossed` FALSE the organizer invites a group again only when none of
its answers is in flight; with TRUE a claim cannot be handed back beside a newer
invitation, so it stays accepted without a team (`AcceptedIsIn`, a part of `SeatsCounted`).
A draw whose process stops between its rows and its close is left out: registration would
stay open and whoever registers then be in no group, until the organizer draws again.

`TournamentLeague` lets new results overlap each other and a cancellation; a changed
result and the organizer's other requests run `Alone`.  Without that, a result loaded in
review clears the bracket of a knockout that has started meanwhile, and an edit that
overlaps the last result may lose its re-qualification.  The league starts from closed
registration, every result carries its cards, and a change of format in the knockout is
taken to be refused once a team of the bracket withdrew (its walkover has been played).

The parts of `society` and `matchday` each name what must not overlap for their properties
to hold; without it:

| constant | what then goes wrong |
|---|---|
| `GroupMembership`: "answers", "birth", "limit" | an answer that read the request deletes a member approved since; the owner's own request meets the row their creation is about to make; approvals counted under an old limit pass a lower one |
| `Friendship`: `OneAtATime` | a user who sends twice at once has a request open during the cool-down |
| `EventInvitations`: `Careful` | a person who leaves twice at once gives two seats back; an invitation sent while the friendship ends outlives it |
| `Challenge`: "answers", "matches", "verdicts", "birth" | an answer overwrites the other; one challenge has two matches; a revision reopens an accepted proposal; the new event is moved on before it is a match |
| `AccountDeletion`: `Quiet` | a roster joined, or an event made, after the look is kept by the deleted account |
| `Locations`: "birth", "removal", "teardown" | a group is acted on before it owns what it lists; created with the id of a removed location; or deleted while a location is created in it |
| `Aftermath`: "results", "archive" | one write of the result blanks the other's half; the award goes by a score entered too late |
| `Photos`: "uploads", "teardown" | a cap is passed; a file is left at the host |
| `EventTeams`: one building request at a time, `Rename`, `Overfull` | half of one set of teams beside half of another; old names; the violation `shuffle_guests` |

`SportCatalogue` takes requests one at a time, each retried until it is through.

**Fairness.**  The other parts assume none and claim no liveness: no handler
waits for another and nothing in the service runs by itself.  The knockout assumes weak
fairness of each request's next step, since an accepted handler runs to its end; nobody
has to make a request.  Under it `WalkoverComes` says that a withdrawn team never stays
in a ready tie.

## What is proved

With `tlapm`, for every value of the constants that meets the modules' assumptions: any
finite sets of people, rows and requests in flight, any prices, limits and capacities.
Hardly any of these properties is inductive alone; each rests on an inductive invariant,
most of which TLC checked on small instances first.  "Needs" are hypotheses on the
constants beyond the module's own assumptions: the disciplines under which the runs check
the property ("The runs" says what goes wrong without each of them) and, not repeated in
the table, that `Null` is none of the values it stands beside.

| theorem | states | needs | invariant |
|---|---|---|---|
| **`EventFundsProofs`** | | | |
| `TypeCorrect`, `LedgerChainHolds`, `SettledOnceHolds`, `FundTotalsHold`, `ExpensesStayFrozen` | `TypeOK`, `LedgerChain`, `SettledOnce`, `FundTotals`, `ExpensesFrozen` | nothing | `IInv` |
| `Implements` | `ImplementsPromise`: the handlers refine `FundPromise` | nothing | `IInv` |
| `LedgerFollowsThePayments` | `LedgerMatchesPayments`, `SnapshotCurrent` | one slot, no retries, no legacy rows | `FollowInv` |
| `FeedHolds` | `FeedSound` | finitely many rows; numbers as rows, keys and limits, a page of at least one | `FeedInv` |
| **`EventRosterProofs`** | | | |
| `TypeCorrect` | `TypeOK` | nothing | `TypeInv` |
| `GuestsStayWithSponsors` | `GuestsHaveSponsors` | "person"; no withdrawn guest judged | `RosterInv` |
| `CapacityStaysGuarded` | `CapacityGuarded` | the same, and a setting with the largest capacity (a finite set has one) | `CapInv` |
| `SeatsStayConserved` | `SeatsConserved` | "person", "event", nothing `Unforeseen` | `BooksInv` |
| `CancelStaysRecorded`, `HistoryIsKept` | `CancelRecord`, `HistoryStays` | "event"; no challenge made public | `LifeInv` |
| **`TournamentEntryProofs`** | | | |
| `TypeCorrect`, `AnsweredOnceHolds` | `TypeOK`, `AnsweredOnce` | nothing | `CountInv` |
| `SeatsStayCounted` | `SeatsCounted` | `Crossed` FALSE | `CountInv`, `AnswersInv` |
| `DrawStaysCurrent` | `DrawCurrent` | nothing (the organizer's requests one at a time, as modelled) | `DrawInv` |
| **`TournamentLeagueProofs`** | | | |
| `LeagueEndsOnce` | `LeagueEnds` | nothing | `LeagueInv` |
| `CancelledForGood` | `CancelIsFinal` | nothing | none: each step preserves it |
| **`KnockoutProofs`** | | | |
| `Knocks` | `KnockoutInv` | `OneByOne` | |
| `TheyAdvance`, `PlacementsFollow`, `AlwaysAMatch` | `WinnersAdvance`, `PlacementsCurrent`, `SomethingToPlay` | `OneByOne` | `KnockoutInv` |
| `LockedResultsStay` | `ResultsLocked` | `OneByOne` | `KnockoutInv` |
| **`SocietyProofs`** | | | |
| `OneOwnerHolds` | `OneOwner` | "birth" | `OwnerInv` |
| `AnswersAreFinal` | `AnswersSettle`: memberships, friend requests, challenges and proposals | "birth", "answers", "limit"; and for the challenges what they need below | `OwnerInv`, `AnswersInv`, `FriendshipInv`, `ChallengeInv` |
| `LocationsHold` | `LocationsSound` | "birth", "removal", "teardown"; finitely many locations, a cap | `LocationInv` |
| `CatalogueHolds` | `CatalogueSound` | nothing (requests one at a time, as modelled) | `SportInv` |
| `DeletionHolds` | `DeletionSound` | `Quiet` | `AccountInv` |
| `FriendshipHolds` | `FriendshipSound` | nothing (a part of it is about `OneAtATime`) | `FriendshipInv` |
| `InvitationsHold` | `InvitationsSound` | `Careful`; finitely many users and requests, a capacity | `InvitationInv` |
| `ChallengesHold` | `ChallengeSound` | "answers", "matches", "verdicts", "birth" | `ChallengeInv` |
| **`MatchDayProofs`** | | | |
| `RatingsHold` | `RatingsSound` | finitely many requests | `RatingInv` |
| `PhotosHold` | `PhotosSound` (its parts about caps, leaks and deleted groups name the discipline they need) | nothing | `PhotoInv` |
| `AftermathHolds` | `AftermathSound` | "results", "archive" | `AftermathInv` |
| `ListsHold` | `ListsAgree` | nothing | `ListInv` |
| `TeamsStayInStep` | `TeamsAgree` | `TeamBounds` | `TeamsInv` |
| `NothingIsLost` | `NothingLost` | `TeamBounds`; nobody over size (`Overfull` FALSE) | `TeamsInv` |

`TeamBounds`: finitely many players and guests, lists of distinct colours and names,
colours for as many teams as those people could make (up to four, or the six there are),
the two clubs of a challenge by different names, and no team renamed while it has members.
It also holds the two facts the prover cannot compute, for it has no definition of
`SelectSeq` and `FlattenSeq`: the legs of the round robin are between teams there are
(`LegsWithinTeams`), and the colours not taken are enough (`ColoursSuffice`).  TLC computes
both (`Computed` of `MCEventTeams`): the first for every number of teams the code allows,
the second for the colours of the instance.

`OneByOne`: one request in flight, and no bye in a two-round bracket with a match for
third, where three teams get stuck (see "Known differences"), nor in a bracket of one
round, which the code draws for two teams.  The number of teams, of withdrawals and of
legs, the draw, the scores and the match for third are whatever the bracket's assumption
allows, up to four rounds.  What overlaps without harm is `Apart`'s part, and left to TLC.

### The arguments

**Parts side by side.**  The theorems about `Society`, `MatchDay` and, in `Funds`, `Feed` are proved of
the part first, for its own specification.  A behaviour of the whole that starts in an
area stays in it (`AreaKept`), so it takes that part's steps or leaves it alone: it
satisfies the part's specification, and what is proved of the part holds.

**Money.**  `IInv` joins the types, the balance chain, and that a settled event's
`fundTransactionId` names its own last `EVENT_SETTLEMENT` row.  Reopening needs the last
part, for it reads the amount to reverse from that row; the totals need the frozen
expenses, for a reversal subtracts the recorded ones.  Every step either leaves the money
alone, posts a row for one event (`PostFundTransaction`, about which the lemmas are stated
once) or writes an unsettled event's expenses.  The refinement follows from `IInv` and the
sum lemmas: appending a row changes one event's late total, or none.  `FollowInv` adds what
the only request in flight read: its row is still what it was, so what the review posts
is the difference to what was counted before.

**Sums.**  `SumLemmas` proves what is needed about `SumFunctionOnSet`, which is a `CHOOSE`
of a recursive function: its first half shows, by least counterexamples over the cardinality
of finite sets, that a table of partial sums exists; the facts after it (what a sum does
when an element or a value changes) rest on the table's entries alone.

**Pages.**  The rows of a list are in a strict total order whichever way it reads (`TotalOrder`),
so the first rows of what is found are all of it up to their last one (`PageGives`).  Then
`GivenOrAhead`: what was given under a key that stayed lies behind the marker, and what stays
in the list was given or lies ahead.  The marker only moves on (`AfterAll`).

**Requests that act on what they read.**  Every other invariant has the same core: for each
request in flight, what of its earlier read is still true.  A discipline is used exactly
where nothing else would keep that true, so the proofs also show where it is *not* needed.

- *Roster.*  `Reads` says what a request knows of its person's rows, kept because others
  are about other people.  `Balance` is the counter, with what requests still owe it, over the
  seats in use and reserved.  A step moves these amounts so that they cancel, unless a move
  downwards finds the event closed and is skipped, which leaves `Balance` above zero:
  hence `Balance \in Nat` suffices for `CapacityGuarded`.  With requests about the event
  running alone, what such a request read (`EventFits`) holds when it saves, no move is
  skipped (`NeverSkips`), and `Balance = 0`.
- *Registration.*  `CountInv` counts places as teams, late rows and requests holding one;
  `AnswersInv` ties every accepted invitation to its team or to the one request that still
  works on it; that an invitation is answered once comes from the conditional claim alone.
  `DrawInv` follows a draw through its three steps: until it closes, whoever has become a
  team since the read, or is about to, held a place meanwhile (`Made`, `Outside`); after it
  nobody gets a place without the registration opening again, which voids it.
- *League.*  Who has still to save has an unplayed match, one each; and while the league is
  not moved on after its last match, somebody who saved has still to look (`SomebodyLooks`).
  So whichever result looks last sees everything played, however the looks are ordered.
- *Knockout.*  A request is the list of what it has still to do, and `InStep` speaks of the
  bracket and that list together.  `Rows`: a row is what its leg is for, with teams that
  started below it.  `GoodSteps`: each step says what the bracket will say when it is taken -
  whoever is to be placed has won, or lost, the tie below, and disturbs no result; a result
  to save is new, says what is there, or is a correction below which nothing is played.
  `Carried`: who has won is in the next match, or on the list; likewise `Covered`, of ties that a
  withdrawn team could play, and `Ending`, of the end.  With nothing on the list these are the
  properties.  `SomethingToPlay` then takes the first round with a tie that is not decided:
  its teams have come from below, so it is ready, and nobody in it has withdrawn.
- *Groups.*  No accepted request is about the owner's row, by the four times of a group:
  before its creation, before the owner's row, with it, after its rows are erased
  (`BeforeCreation`, `BeforeOwnerRow`, `OwnerSafe`, `AfterErasure`).  `ApprovalsBounded`
  counts members and approvals in flight together, each accepted below the limit.
- *Locations.*  A row and the list that names it are two writes, so the invariant says
  which may be ahead and whose request is then in flight: a listed row that is gone is being
  pulled or went with its group (`ListsLive`), a row not yet listed is being attached or
  taken back (`OwnedListed`).  `UnderTheCap` is kept by the guard of the update itself and,
  for a new group, by the check of the list it is created with.
- *Sports.*  `Ahead` says what each write of a request has settled by the time it is behind,
  and `Halfway` what may stay as it is when it breaks off; `Sensible`, that what was accepted
  stays acceptable, is why a request can be sent again.  Of a profile both speak only while
  it repeats nothing.
- *An account.*  `Departing`: what the request has left to cancel, or to leave, is all that
  is left, since nothing joins in while it runs.
- *Friends.*  That a pair has one live row needs only the unique index; that nobody asks in
  their cool-down needs that a request about to create its row found none (`FreshSends`).
- *Event invitations.*  `SeatsCovered` counts the seats taken, those held for a request and
  those given up whose departure is not counted yet; `AcceptedSeated` and `RestsOn` say
  which row, friendship or request in flight an invitation goes by.
- *Challenges.*  The match is made in three writes, so the invariant says of each challenge
  which match is its own at every stage (`Underway`, `Newborn`, `Linking`, `PointsBack`),
  and of each verdict in flight that it is the only one (`Judging`).
- *Likes.*  `CountersCover`: the counter with the counts on their way is never short of
  the rows; a repeated unlike only makes it larger, being clamped.  `CountersExact` adds,
  where nothing overlapped, that each count on its way is about a user of its own.
- *Photos.*  A row's file is there because rows go before files and come after them:
  `Inserting` keeps what is about to get its row out of every sweep, and `Sweeping` what is
  about to lose its file out of every list.
- *Result and award.*  `Reached` says how far each request is with its two writes and
  `Carries` what it is about to write, so the one that is midway knows what the other
  half will be; `owed` remembers those that broke off, and `missed` the one that left the
  winner without its award.  `Deciding` gives the move to "done" the score it read.
- *Ratings.*  What a check found stays true of the past though not of the present, so the
  invariant says it of `there` and `together`, which only grow (`Remembered`).
- *Teams.*  Rows and squads tell of each other (`RowsTell`) after every write, so a shuffle
  that is overtaken by somebody joining or leaving harms nobody else's place.  `Shuffling`
  adds what the shuffle knows while nobody did: the teams it built are empty and have room
  for all it read (`ReadyToDeal`: shares rounded up), and the squads it dealt share nobody,
  leave nobody out, and are placed up to the next (`ReadyToAssign`).  No score is lost since
  an event that has one is past the stages where teams are rebuilt (`Scores`), and one that
  was called off comes back to the stage it was in (`Revocable`).

### What is only model-checked

- The outcome of a league (`DrawnFairly`, `RankingJustified`, `QualifiersSeeded`,
  `OutcomeCurrent`): pure functions over sequences, mostly by folds, where a proof needs
  induction over data.
- The knockout while requests about different teams overlap (`Apart`): the theorems take
  one request after the other.
- `LedgerFollowsPayments`, which asks its parts of three instances of `EventFunds` with
  constants of their own; `TypeCorrect` and `LedgerFollowsThePayments` prove these parts of
  `EventFunds` itself, under what those instances fix.
- The liveness property `WalkoverComes`, for liveness under fairness and `ENABLED` are out
  of the prover's reach.
- The violations, which are counterexamples.

## Plan

What has state of its own and decides something is modelled, and each safety property that
is not about a pure function is proved.  Worth doing next: the knockout's theorems under
`Apart`, where the invariant would speak of one list of steps for each request and of the
teams they concern; and, for a change of the code, the invariants above, which say what
each handler relies on between two of its awaits.

## Not modelled

- **Authentication:** an external provider decides; there is no protocol of its own.
- **Notifications, push, chat:** best effort output; no handler decides by them.  Their
  pages are read as `Feed` reads every list, and a team's room is in `EventTeams`.
- **Administration:** an administrator's requests write the same rows without the gates, so
  there is nothing they promise; test data is tooling.
- **Countries, app configuration, plans, formations, profiles:** rows edited one at a time.
  A plan's limit appears where it decides, as a refusal or a cap.
- **Within the parts that are modelled:** the views (standings pages, suggestions, ratings'
  averages), a group's and a location's own fields, formations on a team, minting invite
  codes, daily limits, an administrator's bulk join, and the deletion of an event's rows.
