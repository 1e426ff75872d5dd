----------------------------- MODULE EventFunds -----------------------------
(***************************************************************************)
(* The money of a group's events: the payments members submit and the      *)
(* cashier reviews (events/events.service.ts), the expenses and the        *)
(* settlement of each event, and the group fund with its ledger            *)
(* (finance/finance.service.ts, finance/money.ts).                         *)
(*                                                                         *)
(* Granularity.  A handler is split where it awaits MongoDB and then uses  *)
(* what it read: a request first loads the event, then perhaps a payment   *)
(* row, and only later writes.  What runs inside runInTransaction is one   *)
(* step: every such transaction writes the settlement row or only the      *)
(* payment row, so MongoDB's write conflicts serialise those that matter.  *)
(* A transaction that throws rolls back, so a refused request changes      *)
(* nothing but its own slot.                                               *)
(*                                                                         *)
(* Two reads in a row (the roster row and the payment row of a submission) *)
(* are merged.                                                             *)
(*                                                                         *)
(* Amounts are integers (the code computes in satang).  Who may act is     *)
(* kept: the group has one Owner and at most one Cashier, appointed before *)
(* and after as now.                                                       *)
(*                                                                         *)
(* Left out: the audit rows of fee changes, the settlement's revision      *)
(* number, the deletion of events and groups, and the fallback that        *)
(* runs a transaction's writes one by one on a standalone mongod.          *)
(***************************************************************************)
EXTENDS Integers, Sequences, FiniteSets, Functions

CONSTANTS Event,       \* the events of one group
          Member,      \* registered users who play them
          Owner,       \* the group's owner
          Cashier,     \* the group's cashier, or Null when none is appointed
          ExpenseId,   \* slots for expense rows of one event
          Fee,         \* fees an organizer may give an event
          Price,       \* prices the cashier may set instead
          Cost,        \* amounts an expense may have
          LegacyRow,   \* members whose payment row predates paidAmount
          Slot,        \* requests that may be in flight at a time (a bound)
          MaxLedger,   \* ledger rows explored (a bound)
          Retries,     \* TRUE: a transaction may abort once and be retried
          Null

ASSUME FundsAssumption ==
  /\ IsFiniteSet(Member) /\ IsFiniteSet(ExpenseId) /\ IsFiniteSet(Event)
  /\ Fee \subseteq Nat /\ Price \subseteq Nat /\ Cost \subseteq Nat \ {0}
  /\ LegacyRow \subseteq Member
  /\ MaxLedger \in Nat /\ Retries \in BOOLEAN
  /\ Null \notin Int

VARIABLES
  fee,           \* Event.price (+ additionalPrice when it is taken)
  updatedPrice,  \* Event.updatedPrice: the cashier's price, or Null
  ended,         \* isEnded: played out, or its booked end time has passed
  roster,        \* members joined on each event
  payment,       \* EventPayment rows
  expense,       \* live EventExpense amounts; 0 where there is no live row
  settlement,    \* EventSettlement rows
  fund,          \* the GroupFund document
  ledger,        \* GroupFundTransaction rows, oldest first
  request        \* what each request in flight has read so far

eventVars == <<fee, updatedPrice, ended, roster>>
moneyVars == <<settlement, fund, ledger>>
vars == <<eventVars, payment, expense, moneyVars, request>>

-----------------------------------------------------------------------------
(* Rows *)

RowStatus == {"submitted", "approved", "rejected"}

NoRow == [status |-> "none", amount |-> Null, paidAmount |-> Null]
Idle == [op |-> "idle"]

NoSettlement ==
  [status |-> "OPEN", collected |-> 0, expenses |-> 0, net |-> 0,
   outstanding |-> 0, fundTransactionId |-> 0]

Settled(e) == settlement[e].status = "SETTLED"

-----------------------------------------------------------------------------
(* Money (finance/money.ts) *)

\* The price actually charged.
PricePerPlayer(f, updated) == IF updated # Null THEN updated ELSE f

PriceOf(e) == PricePerPlayer(fee[e], updatedPrice[e])

\* Approved money on a row: legacy approved rows paid the fee in full.
PaidCents(row, f) ==
  IF row.paidAmount # Null THEN row.paidAmount
  ELSE IF row.status = "approved" THEN f ELSE 0

Owed(row, price, f) ==
  IF PaidCents(row, f) < price THEN price - PaidCents(row, f) ELSE 0

\* What one submission on the row is for.
SubmissionCents(row, price, f) ==
  IF row.amount # Null THEN row.amount
  ELSE IF row.status = "approved" THEN f
  ELSE Owed(row, price, f)

-----------------------------------------------------------------------------
(* Derived figures *)

\* computeIncome: every approved amount counts, also of members who left...
Collected(rows, f) ==
  SumFunctionOnSet([m \in Member |-> PaidCents(rows[m], f)], Member)

\* ... while only members on the roster can owe.
Outstanding(rows, players, price, f) ==
  SumFunctionOnSet([m \in Member |-> Owed(rows[m], price, f)], players)

PendingReview(rows) == {m \in Member : rows[m].status = "submitted"}

ExpenseTotal(e) == SumFunctionOnSet(expense[e], ExpenseId)

LedgerRows(e) == {i \in DOMAIN ledger : ledger[i].eventId = e}
Amounts == [i \in DOMAIN ledger |-> ledger[i].amount]

\* eventContributionCents: all that the event has posted so far.
Contribution(e) == SumFunctionOnSet(Amounts, LedgerRows(e))

-----------------------------------------------------------------------------
Init ==
  /\ fee \in [Event -> Fee]
  /\ updatedPrice = [e \in Event |-> Null]
  /\ ended = [e \in Event |-> FALSE]
  /\ roster = [e \in Event |-> {}]
  /\ \E old \in [LegacyRow -> RowStatus] :
       payment = [e \in Event |-> [m \in Member |->
         IF m \in LegacyRow THEN [NoRow EXCEPT !.status = old[m]] ELSE NoRow]]
  /\ expense = [e \in Event |-> [x \in ExpenseId |-> 0]]
  /\ settlement = [e \in Event |-> NoSettlement]
  /\ fund = [balance |-> 0, totalIncome |-> 0, totalExpenses |-> 0]
  /\ ledger = <<>>
  /\ request = [s \in Slot |-> Idle]

-----------------------------------------------------------------------------
(* What the rest of the system does to an event *)

\* PATCH /events/:id with a price: saved without the settlement lock.
UpdateEvent(e, p) ==
  /\ fee' = [fee EXCEPT ![e] = p]
  /\ UNCHANGED <<updatedPrice, ended, roster, payment, expense, moneyVars, request>>

\* The event ends, by its lifecycle or by the clock; until it is archived it
\* may also be cancelled, restored, or have its end time moved.
ToggleEnded(e) ==
  /\ ended' = [ended EXCEPT ![e] = ~@]
  /\ UNCHANGED <<fee, updatedPrice, roster, payment, expense, moneyVars, request>>

\* A member joins or leaves; the payment row stays as it is.
MoveRoster(e, m) ==
  /\ roster' = [roster EXCEPT ![e] = IF m \in @ THEN @ \ {m} ELSE @ \cup {m}]
  /\ UNCHANGED <<fee, updatedPrice, ended, payment, expense, moneyVars, request>>

-----------------------------------------------------------------------------
(* Requests *)

Begin(s, r) == request[s] = Idle /\ request' = [request EXCEPT ![s] = r]
Proceed(s, r) == request' = [request EXCEPT ![s] = r]
Finish(s) == request' = [request EXCEPT ![s] = Idle]
At(s, op) == request[s].op = op

\* assertCashierOrOwner, assertOwner, assertPaymentReviewer.
IsCashierOrOwner(u) == u \in {Owner, Cashier}
Staff == {Owner, Cashier} \ {Null}
IsReviewer(u) == Cashier # Null /\ u = Cashier

-----------------------------------------------------------------------------
(* submitPayment *)

\* The handler loads the event ...
SubmitLoad(s, e, m) ==
  /\ Begin(s, [op |-> "submit", event |-> e, member |-> m,
               fee |-> fee[e], price |-> PriceOf(e)])
  /\ UNCHANGED <<eventVars, payment, expense, moneyVars>>

MaySubmit(r) ==
  LET row == payment[r.event][r.member]
  IN  /\ r.member \in roster[r.event]
      /\ ~(row.status = "approved" /\ Owed(row, r.price, r.fee) = 0)

\* ... then the member's roster and payment rows: who is not on the roster, or
\* has nothing left to pay on an approved row, is refused ...
SubmitRead(s) ==
  /\ At(s, "submit")
  /\ LET r == request[s]
         row == payment[r.event][r.member]
     IN  IF MaySubmit(r)
         THEN Proceed(s, [op |-> "submit_write", event |-> r.event, member |-> r.member,
                          row |-> [status |-> "submitted",
                                   amount |-> Owed(row, r.price, r.fee),
                                   paidAmount |-> PaidCents(row, r.fee)]])
         ELSE Finish(s)
  /\ UNCHANGED <<eventVars, payment, expense, moneyVars>>

\* ... and, after the receipt's upload, upserts the row with what it read.
SubmitWrite(s) ==
  /\ At(s, "submit_write")
  /\ LET r == request[s]
     IN  payment' = [payment EXCEPT ![r.event][r.member] = r.row]
  /\ Finish(s)
  /\ UNCHANGED <<eventVars, expense, moneyVars>>

-----------------------------------------------------------------------------
(* The ledger *)

\* Mutant: the row keeps the balance read before the $inc.
PostStaleBalance(e, type, amount, incomeDelta, expenseDelta) ==
  /\ Len(ledger) < MaxLedger
  /\ fund' = [balance |-> fund.balance + amount,
              totalIncome |-> fund.totalIncome + incomeDelta,
              totalExpenses |-> fund.totalExpenses + expenseDelta]
  /\ ledger' = Append(ledger, [eventId |-> e, type |-> type, amount |-> amount,
                               balanceAfter |-> fund.balance])

\* Mutant: the expense total is not moved along.
PostWithoutExpenses(e, type, amount, incomeDelta, expenseDelta) ==
  /\ Len(ledger) < MaxLedger
  /\ fund' = [balance |-> fund.balance + amount,
              totalIncome |-> fund.totalIncome + incomeDelta,
              totalExpenses |-> fund.totalExpenses]
  /\ ledger' = Append(ledger, [eventId |-> e, type |-> type, amount |-> amount,
                               balanceAfter |-> fund.balance + amount])

\* postFundTransaction: the fund moves first and its new balance is the row's.
PostFundTransaction(e, type, amount, incomeDelta, expenseDelta) ==
  /\ Len(ledger) < MaxLedger
  /\ fund' = [balance |-> fund.balance + amount,
              totalIncome |-> fund.totalIncome + incomeDelta,
              totalExpenses |-> fund.totalExpenses + expenseDelta]
  /\ ledger' = Append(ledger, [eventId |-> e, type |-> type, amount |-> amount,
                               balanceAfter |-> fund.balance + amount])

-----------------------------------------------------------------------------
(* reviewPayment *)

Verdict == {"approved", "rejected"}

ReviewLoad(s, u, e, m, verdict) ==
  /\ IsReviewer(u)
  /\ Begin(s, [op |-> "review", event |-> e, member |-> m, verdict |-> verdict,
               fee |-> fee[e], price |-> PriceOf(e)])
  /\ UNCHANGED <<eventVars, payment, expense, moneyVars>>

\* The paid total after a verdict: approving adds the submission, taking an
\* approval back subtracts it, confirming a verdict moves nothing.
PaidAfter(row, verdict, price, f) ==
  LET paid == PaidCents(row, f)
      submitted == SubmissionCents(row, price, f)
  IN  IF verdict = "approved" /\ row.status # "approved" THEN paid + submitted
      ELSE IF verdict = "rejected" /\ row.status = "approved"
           THEN IF submitted < paid THEN paid - submitted ELSE 0
      ELSE paid

\* The row and paidBefore are read before the transaction starts.
ReviewRead(s) ==
  /\ At(s, "review")
  /\ LET r == request[s]
         row == payment[r.event][r.member]
     IN  IF row.status # "none"
         THEN Proceed(s, [op |-> "review_write", event |-> r.event, member |-> r.member,
                          before |-> row,
                          after |-> [status |-> r.verdict,
                                     amount |-> SubmissionCents(row, r.price, r.fee),
                                     paidAmount |-> PaidAfter(row, r.verdict, r.price, r.fee)],
                          delta |-> PaidAfter(row, r.verdict, r.price, r.fee)
                                      - PaidCents(row, r.fee),
                          modified |-> TRUE])
         ELSE Finish(s)
  /\ UNCHANGED <<eventVars, payment, expense, moneyVars>>

\* An attempt that saved the row may abort (a write conflict, a failover); the
\* driver calls the closure again, but the Mongoose document no longer counts
\* its fields as modified, so the next row.save() writes nothing.
ReviewAbort(s) ==
  /\ Retries
  /\ At(s, "review_write") /\ request[s].modified
  /\ request' = [request EXCEPT ![s].modified = FALSE]
  /\ UNCHANGED <<eventVars, payment, expense, moneyVars>>

\* row.save(): only the fields that the handler changed are sent.
SaveRow(r) ==
  LET current == payment[r.event][r.member]
  IN  IF ~r.modified THEN current
      ELSE [f \in DOMAIN current |->
              IF r.after[f] # r.before[f] THEN r.after[f] ELSE current[f]]

\* The settlement row once the payments are rows.
Refreshed(row, e, rows) ==
  [row EXCEPT !.collected = Collected(rows, fee[e]),
              !.net = Collected(rows, fee[e]) - row.expenses,
              !.outstanding = Outstanding(rows, roster[e], PriceOf(e), fee[e])]

\* The transaction: the row, and on a SETTLED event (onPaymentReviewed) the
\* ledger row and the refreshed snapshot.
ReviewWrite(s) ==
  /\ At(s, "review_write")
  /\ LET r == request[s]
         e == r.event
         rows == [payment[e] EXCEPT ![r.member] = SaveRow(r)]
     IN  /\ payment' = [payment EXCEPT ![e] = rows]
         /\ IF r.delta # 0 /\ Settled(e)
            THEN /\ PostFundTransaction(e,
                      IF r.delta > 0 THEN "LATE_PAYMENT" ELSE "PAYMENT_REVERSAL",
                      r.delta, r.delta, 0)
                 /\ settlement' = [settlement EXCEPT ![e] = Refreshed(@, e, rows)]
            ELSE UNCHANGED moneyVars
  /\ Finish(s)
  /\ UNCHANGED <<eventVars, expense>>

-----------------------------------------------------------------------------
(* Expenses and the fee: each transaction locks the settlement row and is     *)
(* refused once the event is SETTLED.                                         *)

CreateExpense(u, e, x, amount) ==
  /\ IsCashierOrOwner(u) /\ ~Settled(e)
  /\ expense[e][x] = 0
  /\ expense' = [expense EXCEPT ![e][x] = amount]
  /\ UNCHANGED <<eventVars, payment, moneyVars, request>>

\* Mutant: the settlement's status is not looked at.
UpdateExpenseUnlocked(u, e, x, amount) ==
  /\ IsCashierOrOwner(u)
  /\ expense[e][x] # 0
  /\ expense' = [expense EXCEPT ![e][x] = amount]
  /\ UNCHANGED <<eventVars, payment, moneyVars, request>>

UpdateExpense(u, e, x, amount) ==
  /\ IsCashierOrOwner(u) /\ ~Settled(e)
  /\ expense[e][x] # 0
  /\ expense' = [expense EXCEPT ![e][x] = amount]
  /\ UNCHANGED <<eventVars, payment, moneyVars, request>>

\* A soft delete: no read sees the row again.
DeleteExpense(u, e, x) ==
  /\ IsCashierOrOwner(u) /\ ~Settled(e)
  /\ expense[e][x] # 0
  /\ expense' = [expense EXCEPT ![e][x] = 0]
  /\ UNCHANGED <<eventVars, payment, moneyVars, request>>

\* Sets the cashier's price, or with Null goes back to the event's own fee.
UpdateFee(u, e, p) ==
  /\ IsCashierOrOwner(u) /\ ~Settled(e)
  /\ updatedPrice' = [updatedPrice EXCEPT ![e] = p]
  /\ UNCHANGED <<fee, ended, roster, payment, expense, moneyVars, request>>

-----------------------------------------------------------------------------
(* Settle and reopen *)

\* The event, its price and whether it has ended are read before the lock.
SettleLoad(s, u, e, allowOutstanding) ==
  /\ IsCashierOrOwner(u)
  /\ Begin(s, [op |-> "settle", event |-> e, allow |-> allowOutstanding,
               fee |-> fee[e], price |-> PriceOf(e), ended |-> ended[e]])
  /\ UNCHANGED <<eventVars, payment, expense, moneyVars>>

SettleOutstanding(r) ==
  Outstanding(payment[r.event], roster[r.event], r.price, r.fee)

\* Mutant: the claim on OPEN is dropped.
MaySettleAgain(r) ==
  /\ r.ended
  /\ PendingReview(payment[r.event]) = {}
  /\ SettleOutstanding(r) > 0 => r.allow

MaySettle(r) ==
  /\ ~Settled(r.event)
  /\ r.ended
  /\ PendingReview(payment[r.event]) = {}
  /\ SettleOutstanding(r) > 0 => r.allow

SettledNet(r) == Collected(payment[r.event], r.fee) - ExpenseTotal(r.event)

\* Mutant: what a reopened event left in the ledger is counted again.
WholeNet(r) == SettledNet(r)

\* The net minus what the event already has in the ledger.
AmountToPost(r) == SettledNet(r) - Contribution(r.event)

SettleWrite(s) ==
  /\ At(s, "settle") /\ MaySettle(request[s])
  /\ LET r == request[s]
         e == r.event
         expenses == ExpenseTotal(e)
     IN  /\ PostFundTransaction(e, "EVENT_SETTLEMENT", AmountToPost(r),
                                AmountToPost(r) + expenses, expenses)
         /\ settlement' = [settlement EXCEPT ![e] =
              [status |-> "SETTLED", collected |-> Collected(payment[e], r.fee),
               expenses |-> expenses, net |-> SettledNet(r),
               outstanding |-> SettleOutstanding(r), fundTransactionId |-> Len(ledger) + 1]]
  /\ Finish(s)
  /\ UNCHANGED <<eventVars, payment, expense>>

SettleRefused(s) ==
  /\ At(s, "settle") /\ ~MaySettle(request[s])
  /\ Finish(s)
  /\ UNCHANGED <<eventVars, payment, expense, moneyVars>>

\* Mutant: everything the event has posted is taken back, late payments too.
ReopenEverything(u, e) ==
  /\ u = Owner /\ Settled(e)
  /\ LET posted == Contribution(e)
         expenses == settlement[e].expenses
     IN  PostFundTransaction(e, "SETTLEMENT_REVERSAL",
                             -posted, -(posted + expenses), -expenses)
  /\ settlement' = [settlement EXCEPT ![e].status = "OPEN", ![e].fundTransactionId = 0]
  /\ UNCHANGED <<eventVars, payment, expense, request>>

\* The posted settlement is reversed; late payments stay in the ledger.
Reopen(u, e) ==
  /\ u = Owner /\ Settled(e)
  /\ LET posted == ledger[settlement[e].fundTransactionId].amount
         expenses == settlement[e].expenses
     IN  PostFundTransaction(e, "SETTLEMENT_REVERSAL",
                             -posted, -(posted + expenses), -expenses)
  /\ settlement' = [settlement EXCEPT ![e].status = "OPEN", ![e].fundTransactionId = 0]
  /\ UNCHANGED <<eventVars, payment, expense, request>>

-----------------------------------------------------------------------------
Environment ==
  \E e \in Event :
    \/ \E p \in Fee : UpdateEvent(e, p)
    \/ ToggleEnded(e)
    \/ \E m \in Member : MoveRoster(e, m)

Payments ==
  \E s \in Slot :
    \/ \E e \in Event, m \in Member : SubmitLoad(s, e, m)
    \/ SubmitRead(s)
    \/ SubmitWrite(s)
    \/ \E u \in Staff, e \in Event, m \in Member, v \in Verdict : ReviewLoad(s, u, e, m, v)
    \/ ReviewRead(s)
    \/ ReviewAbort(s)
    \/ ReviewWrite(s)

Expenses ==
  \E u \in Staff, e \in Event :
    \/ \E x \in ExpenseId, c \in Cost : CreateExpense(u, e, x, c) \/ UpdateExpense(u, e, x, c)
    \/ \E x \in ExpenseId : DeleteExpense(u, e, x)
    \/ \E p \in Price \cup {Null} : UpdateFee(u, e, p)

Settlement ==
  \/ \E s \in Slot :
       \/ \E u \in Staff, e \in Event, allow \in BOOLEAN : SettleLoad(s, u, e, allow)
       \/ SettleWrite(s)
       \/ SettleRefused(s)
  \/ \E u \in Staff, e \in Event : Reopen(u, e)

Next == Environment \/ Payments \/ Expenses \/ Settlement

Spec == Init /\ [][Next]_vars

-----------------------------------------------------------------------------
(* Types *)

Amount == Nat \cup {Null}
Row == [status : RowStatus \cup {"none"}, amount : Amount, paidAmount : Amount]
Posting == {"EVENT_SETTLEMENT", "LATE_PAYMENT", "SETTLEMENT_REVERSAL", "PAYMENT_REVERSAL"}
LedgerRow == [eventId : Event, type : Posting, amount : Int, balanceAfter : Int]
SettlementRow ==
  [status : {"OPEN", "SETTLED"}, collected : Nat, expenses : Nat, net : Int,
   outstanding : Nat, fundTransactionId : Nat]
Request ==
  {Idle}
  \cup [op : {"submit"}, event : Event, member : Member, fee : Nat, price : Nat]
  \cup [op : {"submit_write"}, event : Event, member : Member, row : Row]
  \cup [op : {"review"}, event : Event, member : Member, verdict : Verdict,
        fee : Nat, price : Nat]
  \cup [op : {"review_write"}, event : Event, member : Member, before : Row, after : Row,
        delta : Int, modified : BOOLEAN]
  \cup [op : {"settle"}, event : Event, allow : BOOLEAN, fee : Nat, price : Nat,
        ended : BOOLEAN]

TypeOK ==
  /\ fee \in [Event -> Fee]
  /\ updatedPrice \in [Event -> Price \cup {Null}]
  /\ ended \in [Event -> BOOLEAN]
  /\ roster \in [Event -> SUBSET Member]
  /\ payment \in [Event -> [Member -> Row]]
  /\ expense \in [Event -> [ExpenseId -> Nat]]
  /\ settlement \in [Event -> SettlementRow]
  /\ fund \in [balance : Int, totalIncome : Int, totalExpenses : Int]
  /\ ledger \in Seq(LedgerRow)
  /\ request \in [Slot -> Request]

-----------------------------------------------------------------------------
(* Properties that hold however requests interleave and retry *)

\* Every ledger row's balanceAfter is the balance before it plus its amount,
\* and the cached GroupFund.balance is the last row's: what each posting
\* reads back from its $inc agrees with the whole ledger.
BalanceBefore(i) == IF i = 1 THEN 0 ELSE ledger[i - 1].balanceAfter

LedgerChain ==
  /\ \A i \in DOMAIN ledger :
       ledger[i].balanceAfter = BalanceBefore(i) + ledger[i].amount
  /\ fund.balance = IF ledger = <<>> THEN 0 ELSE ledger[Len(ledger)].balanceAfter

\* GroupFund's documented invariant, and what its expense total stands for:
\* the expenses of the events that are settled now, each counted once, however
\* often they were reopened and settled again.
SettledExpenses ==
  [e \in Event |-> IF Settled(e) THEN settlement[e].expenses ELSE 0]

FundTotals ==
  /\ fund.balance = fund.totalIncome - fund.totalExpenses
  /\ fund.totalExpenses = SumFunctionOnSet(SettledExpenses, Event)

\* A settlement is posted once: SETTLED points at the event's own
\* EVENT_SETTLEMENT row with nothing of the event's settling after it, and
\* an OPEN event's last such row, if any, is a reversal.  Two settlements of
\* one event always have a reversal of the first one between them.
IsSettling(i) == ledger[i].type \in {"EVENT_SETTLEMENT", "SETTLEMENT_REVERSAL"}
SettlingRows(e) == {i \in LedgerRows(e) : IsSettling(i)}

SettledOnce ==
  \A e \in Event :
    /\ Settled(e) =>
         LET last == settlement[e].fundTransactionId
         IN  /\ last \in SettlingRows(e)
             /\ ledger[last].type = "EVENT_SETTLEMENT"
             /\ \A i \in SettlingRows(e) : i <= last
    /\ ~Settled(e) =>
         \A i \in SettlingRows(e) :
           ledger[i].type = "EVENT_SETTLEMENT" =>
             \E j \in SettlingRows(e) : i < j /\ ledger[j].type = "SETTLEMENT_REVERSAL"
    /\ \A i, j \in SettlingRows(e) :
         i < j /\ ledger[i].type = "EVENT_SETTLEMENT" /\ ledger[j].type = "EVENT_SETTLEMENT" =>
           \E k \in SettlingRows(e) :
             /\ i < k /\ k < j
             /\ ledger[k].type = "SETTLEMENT_REVERSAL"

\* Settling locks the expenses: what was posted is still what the live rows
\* say, so no expense write slipped past the snapshot.
ExpensesFrozen ==
  \A e \in Event : Settled(e) => settlement[e].expenses = ExpenseTotal(e)

-----------------------------------------------------------------------------
(* Properties that need one payment request at a time *)

\* What a settled event has posted is what its members paid minus what it
\* cost, whatever was reopened, settled again, paid late or taken back
\* (reviewPayment: "so the ledger never disagrees with the payment").
LedgerMatchesPayments ==
  \A e \in Event :
    Settled(e) => Contribution(e) = Collected(payment[e], fee[e]) - ExpenseTotal(e)

\* The snapshot a settled event keeps is current: late payments and payment
\* reversals move it along with the rows and the ledger.
SnapshotCurrent ==
  \A e \in Event :
    Settled(e) => /\ settlement[e].collected = Collected(payment[e], fee[e])
                  /\ settlement[e].net = Contribution(e)

\* The outstanding figure a settle records is what members owe at that moment
\* (lockSettlement: writes that must not race a settle "conflict on this
\* document").
SettledOutstanding(e) ==
  ~Settled(e) /\ Settled(e)' =>
    settlement'[e].outstanding = Outstanding(payment[e], roster[e], PriceOf(e), fee[e])

SettleSeesThePrice == [][\A e \in Event : SettledOutstanding(e)]_vars

-----------------------------------------------------------------------------
(* The fund as its readers understand it *)

LateRows(e) == {i \in LedgerRows(e) : ~IsSettling(i)}

SettledNow == [e \in Event |-> Settled(e)]
PostedNow ==
  [e \in Event |->
     IF Settled(e) THEN ledger[settlement[e].fundTransactionId].amount ELSE 0]
LateNow == [e \in Event |-> SumFunctionOnSet(Amounts, LateRows(e))]

Promise == INSTANCE FundPromise WITH
  settled <- SettledNow, posted <- PostedNow, late <- LateNow, balance <- fund.balance

\* The handlers implement that promise: seen from outside, an event's money
\* moves by settling it, by taking exactly that posting back, and by late
\* payments of settled events, and the balance moves with nothing else.
ImplementsPromise == Promise!Spec

=============================================================================
