-------------------------- MODULE EventFundsProofs --------------------------
(***************************************************************************)
(* What holds of EventFunds for every group, every amount and any number   *)
(* of requests in flight.                                                  *)
(*                                                                         *)
(* The handlers enter the argument once: MoneyStepHolds says that a step   *)
(* either leaves the money alone or is one of three postings (Settles,     *)
(* Reopens, PaysLate).  Each safety property is then kept by each posting; *)
(* a reopen needs SettledOnce to know that what it reverses is a row of    *)
(* the ledger, which is why the invariant IInv conjoins it with the types. *)
(* Then the same three postings are mapped to the steps of FundPromise.    *)
(* The last part adds the payment rows: a request in flight holds by what  *)
(* it has read (ReadsHold), which takes one request at a time.             *)
(*                                                                         *)
(* At the end, the reading of paged lists, of which the fund's statement   *)
(* is one (Feed, which shares no state with EventFunds).  Its rows are in  *)
(* a strict total order (TotalOrder), a page is what is found up to its    *)
(* last row (PageGives), and what was given lies behind the marker         *)
(* (GivenOrAhead).                                                         *)
(***************************************************************************)
EXTENDS Funds, SumLemmas

-----------------------------------------------------------------------------
(* What the money operators return *)

\* The amounts read off a payment row are natural numbers.
LEMMA RowMoney ==
  ASSUME NEW row \in Row, NEW f \in Nat, NEW price \in Nat
  PROVE  /\ PaidCents(row, f) \in Nat
         /\ Owed(row, price, f) \in Nat
         /\ SubmissionCents(row, price, f) \in Nat
<1>1. PaidCents(row, f) \in Nat BY FundsAssumption DEF PaidCents, Row, Amount
<1>2. Owed(row, price, f) \in Nat BY <1>1 DEF Owed
<1>3. SubmissionCents(row, price, f) \in Nat
  BY <1>2, FundsAssumption DEF SubmissionCents, Row, Amount
<1> QED BY <1>1, <1>2, <1>3

\* A verdict never drives a row's paid total below zero.
LEMMA VerdictMoney ==
  ASSUME NEW row \in Row, NEW v \in Verdict, NEW f \in Nat, NEW price \in Nat
  PROVE  PaidAfter(row, v, price, f) \in Nat
<1>1. PaidCents(row, f) \in Nat /\ SubmissionCents(row, price, f) \in Nat BY RowMoney
<1> QED BY <1>1 DEF PaidAfter

\* An event's fee and the price actually charged are natural numbers.
LEMMA PriceType ==
  ASSUME TypeOK, NEW e \in Event
  PROVE  fee[e] \in Nat /\ PriceOf(e) \in Nat
BY FundsAssumption DEF TypeOK, PriceOf, PricePerPlayer

\* computeIncome's collected total is a natural number.
LEMMA CollectedType ==
  ASSUME NEW rows \in [Member -> Row], NEW f \in Nat
  PROVE  Collected(rows, f) \in Nat
<1> DEFINE paid == [m \in Member |-> PaidCents(rows[m], f)]
<1>1. \A m \in Member : paid[m] \in Nat
  <2> SUFFICES ASSUME NEW m \in Member PROVE PaidCents(rows[m], f) \in Nat OBVIOUS
  <2> QED BY RowMoney
<1>2. SumFunctionOnSet(paid, Member) \in Nat
  <2> HIDE DEF paid
  <2> QED BY <1>1, SumNat, FundsAssumption
<1> QED BY <1>2 DEF Collected

\* computeIncome's outstanding total is a natural number.
LEMMA OutstandingType ==
  ASSUME NEW rows \in [Member -> Row], NEW players \in SUBSET Member,
         NEW price \in Nat, NEW f \in Nat
  PROVE  Outstanding(rows, players, price, f) \in Nat
<1> DEFINE owed == [m \in Member |-> Owed(rows[m], price, f)]
<1>1. \A m \in players : owed[m] \in Nat
  <2> SUFFICES ASSUME NEW m \in Member PROVE Owed(rows[m], price, f) \in Nat OBVIOUS
  <2> QED BY RowMoney
<1>2. IsFiniteSet(players) BY FS_Subset, FundsAssumption
<1>3. SumFunctionOnSet(owed, players) \in Nat
  <2> HIDE DEF owed
  <2> QED BY <1>1, <1>2, SumNat
<1> QED BY <1>3 DEF Outstanding

\* The live expenses of an event add up to a natural number.
LEMMA ExpenseTotalType ==
  ASSUME TypeOK, NEW e \in Event
  PROVE  ExpenseTotal(e) \in Nat
<1>1. \A x \in ExpenseId : expense[e][x] \in Nat BY DEF TypeOK
<1> QED BY <1>1, SumNat, FundsAssumption DEF ExpenseTotal

\* The ledger is a finite sequence of well-typed rows.
LEMMA LedgerFacts ==
  ASSUME TypeOK
  PROVE  /\ Len(ledger) \in Nat
         /\ DOMAIN ledger = 1..Len(ledger)
         /\ \A i \in DOMAIN ledger : ledger[i] \in LedgerRow
         /\ Amounts \in [DOMAIN ledger -> Int]
         /\ \A S \in SUBSET DOMAIN ledger : IsFiniteSet(S)
<1>1. Len(ledger) \in Nat /\ DOMAIN ledger = 1..Len(ledger) BY DEF TypeOK
<1>2. \A i \in DOMAIN ledger : ledger[i] \in LedgerRow BY DEF TypeOK
<1>3. Amounts \in [DOMAIN ledger -> Int] BY <1>2 DEF Amounts, LedgerRow
<1>4. IsFiniteSet(DOMAIN ledger) BY <1>1, FS_Interval
<1> QED BY <1>1, <1>2, <1>3, <1>4, FS_Subset

\* What an event has posted so far is an integer.
LEMMA ContributionType ==
  ASSUME TypeOK, NEW e \in Event
  PROVE  Contribution(e) \in Int
<1>1. LedgerRows(e) \subseteq DOMAIN ledger BY DEF LedgerRows
<1>2. IsFiniteSet(LedgerRows(e)) /\ \A i \in LedgerRows(e) : Amounts[i] \in Int
  BY <1>1, LedgerFacts
<1> QED BY <1>2, SumType DEF Contribution

-----------------------------------------------------------------------------
(* Type correctness *)

\* The initial state is well typed.
LEMMA InitType == Init => TypeOK
<1> SUFFICES ASSUME Init PROVE TypeOK OBVIOUS
<1> USE FundsAssumption DEF Init
<1>1. payment \in [Event -> [Member -> Row]]
  BY DEF NoRow, RowStatus, Row, Amount
<1>2. settlement \in [Event -> SettlementRow] BY DEF NoSettlement, SettlementRow
<1>3. request \in [Slot -> Request] BY DEF Request
<1>4. ledger \in Seq(LedgerRow) OBVIOUS
<1> QED BY <1>1, <1>2, <1>3, <1>4 DEF TypeOK

\* A posting keeps the fund and the ledger well typed.
LEMMA PostType ==
  ASSUME TypeOK, NEW e \in Event, NEW type \in Posting,
         NEW a \in Int, NEW i \in Int, NEW x \in Int,
         PostFundTransaction(e, type, a, i, x)
  PROVE  /\ fund' \in [balance : Int, totalIncome : Int, totalExpenses : Int]
         /\ ledger' \in Seq(LedgerRow)
BY DEF TypeOK, PostFundTransaction, LedgerRow

\* Giving a slot a well-typed request keeps all requests well typed.
LEMMA RequestType ==
  ASSUME request \in [Slot -> Request], NEW s \in Slot, NEW r \in Request,
         request' = [request EXCEPT ![s] = r]
  PROVE  request' \in [Slot -> Request]
OBVIOUS

\* A slot may always become idle.
LEMMA IdleType == Idle \in Request
BY DEF Request

\* What a request in flight carries, by the step it is at.
LEMMA RequestShape ==
  ASSUME TypeOK, NEW s \in Slot
  PROVE  /\ At(s, "submit") => request[s] \in
              [op : {"submit"}, event : Event, member : Member, fee : Nat, price : Nat]
         /\ At(s, "submit_write") => request[s] \in
              [op : {"submit_write"}, event : Event, member : Member, row : Row]
         /\ At(s, "review") => request[s] \in
              [op : {"review"}, event : Event, member : Member, verdict : Verdict,
               fee : Nat, price : Nat]
         /\ At(s, "review_write") => request[s] \in
              [op : {"review_write"}, event : Event, member : Member, before : Row,
               after : Row, delta : Int, modified : BOOLEAN]
         /\ At(s, "settle") => request[s] \in
              [op : {"settle"}, event : Event, allow : BOOLEAN, fee : Nat, price : Nat,
               ended : BOOLEAN]
<1>1. request[s] \in Request BY DEF TypeOK
<1> QED BY <1>1 DEF Request, At, Idle

(* Every step that moves money is one of three postings *)

\* An open event settles: its row becomes row and the ledger gains amount a.
Settles(e, a, row) ==
  /\ ~Settled(e)
  /\ PostFundTransaction(e, "EVENT_SETTLEMENT", a, a + ExpenseTotal(e), ExpenseTotal(e))
  /\ settlement' = [settlement EXCEPT ![e] = row]
  /\ row.status = "SETTLED"
  /\ row.expenses = ExpenseTotal(e)
  /\ row.fundTransactionId = Len(ledger) + 1

\* A settled event is reopened: what it posted is taken back.
Reopens(e, a, row) ==
  /\ Settled(e)
  /\ a = -ledger[settlement[e].fundTransactionId].amount
  /\ PostFundTransaction(e, "SETTLEMENT_REVERSAL", a, a - settlement[e].expenses,
                         -settlement[e].expenses)
  /\ settlement' = [settlement EXCEPT ![e] = row]
  /\ row.status = "OPEN"

\* A verdict on a settled event's payment posts its difference.
PaysLate(e, a, row) ==
  /\ Settled(e)
  /\ \E type \in {"LATE_PAYMENT", "PAYMENT_REVERSAL"} : PostFundTransaction(e, type, a, a, 0)
  /\ settlement' = [settlement EXCEPT ![e] = row]
  /\ row.status = "SETTLED"
  /\ row.expenses = settlement[e].expenses
  /\ row.fundTransactionId = settlement[e].fundTransactionId

\* The three postings.
Posts(e, a, row) == Settles(e, a, row) \/ Reopens(e, a, row) \/ PaysLate(e, a, row)

\* A step either leaves the fund, the ledger and the settlement rows alone, and
\* with them the expenses of settled events, or makes one posting.
MoneyStep ==
  \/ /\ UNCHANGED moneyVars
     /\ \A e \in Event : Settled(e) => expense'[e] = expense[e]
  \/ /\ UNCHANGED expense
     /\ \E e \in Event, a \in Int, row \in SettlementRow : Posts(e, a, row)

\* What a settled event's row points at is a row of the ledger.
LEMMA PostedRow ==
  ASSUME TypeOK, SettledOnce, NEW e \in Event, Settled(e)
  PROVE  /\ settlement[e].fundTransactionId \in DOMAIN ledger
         /\ ledger[settlement[e].fundTransactionId].amount \in Int
<1>1. settlement[e].fundTransactionId \in DOMAIN ledger
  BY DEF SettledOnce, SettlingRows, LedgerRows
<1> QED BY <1>1, LedgerFacts DEF LedgerRow

\* A posting keeps the settlement rows, the fund and the ledger well typed.
LEMMA PostsType ==
  ASSUME TypeOK, SettledOnce, NEW e \in Event, NEW a \in Int, NEW row \in SettlementRow,
         Posts(e, a, row)
  PROVE  /\ settlement' \in [Event -> SettlementRow]
         /\ fund' \in [balance : Int, totalIncome : Int, totalExpenses : Int]
         /\ ledger' \in Seq(LedgerRow)
<1>1. settlement' = [settlement EXCEPT ![e] = row]
  BY DEF Posts, Settles, Reopens, PaysLate
<1>2. settlement' \in [Event -> SettlementRow] BY <1>1 DEF TypeOK
<1>3. PICK type \in Posting, i \in Int, x \in Int : PostFundTransaction(e, type, a, i, x)
  <2>1. settlement[e].expenses \in Int BY DEF TypeOK, SettlementRow
  <2>2. CASE Settles(e, a, row)
    <3>1. ExpenseTotal(e) \in Nat BY ExpenseTotalType
    <3> QED BY <2>2, <3>1 DEF Settles, Posting
  <2>3. CASE Reopens(e, a, row) BY <2>3, <2>1 DEF Reopens, Posting
  <2>4. CASE PaysLate(e, a, row) BY <2>4 DEF PaysLate, Posting
  <2> QED BY <2>2, <2>3, <2>4 DEF Posts
<1> QED BY <1>2, <1>3, PostType

\* The rest of the system keeps the types.
LEMMA EnvironmentType ==
  ASSUME TypeOK, Environment
  PROVE  TypeOK'
<1>1. PICK e \in Event :
        \/ \E p \in Fee : UpdateEvent(e, p)
        \/ ToggleEnded(e)
        \/ \E m \in Member : MoveRoster(e, m)
  BY DEF Environment
<1>2. CASE \E p \in Fee : UpdateEvent(e, p)
  BY <1>2 DEF TypeOK, UpdateEvent, moneyVars
<1>3. CASE ToggleEnded(e)
  BY <1>3 DEF TypeOK, ToggleEnded, moneyVars
<1>4. CASE \E m \in Member : MoveRoster(e, m)
  BY <1>4 DEF TypeOK, MoveRoster, moneyVars
<1> QED BY <1>1, <1>2, <1>3, <1>4

\* Expense and fee requests keep the types.
LEMMA ExpensesType ==
  ASSUME TypeOK, Expenses
  PROVE  TypeOK'
<1>1. PICK u \in Staff, e \in Event :
        \/ \E x \in ExpenseId, c \in Cost : CreateExpense(u, e, x, c) \/ UpdateExpense(u, e, x, c)
        \/ \E x \in ExpenseId : DeleteExpense(u, e, x)
        \/ \E p \in Price \cup {Null} : UpdateFee(u, e, p)
  BY DEF Expenses
<1>2. CASE \E x \in ExpenseId, c \in Cost : CreateExpense(u, e, x, c) \/ UpdateExpense(u, e, x, c)
  <2>1. PICK x \in ExpenseId, c \in Cost : CreateExpense(u, e, x, c) \/ UpdateExpense(u, e, x, c)
    BY <1>2
  <2>2. c \in Nat BY FundsAssumption
  <2>3. /\ expense' = [expense EXCEPT ![e][x] = c]
        /\ UNCHANGED <<eventVars, payment, moneyVars, request>>
    BY <2>1 DEF CreateExpense, UpdateExpense
  <2>4. expense' \in [Event -> [ExpenseId -> Nat]] BY <2>2, <2>3 DEF TypeOK
  <2> QED BY <2>3, <2>4 DEF TypeOK, moneyVars, eventVars
<1>3. CASE \E x \in ExpenseId : DeleteExpense(u, e, x)
  BY <1>3 DEF TypeOK, DeleteExpense, moneyVars, eventVars
<1>4. CASE \E p \in Price \cup {Null} : UpdateFee(u, e, p)
  BY <1>4 DEF TypeOK, UpdateFee, moneyVars
<1> QED BY <1>1, <1>2, <1>3, <1>4

\* The reads of submitPayment keep the types.
LEMMA SubmitReadType ==
  ASSUME TypeOK, NEW s \in Slot, SubmitRead(s)
  PROVE  TypeOK'
<1> DEFINE r == request[s]
           row == payment[r.event][r.member]
           written == [status |-> "submitted", amount |-> Owed(row, r.price, r.fee),
                       paidAmount |-> PaidCents(row, r.fee)]
           next == [op |-> "submit_write", event |-> r.event, member |-> r.member,
                    row |-> written]
<1>1. r \in [op : {"submit"}, event : Event, member : Member, fee : Nat, price : Nat]
  BY RequestShape DEF SubmitRead
<1>2. row \in Row BY <1>1 DEF TypeOK
<1>3. PaidCents(row, r.fee) \in Nat /\ Owed(row, r.price, r.fee) \in Nat
  BY <1>1, <1>2, RowMoney
<1>4. written \in Row BY <1>3 DEF Row, Amount, RowStatus
<1>5. next \in Request BY <1>1, <1>4 DEF Request
<1>6. request' = [request EXCEPT ![s] = next] \/ request' = [request EXCEPT ![s] = Idle]
  BY DEF SubmitRead, Proceed, Finish
<1>7. request' \in [Slot -> Request] BY <1>5, <1>6, IdleType, RequestType DEF TypeOK
<1> QED BY <1>7 DEF SubmitRead, TypeOK, eventVars, moneyVars

\* The reads of reviewPayment keep the types.
LEMMA ReviewReadType ==
  ASSUME TypeOK, NEW s \in Slot, ReviewRead(s)
  PROVE  TypeOK'
<1> DEFINE r == request[s]
           row == payment[r.event][r.member]
           paid == PaidAfter(row, r.verdict, r.price, r.fee)
           written == [status |-> r.verdict, amount |-> SubmissionCents(row, r.price, r.fee),
                       paidAmount |-> paid]
           next == [op |-> "review_write", event |-> r.event, member |-> r.member,
                    before |-> row, after |-> written,
                    delta |-> paid - PaidCents(row, r.fee), modified |-> TRUE]
<1>1. r \in [op : {"review"}, event : Event, member : Member, verdict : Verdict,
             fee : Nat, price : Nat]
  BY RequestShape DEF ReviewRead
<1>2. row \in Row BY <1>1 DEF TypeOK
<1>3. /\ PaidCents(row, r.fee) \in Nat /\ SubmissionCents(row, r.price, r.fee) \in Nat
      /\ paid \in Nat
  BY <1>1, <1>2, RowMoney, VerdictMoney
<1>4. written \in Row BY <1>1, <1>3 DEF Row, Amount, RowStatus, Verdict
<1>5. paid - PaidCents(row, r.fee) \in Int BY <1>3
<1>6. next \in Request
  <2> HIDE DEF paid, written, row
  <2> QED BY <1>1, <1>2, <1>4, <1>5 DEF Request
<1>7. request' = [request EXCEPT ![s] = next] \/ request' = [request EXCEPT ![s] = Idle]
  BY DEF ReviewRead, Proceed, Finish
<1>8. request' \in [Slot -> Request] BY <1>6, <1>7, IdleType, RequestType DEF TypeOK
<1> QED BY <1>8 DEF ReviewRead, TypeOK, eventVars, moneyVars

\* Whatever fields a save sends, the row stays a row.
LEMMA SaveRowType ==
  ASSUME TypeOK, NEW s \in Slot, At(s, "review_write")
  PROVE  SaveRow(request[s]) \in Row
<1> DEFINE r == request[s]
           current == payment[r.event][r.member]
<1>1. r \in [op : {"review_write"}, event : Event, member : Member, before : Row,
             after : Row, delta : Int, modified : BOOLEAN]
  BY RequestShape
<1>2. current \in Row BY <1>1 DEF TypeOK
<1>3. r.after \in Row BY <1>1
<1>4. DOMAIN current = {"status", "amount", "paidAmount"} BY <1>2 DEF Row
<1>5. [f \in DOMAIN current |-> IF r.after[f] # r.before[f] THEN r.after[f] ELSE current[f]]
        \in Row
  BY <1>2, <1>3, <1>4 DEF Row
<1> QED BY <1>2, <1>5 DEF SaveRow

\* A verdict's transaction writes one payment row and, on a settled event whose
\* paid total it changes, posts the difference.
LEMMA ReviewWritePosts ==
  ASSUME TypeOK, NEW s \in Slot, ReviewWrite(s)
  PROVE  /\ UNCHANGED <<eventVars, expense>>
         /\ payment' \in [Event -> [Member -> Row]]
         /\ request' \in [Slot -> Request]
         /\ \/ UNCHANGED moneyVars
            \/ \E e \in Event, a \in Int, row \in SettlementRow : PaysLate(e, a, row)
<1> DEFINE r == request[s]
           e == r.event
           rows == [payment[e] EXCEPT ![r.member] = SaveRow(r)]
           collected == Collected(rows, fee[e])
           outstanding == Outstanding(rows, roster[e], PriceOf(e), fee[e])
           row == Refreshed(settlement[e], e, rows)
<1>1. r \in [op : {"review_write"}, event : Event, member : Member, before : Row,
             after : Row, delta : Int, modified : BOOLEAN]
  BY RequestShape DEF ReviewWrite
<1>2. e \in Event /\ r.member \in Member /\ r.delta \in Int BY <1>1
<1>3. rows \in [Member -> Row] BY <1>2, SaveRowType DEF TypeOK, ReviewWrite
<1>4. payment' = [payment EXCEPT ![e] = rows] BY DEF ReviewWrite
<1>5. payment' \in [Event -> [Member -> Row]] BY <1>2, <1>3, <1>4 DEF TypeOK
<1>6. collected \in Nat /\ outstanding \in Nat
  <2> roster[e] \in SUBSET Member BY <1>2 DEF TypeOK
  <2> HIDE DEF rows
  <2> QED BY <1>2, <1>3, PriceType, CollectedType, OutstandingType
<1>7. request' \in [Slot -> Request] BY IdleType, RequestType DEF ReviewWrite, Finish, TypeOK
<1>8. CASE r.delta # 0 /\ Settled(e)
  <2>1. settlement[e] \in SettlementRow BY <1>2 DEF TypeOK
  <2>2. /\ settlement' = [settlement EXCEPT ![e] = row]
        /\ \E type \in {"LATE_PAYMENT", "PAYMENT_REVERSAL"} :
             PostFundTransaction(e, type, r.delta, r.delta, 0)
    BY <1>8 DEF ReviewWrite
  <2>3. row = [settlement[e] EXCEPT !.collected = collected,
                                    !.net = collected - settlement[e].expenses,
                                    !.outstanding = outstanding]
    BY DEF Refreshed
  <2> HIDE DEF collected, outstanding, row
  <2>4. collected - settlement[e].expenses \in Int BY <2>1, <1>6 DEF SettlementRow
  <2>5. row \in SettlementRow BY <2>1, <2>3, <2>4, <1>6 DEF SettlementRow
  <2>6. /\ row.status = settlement[e].status
        /\ row.expenses = settlement[e].expenses
        /\ row.fundTransactionId = settlement[e].fundTransactionId
    BY <2>1, <2>3 DEF SettlementRow
  <2>7. PaysLate(e, r.delta, row)
    BY <1>8, <2>2, <2>6 DEF PaysLate, Settled
  <2> QED BY <1>2, <1>5, <1>7, <2>5, <2>7 DEF ReviewWrite
<1>9. CASE ~(r.delta # 0 /\ Settled(e))
  <2>1. UNCHANGED moneyVars BY <1>9 DEF ReviewWrite
  <2> QED BY <1>5, <1>7, <2>1 DEF ReviewWrite
<1> QED BY <1>8, <1>9

\* Payment requests keep the types.
LEMMA PaymentsType ==
  ASSUME TypeOK, SettledOnce, Payments
  PROVE  TypeOK'
<1>1. PICK s \in Slot :
        \/ \E e \in Event, m \in Member : SubmitLoad(s, e, m)
        \/ SubmitRead(s)
        \/ SubmitWrite(s)
        \/ \E u \in Staff, e \in Event, m \in Member, v \in Verdict : ReviewLoad(s, u, e, m, v)
        \/ ReviewRead(s)
        \/ ReviewAbort(s)
        \/ ReviewWrite(s)
  BY DEF Payments
<1>2. CASE \E e \in Event, m \in Member : SubmitLoad(s, e, m)
  <2>1. PICK e \in Event, m \in Member : SubmitLoad(s, e, m) BY <1>2
  <2> DEFINE next == [op |-> "submit", event |-> e, member |-> m,
                      fee |-> fee[e], price |-> PriceOf(e)]
  <2>2. next \in Request BY PriceType DEF Request
  <2>3. request' = [request EXCEPT ![s] = next] BY <2>1 DEF SubmitLoad, Begin
  <2>4. request' \in [Slot -> Request] BY <2>2, <2>3, RequestType DEF TypeOK
  <2> QED BY <2>1, <2>4 DEF SubmitLoad, TypeOK, eventVars, moneyVars
<1>3. CASE SubmitWrite(s)
  <2>1. request[s] \in [op : {"submit_write"}, event : Event, member : Member, row : Row]
    BY <1>3, RequestShape DEF SubmitWrite
  <2>2. payment' \in [Event -> [Member -> Row]] BY <1>3, <2>1 DEF SubmitWrite, TypeOK
  <2>3. request' \in [Slot -> Request]
    BY <1>3, IdleType, RequestType DEF SubmitWrite, Finish, TypeOK
  <2> QED BY <1>3, <2>2, <2>3 DEF SubmitWrite, TypeOK, eventVars, moneyVars
<1>4. CASE \E u \in Staff, e \in Event, m \in Member, v \in Verdict : ReviewLoad(s, u, e, m, v)
  <2>1. PICK u \in Staff, e \in Event, m \in Member, v \in Verdict : ReviewLoad(s, u, e, m, v)
    BY <1>4
  <2> DEFINE next == [op |-> "review", event |-> e, member |-> m, verdict |-> v,
                      fee |-> fee[e], price |-> PriceOf(e)]
  <2>2. next \in Request BY PriceType DEF Request
  <2>3. request' = [request EXCEPT ![s] = next] BY <2>1 DEF ReviewLoad, Begin
  <2>4. request' \in [Slot -> Request] BY <2>2, <2>3, RequestType DEF TypeOK
  <2> QED BY <2>1, <2>4 DEF ReviewLoad, TypeOK, eventVars, moneyVars
<1>5. CASE ReviewAbort(s)
  <2>1. request[s] \in [op : {"review_write"}, event : Event, member : Member, before : Row,
                        after : Row, delta : Int, modified : BOOLEAN]
    BY <1>5, RequestShape DEF ReviewAbort
  <2>2. [request[s] EXCEPT !.modified = FALSE] \in Request BY <2>1 DEF Request
  <2>3. request' = [request EXCEPT ![s] = [request[s] EXCEPT !.modified = FALSE]]
    BY <1>5 DEF ReviewAbort
  <2>4. request' \in [Slot -> Request] BY <2>2, <2>3, RequestType DEF TypeOK
  <2> QED BY <1>5, <2>4 DEF ReviewAbort, TypeOK, eventVars, moneyVars
<1>6. CASE ReviewWrite(s)
  <2>1. CASE UNCHANGED moneyVars
    BY <1>6, <2>1, ReviewWritePosts DEF TypeOK, eventVars, moneyVars
  <2>2. CASE \E e \in Event, a \in Int, row \in SettlementRow : PaysLate(e, a, row)
    <3>1. PICK e \in Event, a \in Int, row \in SettlementRow : Posts(e, a, row)
      BY <2>2 DEF Posts
    <3> QED BY <1>6, <3>1, ReviewWritePosts, PostsType DEF TypeOK, eventVars
  <2> QED BY <1>6, <2>1, <2>2, ReviewWritePosts
<1> QED BY <1>1, <1>2, <1>3, <1>4, <1>5, <1>6, SubmitReadType, ReviewReadType

\* A settle that goes through is a posting of the net not yet posted.
LEMMA SettleWritePosts ==
  ASSUME TypeOK, NEW s \in Slot, SettleWrite(s)
  PROVE  /\ UNCHANGED expense
         /\ request' \in [Slot -> Request]
         /\ \E e \in Event, a \in Int, row \in SettlementRow : Settles(e, a, row)
<1> DEFINE r == request[s]
           e == r.event
           collected == Collected(payment[e], r.fee)
           expenses == ExpenseTotal(e)
           owing == SettleOutstanding(r)
           a == (collected - expenses) - Contribution(e)
           row == [status |-> "SETTLED", collected |-> collected, expenses |-> expenses,
                   net |-> collected - expenses, outstanding |-> owing,
                   fundTransactionId |-> Len(ledger) + 1]
<1>1. r \in [op : {"settle"}, event : Event, allow : BOOLEAN, fee : Nat, price : Nat,
             ended : BOOLEAN]
  BY RequestShape DEF SettleWrite
<1>2. e \in Event /\ r.fee \in Nat /\ r.price \in Nat BY <1>1
<1>3. payment[e] \in [Member -> Row] /\ roster[e] \in SUBSET Member BY <1>2 DEF TypeOK
<1>4. collected \in Nat /\ owing \in Nat
  BY <1>2, <1>3, CollectedType, OutstandingType DEF SettleOutstanding
<1>5. expenses \in Nat BY <1>2, ExpenseTotalType
<1>6. a \in Int /\ collected - expenses \in Int BY <1>2, <1>4, <1>5, ContributionType
<1>7. row \in SettlementRow
  <2> HIDE DEF collected, expenses, owing
  <2> QED BY <1>4, <1>5, <1>6, LedgerFacts DEF SettlementRow
<1>8. Settles(e, a, row)
  BY DEF SettleWrite, MaySettle, Settles, AmountToPost, SettledNet
<1>9. request' \in [Slot -> Request] BY IdleType, RequestType DEF SettleWrite, Finish, TypeOK
<1> HIDE DEF a, row, e
<1> QED BY <1>2, <1>6, <1>7, <1>8, <1>9 DEF SettleWrite

\* A reopen is a posting of the settlement's amount taken back.
LEMMA ReopenPosts ==
  ASSUME TypeOK, SettledOnce, NEW u, NEW e \in Event, Reopen(u, e)
  PROVE  /\ UNCHANGED expense
         /\ \E a \in Int, row \in SettlementRow : Reopens(e, a, row)
<1> DEFINE posted == ledger[settlement[e].fundTransactionId].amount
           spent == settlement[e].expenses
           row == [settlement[e] EXCEPT !.status = "OPEN", !.fundTransactionId = 0]
<1>1. Settled(e) BY DEF Reopen
<1>2. posted \in Int BY <1>1, PostedRow
<1>3. settlement[e] \in SettlementRow /\ spent \in Nat BY DEF TypeOK, SettlementRow
<1>4. row \in SettlementRow BY <1>3 DEF SettlementRow
<1>5. row.status = "OPEN" BY <1>3 DEF SettlementRow
<1>6. settlement' = [settlement EXCEPT ![e] = row] BY DEF Reopen, TypeOK
<1>7. PostFundTransaction(e, "SETTLEMENT_REVERSAL", -posted, -(posted + spent), -spent)
  BY DEF Reopen
<1>8. -(posted + spent) = (-posted) - spent BY <1>2, <1>3
<1>9. Reopens(e, -posted, row)
  <2> HIDE DEF row
  <2> QED BY <1>1, <1>5, <1>6, <1>7, <1>8 DEF Reopens
<1>10. -posted \in Int BY <1>2
<1> HIDE DEF row, posted
<1> QED BY <1>4, <1>9, <1>10 DEF Reopen


\* Settling and reopening keep the types.
LEMMA SettlementType ==
  ASSUME TypeOK, SettledOnce, Settlement
  PROVE  TypeOK'
<1>1. CASE \E s \in Slot, u \in Staff, e \in Event, allow \in BOOLEAN : SettleLoad(s, u, e, allow)
  <2>1. PICK s \in Slot, u \in Staff, e \in Event, allow \in BOOLEAN :
          SettleLoad(s, u, e, allow)
    BY <1>1
  <2> DEFINE next == [op |-> "settle", event |-> e, allow |-> allow,
                      fee |-> fee[e], price |-> PriceOf(e), ended |-> ended[e]]
  <2>2. ended[e] \in BOOLEAN BY DEF TypeOK
  <2>3. next \in Request BY <2>2, PriceType DEF Request
  <2>4. request' = [request EXCEPT ![s] = next] BY <2>1 DEF SettleLoad, Begin
  <2>5. request' \in [Slot -> Request] BY <2>3, <2>4, RequestType DEF TypeOK
  <2> QED BY <2>1, <2>5 DEF SettleLoad, TypeOK, eventVars, moneyVars
<1>2. CASE \E s \in Slot : SettleWrite(s)
  <2>1. PICK s \in Slot : SettleWrite(s) BY <1>2
  <2>2. PICK e \in Event, a \in Int, row \in SettlementRow : Posts(e, a, row)
    BY <2>1, SettleWritePosts DEF Posts
  <2> QED BY <2>1, <2>2, PostsType, SettleWritePosts DEF SettleWrite, TypeOK, eventVars
<1>3. CASE \E s \in Slot : SettleRefused(s)
  <2>1. PICK s \in Slot : SettleRefused(s) BY <1>3
  <2>2. request' \in [Slot -> Request]
    BY <2>1, IdleType, RequestType DEF SettleRefused, Finish, TypeOK
  <2> QED BY <2>1, <2>2 DEF SettleRefused, TypeOK, eventVars, moneyVars
<1>4. CASE \E u \in Staff, e \in Event : Reopen(u, e)
  <2>1. PICK u \in Staff, e \in Event : Reopen(u, e) BY <1>4
  <2>2. PICK a \in Int, row \in SettlementRow : Posts(e, a, row)
    BY <2>1, ReopenPosts DEF Posts
  <2> QED BY <2>1, <2>2, PostsType DEF Reopen, TypeOK, eventVars
<1> QED BY <1>1, <1>2, <1>3, <1>4 DEF Settlement

\* Every step keeps the types.
LEMMA TypeStep ==
  ASSUME TypeOK, SettledOnce, [Next]_vars
  PROVE  TypeOK'
<1>1. CASE UNCHANGED vars
  BY <1>1 DEF vars, eventVars, moneyVars, TypeOK
<1> QED BY <1>1, EnvironmentType, PaymentsType, ExpensesType, SettlementType DEF Next

\* Every step is a money step: the rest of the proofs look at postings, not at
\* handlers.
LEMMA MoneyStepHolds ==
  ASSUME TypeOK, SettledOnce, [Next]_vars
  PROVE  MoneyStep
<1>1. CASE UNCHANGED vars BY <1>1 DEF vars, moneyVars, MoneyStep
<1>2. CASE Environment
  BY <1>2 DEF Environment, UpdateEvent, ToggleEnded, MoveRoster, MoneyStep
<1>3. CASE Payments
  <2>1. CASE \E s \in Slot : ReviewWrite(s)
    BY <2>1, ReviewWritePosts DEF MoneyStep, Posts
  <2>2. CASE ~ \E s \in Slot : ReviewWrite(s)
    BY <1>3, <2>2 DEF Payments, SubmitLoad, SubmitRead, SubmitWrite, ReviewLoad, ReviewRead,
                      ReviewAbort, MoneyStep
  <2> QED BY <2>1, <2>2
<1>4. CASE Expenses
  <2>1. PICK u \in Staff, e \in Event :
          \/ \E x \in ExpenseId, c \in Cost :
               CreateExpense(u, e, x, c) \/ UpdateExpense(u, e, x, c)
          \/ \E x \in ExpenseId : DeleteExpense(u, e, x)
          \/ \E p \in Price \cup {Null} : UpdateFee(u, e, p)
    BY <1>4 DEF Expenses
  <2>2. ~Settled(e) /\ UNCHANGED moneyVars
    BY <2>1 DEF CreateExpense, UpdateExpense, DeleteExpense, UpdateFee
  <2>3. \A f \in Event : f # e => expense'[f] = expense[f]
    BY <2>1 DEF CreateExpense, UpdateExpense, DeleteExpense, UpdateFee, TypeOK
  <2> QED BY <2>2, <2>3 DEF MoneyStep
<1>5. CASE Settlement
  <2>1. CASE \E s \in Slot : SettleWrite(s)
    BY <2>1, SettleWritePosts DEF MoneyStep, Posts
  <2>2. CASE \E u \in Staff, e \in Event : Reopen(u, e)
    BY <2>2, ReopenPosts DEF MoneyStep, Posts
  <2>3. CASE ~ (\E s \in Slot : SettleWrite(s)) /\ ~ (\E u \in Staff, e \in Event : Reopen(u, e))
    BY <1>5, <2>3 DEF Settlement, SettleLoad, SettleRefused, MoneyStep
  <2> QED BY <2>1, <2>2, <2>3
<1> QED BY <1>1, <1>2, <1>3, <1>4, <1>5 DEF Next

-----------------------------------------------------------------------------
(* The ledger after a posting *)

\* The type a posting of each kind has in the ledger.
PostedType(e, a, row, type) ==
  \/ Settles(e, a, row) /\ type = "EVENT_SETTLEMENT"
  \/ Reopens(e, a, row) /\ type = "SETTLEMENT_REVERSAL"
  \/ PaysLate(e, a, row) /\ type \in {"LATE_PAYMENT", "PAYMENT_REVERSAL"}

\* A posting appends one row; the rows before it stay as they were.
LEMMA Appended ==
  ASSUME TypeOK, NEW e \in Event, NEW a \in Int, NEW row \in SettlementRow, Posts(e, a, row)
  PROVE  /\ \E type \in Posting :
              /\ PostedType(e, a, row, type)
              /\ ledger'[Len(ledger) + 1] =
                   [eventId |-> e, type |-> type, amount |-> a, balanceAfter |-> fund.balance + a]
         /\ DOMAIN ledger' = DOMAIN ledger \cup {Len(ledger) + 1}
         /\ \A k \in DOMAIN ledger : ledger'[k] = ledger[k]
         /\ fund'.balance = fund.balance + a
         /\ Len(ledger') = Len(ledger) + 1
         /\ Len(ledger) + 1 \notin DOMAIN ledger
         /\ ledger'[Len(ledger) + 1].amount = a
<1>1. PICK type \in Posting :
        PostedType(e, a, row, type) /\ \E i, x : PostFundTransaction(e, type, a, i, x)
  BY DEF Posts, Settles, Reopens, PaysLate, PostedType, Posting
<1> DEFINE new == [eventId |-> e, type |-> type, amount |-> a, balanceAfter |-> fund.balance + a]
<1>2. ledger' = Append(ledger, new) /\ fund'.balance = fund.balance + a
  BY <1>1 DEF PostFundTransaction
<1>3. new \in LedgerRow BY DEF LedgerRow, TypeOK
<1> HIDE DEF new
<1>4. /\ DOMAIN ledger' = DOMAIN ledger \cup {Len(ledger) + 1}
      /\ \A k \in DOMAIN ledger : ledger'[k] = ledger[k]
      /\ Len(ledger') = Len(ledger) + 1
      /\ Len(ledger) + 1 \notin DOMAIN ledger
      /\ ledger'[Len(ledger) + 1] = new
  BY <1>2, <1>3 DEF TypeOK
<1> QED BY <1>1, <1>2, <1>4 DEF new

\* Only a settlement or its reversal is a settling row.
LEMMA SettlingAfter ==
  ASSUME TypeOK, NEW e \in Event, NEW a \in Int, NEW row \in SettlementRow,
         Posts(e, a, row), NEW f \in Event
  PROVE  SettlingRows(f)' = IF f = e /\ ~PaysLate(e, a, row)
                            THEN SettlingRows(f) \cup {Len(ledger) + 1}
                            ELSE SettlingRows(f)
<1> DEFINE n == Len(ledger) + 1
<1>1. PICK type \in Posting :
        /\ PostedType(e, a, row, type)
        /\ ledger'[n] =
             [eventId |-> e, type |-> type, amount |-> a, balanceAfter |-> fund.balance + a]
  BY Appended
<1>2. /\ DOMAIN ledger' = DOMAIN ledger \cup {n}
      /\ \A k \in DOMAIN ledger : ledger'[k] = ledger[k]
      /\ n \notin DOMAIN ledger
  BY Appended
<1>3. type \in {"EVENT_SETTLEMENT", "SETTLEMENT_REVERSAL"} <=> ~PaysLate(e, a, row)
  <2>1. Settles(e, a, row) => ~PaysLate(e, a, row) BY DEF Settles, PaysLate
  <2>2. Reopens(e, a, row) => ~PaysLate(e, a, row) BY DEF Reopens, PaysLate
  <2> QED BY <1>1, <2>1, <2>2 DEF PostedType
<1>4. ledger'[n].eventId = e /\ ledger'[n].type = type BY <1>1
<1>5. (n \in SettlingRows(f)') <=> (f = e /\ ~PaysLate(e, a, row))
  BY <1>2, <1>3, <1>4 DEF SettlingRows, LedgerRows, IsSettling
<1>6. \A k \in DOMAIN ledger : (k \in SettlingRows(f)') <=> (k \in SettlingRows(f))
  BY <1>2 DEF SettlingRows, LedgerRows, IsSettling
<1>7. SettlingRows(f)' \subseteq DOMAIN ledger' /\ SettlingRows(f) \subseteq DOMAIN ledger
  BY DEF SettlingRows, LedgerRows
<1>8. CASE f = e /\ ~PaysLate(e, a, row)
  BY <1>2, <1>5, <1>6, <1>7, <1>8
<1>9. CASE ~(f = e /\ ~PaysLate(e, a, row))
  <2>1. n \notin SettlingRows(f)' BY <1>5, <1>9
  <2> HIDE DEF n
  <2> QED BY <1>2, <1>6, <1>7, <1>9, <2>1
<1> QED BY <1>8, <1>9

\* The settlement rows of the other events do not change.
LEMMA OthersKeep ==
  ASSUME TypeOK, NEW e \in Event, NEW a \in Int, NEW row \in SettlementRow, Posts(e, a, row)
  PROVE  /\ settlement'[e] = row
         /\ \A f \in Event : f # e => settlement'[f] = settlement[f]
<1>1. settlement' = [settlement EXCEPT ![e] = row]
  BY DEF Posts, Settles, Reopens, PaysLate
<1> QED BY <1>1 DEF TypeOK

-----------------------------------------------------------------------------
(* Safety *)

\* A posting extends the chain of balances: its row carries the balance that
\* its own increment of the fund returned.
LEMMA ChainStep ==
  ASSUME TypeOK, LedgerChain, MoneyStep
  PROVE  LedgerChain'
<1>1. CASE UNCHANGED moneyVars
  BY <1>1 DEF moneyVars, LedgerChain, BalanceBefore
<1>2. CASE \E e \in Event, a \in Int, row \in SettlementRow : Posts(e, a, row)
  <2>1. PICK e \in Event, a \in Int, row \in SettlementRow : Posts(e, a, row) BY <1>2
  <2>2. Len(ledger) \in Nat /\ DOMAIN ledger = 1..Len(ledger) BY LedgerFacts
  <2>3. PICK n \in Nat : n = Len(ledger) + 1 BY <2>2
  <2>4. /\ DOMAIN ledger' = DOMAIN ledger \cup {n}
        /\ \A k \in DOMAIN ledger : ledger'[k] = ledger[k]
        /\ fund'.balance = fund.balance + a
        /\ Len(ledger') = n
        /\ n \notin DOMAIN ledger
    BY <2>1, <2>3, Appended
  <2>5. PICK type \in Posting : ledger'[n] =
          [eventId |-> e, type |-> type, amount |-> a, balanceAfter |-> fund.balance + a]
    BY <2>1, <2>3, Appended
  <2>6. \A k \in DOMAIN ledger :
          ledger'[k].balanceAfter = BalanceBefore(k)' + ledger'[k].amount
    <3> SUFFICES ASSUME NEW k \in DOMAIN ledger
                 PROVE  ledger'[k].balanceAfter = BalanceBefore(k)' + ledger'[k].amount
      OBVIOUS
    <3>1. k # 1 => k - 1 \in DOMAIN ledger BY <2>2
    <3>2. (IF k = 1 THEN 0 ELSE ledger'[k - 1].balanceAfter) = BalanceBefore(k)
      BY <3>1, <2>4 DEF BalanceBefore
    <3> QED BY <3>2, <2>4 DEF LedgerChain, BalanceBefore
  <2>7. (IF n = 1 THEN 0 ELSE ledger'[n - 1].balanceAfter) = fund.balance
    <3>1. CASE Len(ledger) = 0
      <4>1. ledger = <<>> BY <3>1 DEF TypeOK
      <4> QED BY <3>1, <2>3, <4>1 DEF LedgerChain
    <3>2. CASE Len(ledger) # 0
      <4>1. n # 1 /\ n - 1 = Len(ledger) /\ Len(ledger) \in DOMAIN ledger /\ ledger # <<>>
        BY <3>2, <2>2, <2>3
      <4>2. fund.balance = ledger[Len(ledger)].balanceAfter BY <4>1 DEF LedgerChain
      <4> QED BY <4>1, <4>2, <2>4
    <3> QED BY <3>1, <3>2
  <2>8. \A k \in DOMAIN ledger' :
          ledger'[k].balanceAfter = (IF k = 1 THEN 0 ELSE ledger'[k - 1].balanceAfter)
                                      + ledger'[k].amount
    BY <2>4, <2>5, <2>6, <2>7 DEF BalanceBefore
  <2>9. fund'.balance = ledger'[Len(ledger')].balanceAfter BY <2>4, <2>5
  <2>10. ledger' # <<>> BY <2>4
  <2> QED BY <2>8, <2>9, <2>10 DEF LedgerChain, BalanceBefore
<1> QED BY <1>1, <1>2 DEF MoneyStep

\* One event's part of SettledOnce.
SettledOnceFor(e) ==
  /\ Settled(e) =>
       LET last == settlement[e].fundTransactionId
       IN  /\ last \in SettlingRows(e)
           /\ ledger[last].type = "EVENT_SETTLEMENT"
           /\ \A i \in SettlingRows(e) : i <= last
  /\ ~Settled(e) =>
       \A i \in SettlingRows(e) :
         ledger[i].type = "EVENT_SETTLEMENT" =>
           \E j \in SettlingRows(e) : i < j /\ ledger[j].type = "SETTLEMENT_REVERSAL"
  /\ \A i, j \in SettlingRows(e) :
       i < j /\ ledger[i].type = "EVENT_SETTLEMENT" /\ ledger[j].type = "EVENT_SETTLEMENT" =>
         \E k \in SettlingRows(e) :
           /\ i < k /\ k < j
           /\ ledger[k].type = "SETTLEMENT_REVERSAL"

\* SettledOnce is its part for each event.
LEMMA SettledOnceParts == SettledOnce <=> \A e \in Event : SettledOnceFor(e)
BY DEF SettledOnce, SettledOnceFor

\* An event whose settlement row and settling ledger rows stay as they are is
\* as settled as it was.
LEMMA OnceKept ==
  ASSUME NEW f \in Event, SettledOnceFor(f), settlement'[f] = settlement[f],
         SettlingRows(f)' = SettlingRows(f),
         \A k \in SettlingRows(f) : ledger'[k] = ledger[k]
  PROVE  SettledOnceFor(f)'
BY DEF SettledOnceFor, Settled

\* A posting keeps every event settled at most once: a settlement needs an open
\* event, and a reversal a settled one.
LEMMA OncePosted ==
  ASSUME TypeOK, NEW e \in Event, NEW a \in Int, NEW row \in SettlementRow,
         Posts(e, a, row), NEW f \in Event, SettledOnceFor(f)
  PROVE  SettledOnceFor(f)'
<1>1. PICK n \in Nat : n = Len(ledger) + 1 BY LedgerFacts
<1>2. PICK type \in Posting :
        /\ PostedType(e, a, row, type)
        /\ ledger'[n] =
             [eventId |-> e, type |-> type, amount |-> a, balanceAfter |-> fund.balance + a]
  BY <1>1, Appended
<1>3. \A k \in DOMAIN ledger : ledger'[k] = ledger[k] /\ k \in Nat /\ k < n
  BY <1>1, Appended, LedgerFacts
<1>4. SettlingRows(f) \subseteq DOMAIN ledger BY DEF SettlingRows, LedgerRows
<1>5. /\ settlement'[e] = row
      /\ \A g \in Event : g # e => settlement'[g] = settlement[g]
  BY OthersKeep
<1>6. CASE f # e
  <2>1. SettlingRows(f)' = SettlingRows(f) BY <1>6, SettlingAfter
  <2> QED BY <1>3, <1>4, <1>5, <1>6, <2>1, OnceKept
<1>7. CASE f = e /\ PaysLate(e, a, row)
  <2>1. SettlingRows(f)' = SettlingRows(f) BY <1>7, SettlingAfter
  <2>2. \A k \in SettlingRows(f) : ledger'[k] = ledger[k] BY <1>3, <1>4
  <2>3. /\ settlement'[f].status = settlement[f].status
        /\ settlement'[f].fundTransactionId = settlement[f].fundTransactionId
    BY <1>5, <1>7 DEF PaysLate, Settled
  <2> QED BY <2>1, <2>2, <2>3 DEF SettledOnceFor, Settled
<1>8. CASE f = e /\ Settles(e, a, row)
  <2>1. ~PaysLate(e, a, row) BY <1>8 DEF Settles, PaysLate
  <2>2. SettlingRows(f)' = SettlingRows(f) \cup {n} BY <1>1, <1>8, <2>1, SettlingAfter
  <2>3. ~Settled(f) /\ Settled(f)' /\ settlement'[f].fundTransactionId = n
    BY <1>1, <1>5, <1>8 DEF Settles, Settled
  <2>4. type = "EVENT_SETTLEMENT"
    BY <1>2, <1>8 DEF PostedType, Settles, Reopens, PaysLate
  <2>5. ledger'[n].type = "EVENT_SETTLEMENT" BY <1>2, <2>4
  <2>6. \A i \in SettlingRows(f) :
          ledger[i].type = "EVENT_SETTLEMENT" =>
            \E j \in SettlingRows(f) : i < j /\ ledger[j].type = "SETTLEMENT_REVERSAL"
    BY <2>3 DEF SettledOnceFor
  <2>7. \A i, j \in SettlingRows(f)' :
          i < j /\ ledger'[i].type = "EVENT_SETTLEMENT" /\ ledger'[j].type = "EVENT_SETTLEMENT" =>
            \E k \in SettlingRows(f)' :
              i < k /\ k < j /\ ledger'[k].type = "SETTLEMENT_REVERSAL"
    <3> SUFFICES ASSUME NEW i \in SettlingRows(f) \cup {n}, NEW j \in SettlingRows(f) \cup {n},
                        i < j, ledger'[i].type = "EVENT_SETTLEMENT",
                        ledger'[j].type = "EVENT_SETTLEMENT"
                 PROVE  \E k \in SettlingRows(f) :
                          i < k /\ k < j /\ ledger'[k].type = "SETTLEMENT_REVERSAL"
      BY <2>2
    <3>1. i \in SettlingRows(f) BY <1>3, <1>4
    <3>2. CASE j = n BY <1>3, <1>4, <2>6, <3>1, <3>2
    <3>3. CASE j \in SettlingRows(f) BY <1>3, <1>4, <3>1, <3>3 DEF SettledOnceFor
    <3> QED BY <3>2, <3>3
  <2>8. \A i \in SettlingRows(f)' : i <= n BY <1>3, <1>4, <2>2
  <2> QED BY <2>2, <2>3, <2>5, <2>7, <2>8 DEF SettledOnceFor
<1>9. CASE f = e /\ Reopens(e, a, row)
  <2>1. ~PaysLate(e, a, row) BY <1>9 DEF Reopens, PaysLate
  <2>2. SettlingRows(f)' = SettlingRows(f) \cup {n} BY <1>1, <1>9, <2>1, SettlingAfter
  <2>3. ~Settled(f)' BY <1>5, <1>9 DEF Reopens, Settled
  <2>4. type = "SETTLEMENT_REVERSAL"
    BY <1>2, <1>9 DEF PostedType, Settles, Reopens, PaysLate
  <2>5. ledger'[n].type = "SETTLEMENT_REVERSAL" BY <1>2, <2>4
  <2>6. \A i \in SettlingRows(f)' :
          ledger'[i].type = "EVENT_SETTLEMENT" =>
            \E j \in SettlingRows(f)' : i < j /\ ledger'[j].type = "SETTLEMENT_REVERSAL"
    BY <1>3, <1>4, <2>2, <2>5
  <2>7. \A i, j \in SettlingRows(f)' :
          i < j /\ ledger'[i].type = "EVENT_SETTLEMENT" /\ ledger'[j].type = "EVENT_SETTLEMENT" =>
            \E k \in SettlingRows(f)' :
              i < k /\ k < j /\ ledger'[k].type = "SETTLEMENT_REVERSAL"
    BY <1>3, <1>4, <2>2, <2>5 DEF SettledOnceFor
  <2> QED BY <2>3, <2>6, <2>7 DEF SettledOnceFor
<1> QED BY <1>6, <1>7, <1>8, <1>9 DEF Posts

\* A money step keeps SettledOnce.
LEMMA OnceStep ==
  ASSUME TypeOK, SettledOnce, MoneyStep
  PROVE  SettledOnce'
<1> SUFFICES ASSUME NEW f \in Event PROVE SettledOnceFor(f)' BY DEF SettledOnce, SettledOnceFor
<1>1. SettledOnceFor(f) BY SettledOnceParts
<1>2. CASE UNCHANGED moneyVars
  BY <1>1, <1>2 DEF moneyVars, SettledOnceFor, Settled, SettlingRows, LedgerRows, IsSettling
<1>3. CASE \E e \in Event, a \in Int, row \in SettlementRow : Posts(e, a, row)
  BY <1>1, <1>3, OncePosted
<1> QED BY <1>2, <1>3 DEF MoneyStep

\* Settling copies the live expenses, and no expense of a settled event moves.
LEMMA FrozenStep ==
  ASSUME TypeOK, ExpensesFrozen, MoneyStep
  PROVE  ExpensesFrozen'
<1> SUFFICES ASSUME NEW f \in Event, Settled(f)'
             PROVE  settlement'[f].expenses = ExpenseTotal(f)'
  BY DEF ExpensesFrozen
<1>1. CASE UNCHANGED moneyVars /\ \A e \in Event : Settled(e) => expense'[e] = expense[e]
  BY <1>1 DEF moneyVars, Settled, ExpenseTotal, ExpensesFrozen
<1>2. CASE /\ UNCHANGED expense
           /\ \E e \in Event, a \in Int, row \in SettlementRow : Posts(e, a, row)
  <2>1. PICK e \in Event, a \in Int, row \in SettlementRow : Posts(e, a, row) BY <1>2
  <2>2. ExpenseTotal(f)' = ExpenseTotal(f) BY <1>2 DEF ExpenseTotal
  <2>3. settlement'[e] = row /\ (f # e => settlement'[f] = settlement[f])
    BY <2>1, OthersKeep
  <2> QED BY <2>1, <2>2, <2>3 DEF Posts, Settles, Reopens, PaysLate, Settled, ExpensesFrozen
<1> QED BY <1>1, <1>2 DEF MoneyStep

\* What a posting adds to the fund's expenses is what it adds to the settled
\* events' expenses.
LEMMA TotalsStep ==
  ASSUME TypeOK, FundTotals, MoneyStep
  PROVE  FundTotals'
<1> DEFINE S == SettledExpenses
<1>1. CASE UNCHANGED moneyVars
  <2>1. S' = S BY <1>1 DEF moneyVars, SettledExpenses, Settled
  <2> QED BY <1>1, <2>1 DEF moneyVars, FundTotals
<1>2. CASE \E e \in Event, a \in Int, row \in SettlementRow : Posts(e, a, row)
  <2>1. PICK e \in Event, a \in Int, row \in SettlementRow : Posts(e, a, row) BY <1>2
  <2>2. /\ settlement'[e] = row
        /\ \A f \in Event : f # e => settlement'[f] = settlement[f]
    BY <2>1, OthersKeep
  <2>3. \A f \in Event : settlement[f].expenses \in Nat BY DEF TypeOK, SettlementRow
  <2>4. row.expenses \in Nat BY DEF SettlementRow
  <2>5. \A f \in Event : S[f] \in Int /\ S'[f] \in Int
    BY <2>2, <2>3, <2>4 DEF SettledExpenses, Settled
  <2>6. \A f \in Event \ {e} : S'[f] = S[f] BY <2>2 DEF SettledExpenses, Settled
  <2>7. SumFunctionOnSet(S', Event) = SumFunctionOnSet(S, Event) - S[e] + S'[e]
    <3> HIDE DEF S
    <3> QED BY <2>5, <2>6, SumUpdate, FundsAssumption
  <2>8. SumFunctionOnSet(S, Event) \in Int
    <3> HIDE DEF S
    <3> QED BY <2>5, SumType, FundsAssumption
  <2>9. ExpenseTotal(e) \in Nat BY ExpenseTotalType
  <2>10. /\ fund'.totalExpenses = fund.totalExpenses - S[e] + S'[e]
         /\ fund'.balance = fund'.totalIncome - fund'.totalExpenses
    <3>1. /\ fund.balance \in Int /\ fund.totalIncome \in Int /\ fund.totalExpenses \in Int
          /\ fund.balance = fund.totalIncome - fund.totalExpenses
      BY DEF TypeOK, FundTotals
    <3>2. CASE Settles(e, a, row)
      <4>1. S[e] = 0 /\ S'[e] = ExpenseTotal(e)
        BY <2>2, <3>2 DEF Settles, SettledExpenses, Settled
      <4>2. /\ fund'.balance = fund.balance + a
            /\ fund'.totalIncome = fund.totalIncome + (a + ExpenseTotal(e))
            /\ fund'.totalExpenses = fund.totalExpenses + ExpenseTotal(e)
        BY <3>2 DEF Settles, PostFundTransaction
      <4> HIDE DEF S
      <4> QED BY <2>9, <3>1, <4>1, <4>2
    <3>3. CASE Reopens(e, a, row)
      <4>1. S[e] = settlement[e].expenses /\ S'[e] = 0
        BY <2>2, <3>3 DEF Reopens, SettledExpenses, Settled
      <4>2. /\ fund'.balance = fund.balance + a
            /\ fund'.totalIncome = fund.totalIncome + (a - settlement[e].expenses)
            /\ fund'.totalExpenses = fund.totalExpenses + (-settlement[e].expenses)
        BY <3>3 DEF Reopens, PostFundTransaction
      <4> HIDE DEF S
      <4> QED BY <2>3, <3>1, <4>1, <4>2
    <3>4. CASE PaysLate(e, a, row)
      <4>1. S[e] = settlement[e].expenses /\ S'[e] = settlement[e].expenses
        BY <2>2, <3>4 DEF PaysLate, SettledExpenses, Settled
      <4>2. /\ fund'.balance = fund.balance + a
            /\ fund'.totalIncome = fund.totalIncome + a
            /\ fund'.totalExpenses = fund.totalExpenses
        BY <3>1, <3>4 DEF PaysLate, PostFundTransaction
      <4> HIDE DEF S
      <4> QED BY <2>3, <3>1, <4>1, <4>2
    <3> QED BY <2>1, <3>2, <3>3, <3>4 DEF Posts
  <2>11. fund.totalExpenses = SumFunctionOnSet(S, Event) BY DEF FundTotals
  <2>12. SumFunctionOnSet(SettledExpenses, Event)' = SumFunctionOnSet(S', Event) OBVIOUS
  <2>13. fund'.totalExpenses = SumFunctionOnSet(S', Event)
    <3> HIDE DEF S
    <3> QED BY <2>7, <2>10, <2>11
  <2> QED BY <2>10, <2>12, <2>13 DEF FundTotals
<1> QED BY <1>1, <1>2 DEF MoneyStep

\* The inductive invariant: types need SettledOnce (what a reopen reverses is a
\* row of the ledger), the rest needs the types.
IInv == TypeOK /\ SettledOnce /\ LedgerChain /\ FundTotals /\ ExpensesFrozen

\* The invariant holds initially.
LEMMA InitInv == Init => IInv
<1> SUFFICES ASSUME Init PROVE IInv OBVIOUS
<1>1. TypeOK BY InitType
<1>2. /\ ledger = <<>>
      /\ settlement = [e \in Event |-> NoSettlement]
      /\ fund = [balance |-> 0, totalIncome |-> 0, totalExpenses |-> 0]
  BY DEF Init
<1>3. \A e \in Event : ~Settled(e) BY <1>2 DEF Settled, NoSettlement
<1>4. \A e \in Event : SettlingRows(e) = {} BY <1>2 DEF SettlingRows, LedgerRows
<1>5. SettledOnce BY <1>3, <1>4 DEF SettledOnce
<1>6. LedgerChain BY <1>2 DEF LedgerChain
<1>7. FundTotals
  <2> DEFINE S == SettledExpenses
  <2>1. \A e \in Event : S[e] = 0 BY <1>3 DEF SettledExpenses
  <2>2. SumFunctionOnSet(S, Event) = 0
    <3> HIDE DEF S
    <3> QED BY <2>1, SumZero, FundsAssumption
  <2> QED BY <1>2, <2>2 DEF FundTotals
<1>8. ExpensesFrozen BY <1>3 DEF ExpensesFrozen
<1> QED BY <1>1, <1>5, <1>6, <1>7, <1>8 DEF IInv

\* The invariant is inductive.
LEMMA StepInv == IInv /\ [Next]_vars => IInv'
<1> SUFFICES ASSUME IInv, [Next]_vars PROVE IInv' OBVIOUS
<1> USE DEF IInv
<1>1. TypeOK' BY TypeStep
<1>2. MoneyStep BY MoneyStepHolds
<1> QED BY <1>1, <1>2, OnceStep, ChainStep, TotalsStep, FrozenStep

\* The inductive invariant holds of every behaviour.
THEOREM Invariant == Spec => []IInv
BY InitInv, StepInv, PTL DEF Spec

\* The state is always well typed, whatever requests interleave or retry.
THEOREM TypeCorrect == Spec => []TypeOK
BY Invariant, PTL DEF IInv

\* Every ledger row's balanceAfter continues the row before it, and the fund's
\* cached balance is the last row's (postFundTransaction).
THEOREM LedgerChainHolds == Spec => []LedgerChain
BY Invariant, PTL DEF IInv

\* No event is settled twice without a reopen between (claimSettlement), and
\* SETTLED always points at the posting it stands for.
THEOREM SettledOnceHolds == Spec => []SettledOnce
BY Invariant, PTL DEF IInv

\* The fund's balance is its income minus its expenses, and its expenses are
\* those of the events settled now (settle, reopen, onPaymentReviewed).
THEOREM FundTotalsHold == Spec => []FundTotals
BY Invariant, PTL DEF IInv

\* A settled event's expenses are the ones it was settled with
\* (lockSettlement before every expense write).
THEOREM ExpensesStayFrozen == Spec => []ExpensesFrozen
BY Invariant, PTL DEF IInv

-----------------------------------------------------------------------------
(* The refinement of FundPromise *)

\* Only a late payment adds to an event's late rows.
LEMMA LateAfter ==
  ASSUME TypeOK, NEW e \in Event, NEW a \in Int, NEW row \in SettlementRow,
         Posts(e, a, row), NEW f \in Event
  PROVE  LateRows(f)' = IF f = e /\ PaysLate(e, a, row)
                        THEN LateRows(f) \cup {Len(ledger) + 1}
                        ELSE LateRows(f)
<1>1. PICK n \in Nat : n = Len(ledger) + 1 BY LedgerFacts
<1>2. PICK type \in Posting :
        /\ PostedType(e, a, row, type)
        /\ ledger'[n] =
             [eventId |-> e, type |-> type, amount |-> a, balanceAfter |-> fund.balance + a]
  BY <1>1, Appended
<1>3. /\ DOMAIN ledger' = DOMAIN ledger \cup {n}
      /\ \A k \in DOMAIN ledger : ledger'[k] = ledger[k]
      /\ n \notin DOMAIN ledger
  BY <1>1, Appended
<1>4. type \in {"EVENT_SETTLEMENT", "SETTLEMENT_REVERSAL"} <=> ~PaysLate(e, a, row)
  <2>1. Settles(e, a, row) => ~PaysLate(e, a, row) BY DEF Settles, PaysLate
  <2>2. Reopens(e, a, row) => ~PaysLate(e, a, row) BY DEF Reopens, PaysLate
  <2> QED BY <1>2, <2>1, <2>2 DEF PostedType
<1>5. ledger'[n].eventId = e /\ ledger'[n].type = type BY <1>2
<1>6. (n \in LateRows(f)') <=> (f = e /\ PaysLate(e, a, row))
  BY <1>3, <1>4, <1>5 DEF LateRows, LedgerRows, IsSettling
<1>7. \A k \in DOMAIN ledger : (k \in LateRows(f)') <=> (k \in LateRows(f))
  BY <1>3 DEF LateRows, LedgerRows, IsSettling
<1>8. LateRows(f)' \subseteq DOMAIN ledger' /\ LateRows(f) \subseteq DOMAIN ledger
  BY DEF LateRows, LedgerRows
<1>9. CASE f = e /\ PaysLate(e, a, row)
  BY <1>1, <1>3, <1>6, <1>7, <1>8, <1>9
<1>10. CASE ~(f = e /\ PaysLate(e, a, row))
  <2>1. n \notin LateRows(f)' BY <1>6, <1>10
  <2>2. LateRows(f)' = LateRows(f) BY <1>3, <1>7, <1>8, <2>1
  <2> QED BY <1>10, <2>2
<1> QED BY <1>9, <1>10

\* A late payment adds its amount to its event's late total; no other posting
\* and no other event's total moves.
LEMMA LateTotal ==
  ASSUME TypeOK, NEW e \in Event, NEW a \in Int, NEW row \in SettlementRow,
         Posts(e, a, row), NEW f \in Event
  PROVE  LateNow'[f] = IF f = e /\ PaysLate(e, a, row) THEN LateNow[f] + a ELSE LateNow[f]
<1> DEFINE A == Amounts
           L == LateRows(f)
<1>1. PICK n \in Nat : n = Len(ledger) + 1 BY LedgerFacts
<1>2. /\ DOMAIN ledger' = DOMAIN ledger \cup {n}
      /\ \A k \in DOMAIN ledger : ledger'[k] = ledger[k]
      /\ n \notin DOMAIN ledger
      /\ ledger'[n].amount = a
  BY <1>1, Appended
<1>3. L \subseteq DOMAIN ledger BY DEF LateRows, LedgerRows
<1>4. IsFiniteSet(L) /\ \A k \in L : A[k] \in Int BY <1>3, LedgerFacts
<1>5. (\A k \in L : A'[k] = A[k]) /\ A'[n] = a BY <1>2, <1>3 DEF Amounts
<1>6. L' = IF f = e /\ PaysLate(e, a, row) THEN L \cup {n} ELSE L BY <1>1, LateAfter
<1>7. LateNow[f] = SumFunctionOnSet(A, L) /\ LateNow'[f] = SumFunctionOnSet(A', L')
  BY DEF LateNow
<1>8. n \notin L BY <1>2, <1>3
<1> HIDE DEF A, L
<1>9. SumFunctionOnSet(A', L) = SumFunctionOnSet(A, L) BY <1>4, <1>5, SumCongruent
<1>10. SumFunctionOnSet(A, L) \in Int BY <1>4, SumType
<1>11. SumFunctionOnSet(A', L \cup {n}) = a + SumFunctionOnSet(A', L)
  <2>1. \A k \in L \cup {n} : A'[k] \in Int BY <1>4, <1>5
  <2> QED BY <1>4, <1>5, <1>8, <2>1, SumAdd
<1> QED BY <1>6, <1>7, <1>9, <1>10, <1>11

\* The initial fund is the promised one.
LEMMA PromiseInit == Init => Promise!Init
<1> SUFFICES ASSUME Init PROVE Promise!Init OBVIOUS
<1>1. /\ ledger = <<>>
      /\ settlement = [e \in Event |-> NoSettlement]
      /\ fund.balance = 0
  BY DEF Init
<1>2. \A e \in Event : ~Settled(e) BY <1>1 DEF Settled, NoSettlement
<1>3. \A e \in Event : LateRows(e) = {} BY <1>1 DEF LateRows, LedgerRows
<1>4. LateNow = [e \in Event |-> 0] BY <1>3, SumEmpty DEF LateNow
<1>5. SettledNow = [e \in Event |-> FALSE]
  <2>1. \A e \in Event : Settled(e) = FALSE BY <1>2 DEF Settled
  <2> QED BY <2>1, Zenon DEF SettledNow
<1>6. PostedNow = [e \in Event |-> 0] BY <1>2 DEF PostedNow
<1> QED BY <1>1, <1>4, <1>5, <1>6 DEF Promise!Init

\* Every step is a promised one, or invisible to the fund's readers.
LEMMA PromiseStep == IInv /\ [Next]_vars => [Promise!Next]_(Promise!vars)
<1> SUFFICES ASSUME IInv, [Next]_vars PROVE [Promise!Next]_(Promise!vars) OBVIOUS
<1> USE DEF IInv
<1>1. CASE UNCHANGED moneyVars
  <2>1. SettledNow' = SettledNow /\ PostedNow' = PostedNow
    BY <1>1 DEF moneyVars, SettledNow, PostedNow, Settled
  <2>2. LateNow' = LateNow
    BY <1>1 DEF moneyVars, LateNow, LateRows, LedgerRows, IsSettling, Amounts
  <2> QED BY <1>1, <2>1, <2>2 DEF moneyVars, Promise!vars
<1>2. CASE \E e \in Event, a \in Int, row \in SettlementRow : Posts(e, a, row)
  <2>1. PICK e \in Event, a \in Int, row \in SettlementRow : Posts(e, a, row) BY <1>2
  <2>2. /\ settlement'[e] = row
        /\ \A f \in Event : f # e => settlement'[f] = settlement[f]
    BY <2>1, OthersKeep
  <2>3. /\ \A k \in DOMAIN ledger : ledger'[k] = ledger[k]
        /\ ledger'[Len(ledger) + 1].amount = a
        /\ fund'.balance = fund.balance + a
        /\ fund.balance \in Int
    BY <2>1, Appended DEF TypeOK
  <2>4. \A f \in Event : LateNow'[f] =
          IF f = e /\ PaysLate(e, a, row) THEN LateNow[f] + a ELSE LateNow[f]
    BY <2>1, LateTotal
  <2>5. \A f \in Event : f # e =>
          /\ Settled(f)' = Settled(f)
          /\ PostedNow'[f] = PostedNow[f]
          /\ LateNow'[f] = LateNow[f]
    BY <2>2, <2>3, <2>4, PostedRow DEF Settled, PostedNow
  <2>6. /\ SettledNow' = [SettledNow EXCEPT ![e] = Settled(e)']
        /\ PostedNow' = [PostedNow EXCEPT ![e] = PostedNow'[e]]
        /\ LateNow' = [LateNow EXCEPT ![e] = LateNow'[e]]
    BY <2>5 DEF SettledNow, PostedNow, LateNow
  <2>7. CASE Settles(e, a, row)
    <3>1. ~Settled(e) /\ Settled(e)' /\ PostedNow'[e] = a /\ ~PaysLate(e, a, row)
      BY <2>2, <2>3, <2>7 DEF Settles, PaysLate, Settled, PostedNow
    <3>2. LateNow' = LateNow BY <2>4, <3>1 DEF LateNow
    <3>3. Promise!Settle(e) BY <2>3, <2>6, <3>1, <3>2 DEF Promise!Settle, SettledNow
    <3> QED BY <3>3 DEF Promise!Next
  <2>8. CASE Reopens(e, a, row)
    <3>1. /\ Settled(e) /\ ~Settled(e)' /\ PostedNow'[e] = 0
          /\ a = -PostedNow[e]
          /\ ~PaysLate(e, a, row)
      BY <2>2, <2>8 DEF Reopens, PaysLate, Settled, PostedNow
    <3>2. LateNow' = LateNow BY <2>4, <3>1 DEF LateNow
    <3>3. PostedNow[e] \in Int BY <3>1, PostedRow DEF PostedNow
    <3>4. SettledNow[e] BY <3>1, Zenon DEF SettledNow
    <3>5. Settled(e)' = FALSE BY <3>1 DEF Settled
    <3>6. SettledNow' = [SettledNow EXCEPT ![e] = FALSE] BY <2>6, <3>5
    <3>7. fund'.balance = fund.balance - PostedNow[e] BY <2>3, <3>1, <3>3
    <3>8. Promise!Reopen(e) BY <2>6, <3>1, <3>2, <3>4, <3>6, <3>7 DEF Promise!Reopen
    <3> QED BY <3>8 DEF Promise!Next
  <2>9. CASE PaysLate(e, a, row)
    <3>1. /\ Settled(e) /\ Settled(e)'
          /\ settlement'[e].fundTransactionId = settlement[e].fundTransactionId
      BY <2>2, <2>9 DEF PaysLate, Settled
    <3>2. SettledNow' = SettledNow BY <2>6, <3>1 DEF SettledNow
    <3>3. PostedNow'[e] = PostedNow[e] BY <2>3, <3>1, PostedRow DEF PostedNow
    <3>4. PostedNow' = PostedNow BY <2>6, <3>3 DEF PostedNow
    <3>5. LateNow'[e] = LateNow[e] + a BY <2>4, <2>9
    <3>6. LateNow[e] \in Int
      <4>1. LateRows(e) \subseteq DOMAIN ledger BY DEF LateRows, LedgerRows
      <4> QED BY <4>1, LedgerFacts, SumType DEF LateNow
    <3>7. fund'.balance = fund.balance + LateNow'[e] - LateNow[e] BY <2>3, <3>5, <3>6
    <3>8. Promise!Late(e) BY <2>6, <3>1, <3>2, <3>4, <3>7 DEF Promise!Late, SettledNow
    <3> QED BY <3>8 DEF Promise!Next
  <2> QED BY <2>1, <2>7, <2>8, <2>9 DEF Posts
<1>3. MoneyStep BY MoneyStepHolds
<1> QED BY <1>1, <1>2, <1>3 DEF MoneyStep

\* The handlers implement FundPromise: seen from outside, a fund moves only by
\* settling an event, taking exactly that back, or late payments of settled
\* events.
THEOREM Implements == Spec => ImplementsPromise
<1>1. Init => Promise!Init BY PromiseInit
<1>2. IInv /\ [Next]_vars => [Promise!Next]_(Promise!vars) BY PromiseStep
<1> QED BY <1>1, <1>2, Invariant, PTL DEF Spec, ImplementsPromise, Promise!Spec

-----------------------------------------------------------------------------
(* With one request at a time, the ledger follows the payments *)

\* A row that says itself what was paid on it: no row of this kind is worth
\* more or less when the fee changes.
Recorded(row) == row.paidAmount # Null \/ row.status = "none"
RowsRecorded == \A e \in Event, m \in Member : Recorded(payment[e][m])

\* What a request has read of a payment row, and will write by, still holds.
ReadsHold ==
  \A s \in Slot :
    LET r == request[s]
        row == payment[r.event][r.member]
    IN  /\ At(s, "submit_write") => r.row.paidAmount = PaidCents(row, 0)
        /\ At(s, "review_write") =>
             /\ r.modified /\ r.before = row
             /\ r.after.paidAmount # Null
             /\ r.delta = r.after.paidAmount - PaidCents(row, 0)

\* The ledger, the snapshot and the payment rows of one event agree.
Follows(e) ==
  Settled(e) =>
    /\ Contribution(e) = Collected(payment[e], 0) - ExpenseTotal(e)
    /\ settlement[e].collected = Collected(payment[e], 0)
    /\ settlement[e].net = Contribution(e)

\* What the agreement rests on, beside IInv.
FollowInv == RowsRecorded /\ ReadsHold /\ \A e \in Event : Follows(e)

\* What is paid on a recorded row does not depend on the fee.
LEMMA FeeBlind ==
  ASSUME NEW rows \in [Member -> Row], \A m \in Member : Recorded(rows[m]), NEW f \in Nat
  PROVE  /\ \A m \in Member : PaidCents(rows[m], f) = PaidCents(rows[m], 0)
         /\ Collected(rows, f) = Collected(rows, 0)
<1>1. \A m \in Member : PaidCents(rows[m], f) = PaidCents(rows[m], 0)
  BY DEF Recorded, PaidCents
<1>2. [m \in Member |-> PaidCents(rows[m], f)] = [m \in Member |-> PaidCents(rows[m], 0)]
  BY <1>1
<1> QED BY <1>1, <1>2 DEF Collected

\* One row's change moves the total collected by the difference.
LEMMA CollectedMoves ==
  ASSUME NEW rows \in [Member -> Row], NEW m \in Member, NEW row \in Row
  PROVE  Collected([rows EXCEPT ![m] = row], 0)
           = Collected(rows, 0) - PaidCents(rows[m], 0) + PaidCents(row, 0)
<1> DEFINE f == [n \in Member |-> PaidCents(rows[n], 0)]
           g == [n \in Member |-> PaidCents([rows EXCEPT ![m] = row][n], 0)]
<1>1. \A n \in Member : f[n] \in Int /\ g[n] \in Int
  <2> SUFFICES ASSUME NEW n \in Member
               PROVE  PaidCents(rows[n], 0) \in Int /\ PaidCents([rows EXCEPT ![m] = row][n], 0) \in Int
    OBVIOUS
  <2>1. rows[n] \in Row /\ [rows EXCEPT ![m] = row][n] \in Row OBVIOUS
  <2>2. \A x \in Row : PaidCents(x, 0) \in Int BY RowMoney
  <2> QED BY <2>1, <2>2
<1>2. \A n \in Member \ {m} : g[n] = f[n] OBVIOUS
<1>3. f[m] = PaidCents(rows[m], 0) /\ g[m] = PaidCents(row, 0) OBVIOUS
<1>4. Collected(rows, 0) = SumFunctionOnSet(f, Member) BY DEF Collected
<1>5. Collected([rows EXCEPT ![m] = row], 0) = SumFunctionOnSet(g, Member) BY DEF Collected
<1> HIDE DEF f, g
<1>6. SumFunctionOnSet(g, Member) = SumFunctionOnSet(f, Member) - f[m] + g[m]
  BY <1>1, <1>2, SumUpdate, FundsAssumption
<1> QED BY <1>3, <1>4, <1>5, <1>6

\* A posting adds its amount to what its event has in the ledger.
LEMMA ContributionMoves ==
  ASSUME TypeOK, NEW e \in Event, NEW a \in Int, NEW row \in SettlementRow,
         Posts(e, a, row), NEW f \in Event
  PROVE  Contribution(f)' = IF f = e THEN Contribution(f) + a ELSE Contribution(f)
<1> DEFINE A == Amounts
           L == LedgerRows(f)
<1>1. PICK n \in Nat : n = Len(ledger) + 1 BY LedgerFacts
<1>2. /\ DOMAIN ledger' = DOMAIN ledger \cup {n}
      /\ \A k \in DOMAIN ledger : ledger'[k] = ledger[k]
      /\ n \notin DOMAIN ledger
      /\ ledger'[n].amount = a
  BY <1>1, Appended
<1>3. ledger'[n].eventId = e
  <2>1. PICK type \in Posting : ledger'[n] =
          [eventId |-> e, type |-> type, amount |-> a, balanceAfter |-> fund.balance + a]
    BY <1>1, Appended, ZenonT(30)
  <2> QED BY <2>1
<1>4. L \subseteq DOMAIN ledger BY DEF LedgerRows
<1>5. IsFiniteSet(L) /\ \A k \in L : A[k] \in Int BY <1>4, LedgerFacts
<1>6. (\A k \in L : A'[k] = A[k]) /\ A'[n] = a BY <1>2, <1>4 DEF Amounts
<1>7. L' = IF f = e THEN L \cup {n} ELSE L BY <1>2, <1>3 DEF LedgerRows
<1>8. Contribution(f) = SumFunctionOnSet(A, L) /\ Contribution(f)' = SumFunctionOnSet(A', L')
  BY DEF Contribution
<1>9. n \notin L BY <1>2, <1>4
<1> HIDE DEF A, L
<1>10. SumFunctionOnSet(A', L) = SumFunctionOnSet(A, L) BY <1>5, <1>6, SumCongruent
<1>11. SumFunctionOnSet(A, L) \in Int BY <1>5, SumType
<1>12. SumFunctionOnSet(A', L \cup {n}) = a + SumFunctionOnSet(A', L)
  <2>1. \A k \in L \cup {n} : A'[k] \in Int BY <1>5, <1>6
  <2> QED BY <1>5, <1>6, <1>9, <2>1, SumAdd
<1> QED BY <1>7, <1>8, <1>10, <1>11, <1>12

\* A row saved whole is the row the review made of it.
LEMMA SavedWhole ==
  ASSUME TypeOK, ReadsHold, NEW s \in Slot, At(s, "review_write")
  PROVE  SaveRow(request[s]) = request[s].after
<1> DEFINE r == request[s]
           row == payment[r.event][r.member]
<1>1. r \in [op : {"review_write"}, event : Event, member : Member, before : Row,
             after : Row, delta : Int, modified : BOOLEAN]
  BY RequestShape
<1>2. r.modified /\ r.before = row BY DEF ReadsHold
<1>3. row \in Row /\ r.after \in Row BY <1>1 DEF TypeOK
<1>4. SaveRow(r) = [f \in DOMAIN row |-> IF r.after[f] # r.before[f] THEN r.after[f] ELSE row[f]]
  BY <1>2 DEF SaveRow
<1> HIDE DEF row, r
<1>5. SaveRow(r) = r.after BY <1>2, <1>3, <1>4 DEF Row
<1> QED BY <1>5 DEF r

\* A step that touches neither payments nor the fund keeps the agreement, even
\* if it changes the fee: expenses of a settled event are locked.
LEMMA QuietFollows ==
  ASSUME TypeOK, MoneyStep, payment' = payment, UNCHANGED moneyVars,
         NEW e \in Event, Follows(e)
  PROVE  Follows(e)'
<1> SUFFICES ASSUME Settled(e)'
             PROVE  /\ Contribution(e)' = Collected(payment'[e], 0) - ExpenseTotal(e)'
                    /\ settlement'[e].collected = Collected(payment'[e], 0)
                    /\ settlement'[e].net = Contribution(e)'
  BY DEF Follows
<1>1. Settled(e) BY DEF moneyVars, Settled
<1>2. expense'[e] = expense[e]
  <2>1. CASE UNCHANGED moneyVars /\ \A f \in Event : Settled(f) => expense'[f] = expense[f]
    BY <1>1, <2>1
  <2>2. CASE UNCHANGED expense BY <2>2
  <2> QED BY <2>1, <2>2 DEF MoneyStep
<1>3. ExpenseTotal(e)' = ExpenseTotal(e) BY <1>2 DEF ExpenseTotal
<1>4. Contribution(e)' = Contribution(e)
  BY DEF moneyVars, Contribution, LedgerRows, Amounts
<1>5. settlement'[e] = settlement[e] BY DEF moneyVars
<1> QED BY <1>1, <1>3, <1>4, <1>5 DEF Follows

\* A resubmission keeps what was paid before it.
LEMMA SubmitFollows ==
  ASSUME TypeOK, FollowInv, NEW s \in Slot, SubmitWrite(s)
  PROVE  RowsRecorded' /\ \A e \in Event : Follows(e)'
<1> PICK r \in [op : {"submit_write"}, event : Event, member : Member, row : Row] :
      r = request[s]
  BY RequestShape DEF SubmitWrite
<1>1. r.event \in Event /\ r.member \in Member /\ r.row \in Row OBVIOUS
<1>2. payment' = [payment EXCEPT ![r.event] = [payment[r.event] EXCEPT ![r.member] = r.row]]
  BY DEF SubmitWrite
<1>3. payment[r.event] \in [Member -> Row] /\ payment[r.event][r.member] \in Row
  BY <1>1 DEF TypeOK
<1>4. r.row.paidAmount = PaidCents(payment[r.event][r.member], 0)
  BY DEF FollowInv, ReadsHold, SubmitWrite
<1>5. r.row.paidAmount \in Nat /\ r.row.paidAmount # Null
  BY <1>3, <1>4, RowMoney, FundsAssumption
<1>6. RowsRecorded'
  BY <1>1, <1>2, <1>5 DEF RowsRecorded, Recorded, FollowInv, TypeOK
<1>7. PaidCents(r.row, 0) = PaidCents(payment[r.event][r.member], 0)
  BY <1>4, <1>5 DEF PaidCents
<1>8. Collected([payment[r.event] EXCEPT ![r.member] = r.row], 0) = Collected(payment[r.event], 0)
  <2>1. Collected(payment[r.event], 0) \in Nat BY <1>3, CollectedType
  <2>2. PaidCents(payment[r.event][r.member], 0) \in Nat BY <1>3, RowMoney
  <2> QED BY <1>1, <1>3, <1>7, <2>1, <2>2, CollectedMoves
<1>9. \A e \in Event : Collected(payment'[e], 0) = Collected(payment[e], 0)
  BY <1>1, <1>2, <1>8 DEF TypeOK
<1>10. UNCHANGED <<expense, moneyVars>> BY DEF SubmitWrite
<1> SUFFICES ASSUME NEW e \in Event PROVE Follows(e)' BY <1>6
<1>11. /\ Contribution(e)' = Contribution(e) /\ ExpenseTotal(e)' = ExpenseTotal(e)
       /\ settlement' = settlement
  BY <1>10 DEF moneyVars, Contribution, LedgerRows, Amounts, ExpenseTotal
<1>12. Follows(e) BY DEF FollowInv
<1> QED BY <1>9, <1>11, <1>12 DEF Follows, Settled

\* A verdict moves the payment row, and on a settled event the ledger and the
\* snapshot by the same difference.
LEMMA ReviewFollows ==
  ASSUME IInv, FollowInv, NEW s \in Slot, ReviewWrite(s)
  PROVE  RowsRecorded' /\ \A e \in Event : Follows(e)'
<1> TypeOK /\ ExpensesFrozen BY DEF IInv
<1> PICK r \in [op : {"review_write"}, event : Event, member : Member, before : Row,
                after : Row, delta : Int, modified : BOOLEAN] : r = request[s]
  BY RequestShape DEF ReviewWrite
<1> DEFINE e == r.event
           m == r.member
           rows == [payment[e] EXCEPT ![m] = r.after]
<1>1. e \in Event /\ m \in Member /\ r.after \in Row /\ r.delta \in Int OBVIOUS
<1>2. /\ r.after.paidAmount # Null
      /\ r.delta = r.after.paidAmount - PaidCents(payment[e][m], 0)
  BY DEF FollowInv, ReadsHold, ReviewWrite
<1>3. SaveRow(r) = r.after BY SavedWhole DEF FollowInv, ReviewWrite
<1>4. payment' = [payment EXCEPT ![e] = rows] BY <1>3 DEF ReviewWrite
<1>5. payment[e] \in [Member -> Row] /\ payment[e][m] \in Row BY <1>1 DEF TypeOK
<1>6. rows \in [Member -> Row] BY <1>1, <1>5
<1>7. RowsRecorded'
  BY <1>1, <1>2, <1>4 DEF RowsRecorded, Recorded, FollowInv, TypeOK
<1>8. PaidCents(r.after, 0) = r.after.paidAmount BY <1>2 DEF PaidCents
<1>9. /\ Collected(payment[e], 0) \in Nat /\ PaidCents(payment[e][m], 0) \in Nat
      /\ PaidCents(r.after, 0) \in Nat
  BY <1>1, <1>5, CollectedType, RowMoney
<1>10. Collected(rows, 0) = Collected(payment[e], 0) + r.delta
  <2>1. Collected(rows, 0) = Collected(payment[e], 0) - PaidCents(payment[e][m], 0)
                               + PaidCents(r.after, 0)
    BY <1>1, <1>5, CollectedMoves
  <2> HIDE DEF rows, e, m
  <2> QED BY <1>2, <1>8, <1>9, <2>1
<1>11. \A f \in Event : f # e => payment'[f] = payment[f] BY <1>4 DEF TypeOK
<1>12. payment'[e] = rows BY <1>1, <1>4 DEF TypeOK
<1>13. UNCHANGED expense BY DEF ReviewWrite
<1>14. \A f \in Event : ExpenseTotal(f)' = ExpenseTotal(f) BY <1>13 DEF ExpenseTotal
<1> SUFFICES ASSUME NEW f \in Event PROVE Follows(f)' BY <1>7
<1>15. Follows(f) BY DEF FollowInv
<1>16. CASE r.delta # 0 /\ Settled(e)
  <2> DEFINE row == Refreshed(settlement[e], e, rows)
             outstanding == Outstanding(rows, roster[e], PriceOf(e), fee[e])
  <2>1. PICK type \in {"LATE_PAYMENT", "PAYMENT_REVERSAL"} :
          PostFundTransaction(e, type, r.delta, r.delta, 0)
    BY <1>16 DEF ReviewWrite
  <2>2. settlement' = [settlement EXCEPT ![e] = row]
    BY <1>3, <1>16 DEF ReviewWrite
  <2>3. settlement[e] \in SettlementRow /\ roster[e] \in SUBSET Member /\ fee[e] \in Nat
    BY <1>1, PriceType DEF TypeOK
  <2>4. \A n \in Member : Recorded(rows[n])
    BY <1>1, <1>2, <1>5 DEF FollowInv, RowsRecorded, Recorded
  <2>5. Collected(rows, fee[e]) = Collected(rows, 0) BY <1>6, <2>3, <2>4, FeeBlind
  <2>6. outstanding \in Nat
    <3> HIDE DEF rows, e
    <3> QED BY <1>1, <1>6, <2>3, PriceType, OutstandingType DEF e
  <2>7. Collected(rows, 0) \in Nat BY <1>6, CollectedType
  <2>8. row = [settlement[e] EXCEPT !.collected = Collected(rows, 0),
                                    !.net = Collected(rows, 0) - settlement[e].expenses,
                                    !.outstanding = outstanding]
    BY <2>5 DEF Refreshed
  <2> HIDE DEF rows, outstanding, row, e, m
  <2>9. settlement[e].expenses \in Nat BY <2>3 DEF SettlementRow
  <2>a. Collected(rows, 0) - settlement[e].expenses \in Int BY <2>7, <2>9
  <2>b. row \in SettlementRow BY <2>3, <2>6, <2>7, <2>8, <2>a DEF SettlementRow
  <2>10. /\ row.status = settlement[e].status
         /\ row.expenses = settlement[e].expenses
         /\ row.fundTransactionId = settlement[e].fundTransactionId
         /\ row.collected = Collected(rows, 0)
         /\ row.net = Collected(rows, 0) - settlement[e].expenses
    BY <2>3, <2>8 DEF SettlementRow
  <2>11. PaysLate(e, r.delta, row)
    BY <1>16, <2>1, <2>2, <2>10 DEF PaysLate, Settled
  <2>12. Posts(e, r.delta, row) BY <2>11 DEF Posts
  <2>13. Contribution(f)' = IF f = e THEN Contribution(f) + r.delta ELSE Contribution(f)
    BY <1>1, <2>b, <2>12, ContributionMoves
  <2>14. settlement'[e] = row /\ (f # e => settlement'[f] = settlement[f])
    BY <1>1, <2>b, <2>12, OthersKeep
  <2>15. CASE f # e
    BY <1>11, <1>14, <1>15, <2>13, <2>14, <2>15 DEF Follows, Settled
  <2>16. CASE f = e
    <3>1. settlement[e].expenses = ExpenseTotal(e) BY <1>16, <1>1 DEF ExpensesFrozen
    <3>2. Contribution(e) = Collected(payment[e], 0) - ExpenseTotal(e)
      BY <1>15, <1>16, <2>16 DEF Follows
    <3>3. Contribution(e)' = Contribution(e) + r.delta BY <2>13, <2>16
    <3>4. Contribution(e)' = Collected(rows, 0) - ExpenseTotal(e)
      BY <1>1, <1>9, <1>10, <2>9, <3>1, <3>2, <3>3
    <3> QED BY <1>12, <1>14, <2>10, <2>14, <2>16, <3>1, <3>4 DEF Follows
  <2> QED BY <2>15, <2>16
<1>17. CASE ~(r.delta # 0 /\ Settled(e))
  <2>1. UNCHANGED moneyVars BY <1>17 DEF ReviewWrite
  <2>2. Contribution(f)' = Contribution(f) /\ settlement' = settlement
    BY <2>1 DEF moneyVars, Contribution, LedgerRows, Amounts
  <2>3. Settled(f) => Collected(payment'[f], 0) = Collected(payment[f], 0)
    <3> HIDE DEF rows
    <3> QED BY <1>9, <1>10, <1>11, <1>12, <1>17
  <2> QED BY <1>14, <1>15, <2>2, <2>3 DEF Follows, Settled
<1> QED BY <1>16, <1>17

\* Settling posts what is still missing in the ledger.
LEMMA SettleFollows ==
  ASSUME TypeOK, FollowInv, NEW s \in Slot, SettleWrite(s), NEW f \in Event
  PROVE  Follows(f)'
<1> PICK r \in [op : {"settle"}, event : Event, allow : BOOLEAN, fee : Nat, price : Nat,
                ended : BOOLEAN] : r = request[s]
  BY RequestShape DEF SettleWrite
<1> DEFINE e == r.event
           collected == Collected(payment[e], r.fee)
           expenses == ExpenseTotal(e)
           owing == SettleOutstanding(r)
           a == (collected - expenses) - Contribution(e)
           row == [status |-> "SETTLED", collected |-> collected, expenses |-> expenses,
                   net |-> collected - expenses, outstanding |-> owing,
                   fundTransactionId |-> Len(ledger) + 1]
<1>1. e \in Event /\ r.fee \in Nat /\ r.price \in Nat OBVIOUS
<1>2. payment[e] \in [Member -> Row] /\ roster[e] \in SUBSET Member BY <1>1 DEF TypeOK
<1>3. collected \in Nat /\ owing \in Nat
  BY <1>1, <1>2, CollectedType, OutstandingType DEF SettleOutstanding
<1>4. expenses \in Nat BY <1>1, ExpenseTotalType
<1>5. Contribution(e) \in Int BY <1>1, ContributionType
<1>6. a \in Int /\ collected - expenses \in Int
  <2> HIDE DEF collected, expenses
  <2> QED BY <1>3, <1>4, <1>5
<1>7. row \in SettlementRow
  <2> HIDE DEF collected, expenses, owing
  <2> QED BY <1>3, <1>4, <1>6, LedgerFacts DEF SettlementRow
<1>8. Posts(e, a, row)
  BY DEF SettleWrite, MaySettle, Posts, Settles, AmountToPost, SettledNet
<1>9. collected = Collected(payment[e], 0)
  BY <1>1, <1>2, FeeBlind DEF FollowInv, RowsRecorded
<1>10. UNCHANGED <<payment, expense>> BY DEF SettleWrite
<1>11. ExpenseTotal(f)' = ExpenseTotal(f) BY <1>10 DEF ExpenseTotal
<1>12. row.collected = collected /\ row.net = collected - expenses OBVIOUS
<1>13. Follows(f) BY DEF FollowInv
<1> HIDE DEF row, collected, a, e
<1>14. Contribution(f)' = IF f = e THEN Contribution(f) + a ELSE Contribution(f)
  BY <1>1, <1>6, <1>7, <1>8, ContributionMoves
<1>15. settlement'[e] = row /\ (f # e => settlement'[f] = settlement[f])
  <2>1. settlement' = [settlement EXCEPT ![e] = row]
    BY <1>8 DEF Posts, Settles, Reopens, PaysLate
  <2>2. settlement = [g \in Event |-> settlement[g]] BY DEF TypeOK
  <2> QED BY <1>1, <2>1, <2>2
<1>16. CASE f # e
  BY <1>10, <1>11, <1>13, <1>14, <1>15, <1>16 DEF Follows, Settled
<1>17. CASE f = e
  <2>1. Contribution(e)' = Contribution(e) + a BY <1>14, <1>17
  <2>2. Contribution(e)' = collected - expenses
    <3> HIDE DEF expenses
    <3> QED BY <1>3, <1>4, <1>5, <2>1 DEF a
  <2> QED BY <1>9, <1>10, <1>11, <1>12, <1>15, <1>17, <2>2 DEF Follows
<1> QED BY <1>16, <1>17

\* A reopened event promises nothing, and no other event is touched.
LEMMA ReopenFollows ==
  ASSUME IInv, FollowInv, NEW u, NEW e \in Event, Reopen(u, e), NEW f \in Event
  PROVE  Follows(f)'
<1>1. TypeOK /\ SettledOnce BY DEF IInv
<1>2. PICK a \in Int, row \in SettlementRow : Reopens(e, a, row) BY <1>1, ReopenPosts
<1>3. Posts(e, a, row) /\ row.status = "OPEN" BY <1>2 DEF Posts, Reopens
<1>4. Contribution(f)' = IF f = e THEN Contribution(f) + a ELSE Contribution(f)
  BY <1>1, <1>3, ContributionMoves
<1>5. settlement'[e] = row /\ (f # e => settlement'[f] = settlement[f])
  BY <1>1, <1>3, OthersKeep
<1>6. UNCHANGED <<payment, expense>> BY DEF Reopen
<1>7. ExpenseTotal(f)' = ExpenseTotal(f) BY <1>6 DEF ExpenseTotal
<1>8. Follows(f) BY DEF FollowInv
<1> QED BY <1>3, <1>4, <1>5, <1>6, <1>7, <1>8 DEF Follows, Settled

\* A request holds by what it read as long as its slot and the rows stay.
LEMMA ReadsKept ==
  ASSUME ReadsHold, payment' = payment, request' = request
  PROVE  ReadsHold'
BY DEF ReadsHold, At

\* With one slot, a step that gives it something which is not about to write a
\* payment row leaves no read to hold.
LEMMA NothingRead ==
  ASSUME TypeOK, NEW s \in Slot, \A t \in Slot : t = s, NEW next,
         request' = [request EXCEPT ![s] = next],
         next.op \notin {"submit_write", "review_write"}
  PROVE  ReadsHold'
<1>1. \A t \in Slot : request'[t] = next BY DEF TypeOK
<1> QED BY <1>1 DEF ReadsHold, At

\* Reading for a submission: what was paid goes into the row to be written.
LEMMA SubmitReadHolds ==
  ASSUME TypeOK, RowsRecorded, NEW s \in Slot, \A t \in Slot : t = s, SubmitRead(s)
  PROVE  ReadsHold'
<1> PICK r \in [op : {"submit"}, event : Event, member : Member, fee : Nat, price : Nat] :
      r = request[s]
  BY RequestShape DEF SubmitRead
<1>1. r.event \in Event /\ r.member \in Member /\ r.fee \in Nat OBVIOUS
<1> PICK row \in Row : row = payment[r.event][r.member] BY <1>1 DEF TypeOK
<1> DEFINE written == [status |-> "submitted", amount |-> Owed(row, r.price, r.fee),
                       paidAmount |-> PaidCents(row, r.fee)]
           next == [op |-> "submit_write", event |-> r.event, member |-> r.member,
                    row |-> written]
<1>2. CASE request' = [request EXCEPT ![s] = Idle]
  <2>1. Idle.op = "idle" BY DEF Idle
  <2> QED BY <1>2, <2>1, NothingRead
<1>3. CASE request' = [request EXCEPT ![s] = next]
  <2>1. \A t \in Slot : request'[t] = next BY <1>3 DEF TypeOK
  <2>2. payment' = payment BY DEF SubmitRead
  <2>3. PaidCents(row, r.fee) = PaidCents(row, 0)
    BY <1>1 DEF RowsRecorded, Recorded, PaidCents
  <2> QED BY <2>1, <2>2, <2>3 DEF ReadsHold, At
<1>4. request' = [request EXCEPT ![s] = next] \/ request' = [request EXCEPT ![s] = Idle]
  BY DEF SubmitRead, Proceed, Finish
<1> QED BY <1>2, <1>3, <1>4

\* Reading for a verdict: the row, and what the verdict makes of it.
LEMMA ReviewReadHolds ==
  ASSUME TypeOK, RowsRecorded, NEW s \in Slot, \A t \in Slot : t = s, ReviewRead(s)
  PROVE  ReadsHold'
<1> PICK r \in [op : {"review"}, event : Event, member : Member, verdict : Verdict,
                fee : Nat, price : Nat] : r = request[s]
  BY RequestShape DEF ReviewRead
<1>1. r.event \in Event /\ r.member \in Member /\ r.fee \in Nat OBVIOUS
<1> PICK row \in Row : row = payment[r.event][r.member] BY <1>1 DEF TypeOK
<1> DEFINE paid == PaidAfter(row, r.verdict, r.price, r.fee)
           written == [status |-> r.verdict, amount |-> SubmissionCents(row, r.price, r.fee),
                       paidAmount |-> paid]
           next == [op |-> "review_write", event |-> r.event, member |-> r.member,
                    before |-> row, after |-> written,
                    delta |-> paid - PaidCents(row, r.fee), modified |-> TRUE]
<1>2. CASE request' = [request EXCEPT ![s] = Idle]
  <2>1. Idle.op = "idle" BY DEF Idle
  <2> QED BY <1>2, <2>1, NothingRead
<1>3. CASE request' = [request EXCEPT ![s] = next]
  <2>1. \A t \in Slot : request'[t] = next BY <1>3 DEF TypeOK
  <2>2. payment' = payment BY DEF ReviewRead
  <2>3. PaidCents(row, r.fee) = PaidCents(row, 0)
    BY <1>1 DEF RowsRecorded, Recorded, PaidCents
  <2>4. paid \in Nat BY VerdictMoney
  <2>5. paid # Null BY <2>4, FundsAssumption
  <2> HIDE DEF paid
  <2> QED BY <2>1, <2>2, <2>3, <2>5 DEF ReadsHold, At
<1>4. request' = [request EXCEPT ![s] = next] \/ request' = [request EXCEPT ![s] = Idle]
  BY DEF ReviewRead, Proceed, Finish
<1> QED BY <1>2, <1>3, <1>4

\* The payment requests keep the agreement.
LEMMA PaymentsFollow ==
  ASSUME \A s, t \in Slot : s = t, ~Retries, IInv, FollowInv, MoneyStep, Payments
  PROVE  FollowInv'
<1> TypeOK /\ RowsRecorded /\ ReadsHold /\ \A e \in Event : Follows(e) BY DEF IInv, FollowInv
<1>1. PICK s \in Slot :
        \/ \E e \in Event, m \in Member : SubmitLoad(s, e, m)
        \/ SubmitRead(s)
        \/ SubmitWrite(s)
        \/ \E u \in Staff, e \in Event, m \in Member, v \in Verdict : ReviewLoad(s, u, e, m, v)
        \/ ReviewRead(s)
        \/ ReviewAbort(s)
        \/ ReviewWrite(s)
  BY DEF Payments
<1>2. Idle.op = "idle" BY DEF Idle
<1>3. ASSUME payment' = payment, UNCHANGED moneyVars, ReadsHold'
      PROVE  FollowInv'
  <2>1. RowsRecorded' BY <1>3 DEF RowsRecorded
  <2>2. \A e \in Event : Follows(e)' BY <1>3, QuietFollows
  <2> QED BY <1>3, <2>1, <2>2 DEF FollowInv
<1>4. CASE \E e \in Event, m \in Member : SubmitLoad(s, e, m)
  <2>1. PICK e \in Event, m \in Member : SubmitLoad(s, e, m) BY <1>4
  <2> DEFINE next == [op |-> "submit", event |-> e, member |-> m,
                      fee |-> fee[e], price |-> PriceOf(e)]
  <2>2. request' = [request EXCEPT ![s] = next] /\ next.op = "submit"
    BY <2>1 DEF SubmitLoad, Begin
  <2>3. payment' = payment /\ UNCHANGED moneyVars BY <2>1 DEF SubmitLoad
  <2> QED BY <1>3, <2>2, <2>3, NothingRead
<1>5. CASE SubmitRead(s)
  <2>1. payment' = payment /\ UNCHANGED moneyVars BY <1>5 DEF SubmitRead
  <2> QED BY <1>3, <1>5, <2>1, SubmitReadHolds
<1>6. CASE SubmitWrite(s)
  <2>1. ReadsHold' BY <1>2, <1>6, NothingRead DEF SubmitWrite, Finish
  <2> QED BY <1>6, <2>1, SubmitFollows DEF FollowInv
<1>7. CASE \E u \in Staff, e \in Event, m \in Member, v \in Verdict : ReviewLoad(s, u, e, m, v)
  <2>1. PICK u \in Staff, e \in Event, m \in Member, v \in Verdict : ReviewLoad(s, u, e, m, v)
    BY <1>7
  <2> DEFINE next == [op |-> "review", event |-> e, member |-> m, verdict |-> v,
                      fee |-> fee[e], price |-> PriceOf(e)]
  <2>2. request' = [request EXCEPT ![s] = next] /\ next.op = "review"
    BY <2>1 DEF ReviewLoad, Begin
  <2>3. payment' = payment /\ UNCHANGED moneyVars BY <2>1 DEF ReviewLoad
  <2> QED BY <1>3, <2>2, <2>3, NothingRead
<1>8. CASE ReviewRead(s)
  <2>1. payment' = payment /\ UNCHANGED moneyVars BY <1>8 DEF ReviewRead
  <2> QED BY <1>3, <1>8, <2>1, ReviewReadHolds
<1>9. CASE ReviewAbort(s) BY <1>9 DEF ReviewAbort
<1>10. CASE ReviewWrite(s)
  <2>1. ReadsHold' BY <1>2, <1>10, NothingRead DEF ReviewWrite, Finish
  <2> QED BY <1>10, <2>1, ReviewFollows DEF FollowInv
<1> QED BY <1>1, <1>4, <1>5, <1>6, <1>7, <1>8, <1>9, <1>10

\* Settling and reopening keep the agreement.
LEMMA SettlementFollows ==
  ASSUME \A s, t \in Slot : s = t, IInv, FollowInv, MoneyStep, Settlement
  PROVE  FollowInv'
<1> TypeOK /\ RowsRecorded /\ ReadsHold /\ \A e \in Event : Follows(e) BY DEF IInv, FollowInv
<1>1. payment' = payment
  BY DEF Settlement, SettleLoad, SettleWrite, SettleRefused, Reopen
<1>2. RowsRecorded' BY <1>1 DEF RowsRecorded
<1>3. Idle.op = "idle" BY DEF Idle
<1>4. CASE \E s \in Slot, u \in Staff, e \in Event, allow \in BOOLEAN : SettleLoad(s, u, e, allow)
  <2>1. PICK s \in Slot, u \in Staff, e \in Event, allow \in BOOLEAN : SettleLoad(s, u, e, allow)
    BY <1>4
  <2> DEFINE next == [op |-> "settle", event |-> e, allow |-> allow,
                      fee |-> fee[e], price |-> PriceOf(e), ended |-> ended[e]]
  <2>2. request' = [request EXCEPT ![s] = next] /\ next.op = "settle"
    BY <2>1 DEF SettleLoad, Begin
  <2>3. ReadsHold' BY <2>2, NothingRead
  <2>4. UNCHANGED moneyVars BY <2>1 DEF SettleLoad
  <2>5. \A e1 \in Event : Follows(e1)' BY <1>1, <2>4, QuietFollows
  <2> QED BY <1>2, <2>3, <2>5 DEF FollowInv
<1>5. CASE \E s \in Slot : SettleWrite(s)
  <2>1. PICK s \in Slot : SettleWrite(s) BY <1>5
  <2>2. ReadsHold' BY <1>3, <2>1, NothingRead DEF SettleWrite, Finish
  <2>3. \A e \in Event : Follows(e)' BY <2>1, SettleFollows
  <2> QED BY <1>2, <2>2, <2>3 DEF FollowInv
<1>6. CASE \E s \in Slot : SettleRefused(s)
  <2>1. PICK s \in Slot : SettleRefused(s) BY <1>6
  <2>2. ReadsHold' BY <1>3, <2>1, NothingRead DEF SettleRefused, Finish
  <2>3. UNCHANGED moneyVars BY <2>1 DEF SettleRefused
  <2>4. \A e \in Event : Follows(e)' BY <1>1, <2>3, QuietFollows
  <2> QED BY <1>2, <2>2, <2>4 DEF FollowInv
<1>7. CASE \E u \in Staff, e \in Event : Reopen(u, e)
  <2>1. PICK u \in Staff, e \in Event : Reopen(u, e) BY <1>7
  <2>2. ReadsHold' BY <1>1, <2>1, ReadsKept DEF Reopen
  <2>3. \A f \in Event : Follows(f)' BY <2>1, ReopenFollows
  <2> QED BY <1>2, <2>2, <2>3 DEF FollowInv
<1> QED BY <1>4, <1>5, <1>6, <1>7 DEF Settlement

\* Every step keeps the agreement.
LEMMA FollowStep ==
  ASSUME \A s, t \in Slot : s = t, ~Retries, IInv, FollowInv, [Next]_vars
  PROVE  FollowInv'
<1>1. TypeOK /\ SettledOnce BY DEF IInv
<1>2. MoneyStep BY <1>1, MoneyStepHolds
<1>3. ASSUME UNCHANGED <<payment, moneyVars, request>> PROVE FollowInv'
  <2>1. RowsRecorded' BY <1>3 DEF RowsRecorded, FollowInv
  <2>2. \A e \in Event : Follows(e)' BY <1>1, <1>2, <1>3, QuietFollows DEF FollowInv
  <2>3. ReadsHold' BY <1>3, ReadsKept DEF FollowInv
  <2> QED BY <2>1, <2>2, <2>3 DEF FollowInv
<1>4. CASE UNCHANGED vars BY <1>3, <1>4 DEF vars
<1>5. CASE Environment
  BY <1>3, <1>5 DEF Environment, UpdateEvent, ToggleEnded, MoveRoster
<1>6. CASE Expenses
  BY <1>3, <1>6 DEF Expenses, CreateExpense, UpdateExpense, DeleteExpense, UpdateFee
<1> QED BY <1>2, <1>4, <1>5, <1>6, PaymentsFollow, SettlementFollows DEF Next

\* The agreement holds initially, where no row is older than paidAmount.
LEMMA FollowInit == LegacyRow = {} /\ Init => FollowInv
<1> SUFFICES ASSUME LegacyRow = {}, Init PROVE FollowInv OBVIOUS
<1>1. RowsRecorded BY DEF Init, RowsRecorded, Recorded, NoRow
<1>2. ReadsHold
  <2>1. \A s \in Slot : request[s] = Idle BY DEF Init
  <2>2. Idle.op = "idle" BY DEF Idle
  <2> QED BY <2>1, <2>2 DEF ReadsHold, At
<1>3. \A e \in Event : ~Settled(e) BY DEF Init, Settled, NoSettlement
<1> QED BY <1>1, <1>2, <1>3 DEF FollowInv, Follows

\* The agreement is the one that is wanted, at the fee the event has now.
LEMMA FollowMeans ==
  ASSUME TypeOK, FollowInv
  PROVE  LedgerMatchesPayments /\ SnapshotCurrent
<1>1. ASSUME NEW e \in Event
      PROVE  Collected(payment[e], fee[e]) = Collected(payment[e], 0)
  <2>1. payment[e] \in [Member -> Row] /\ fee[e] \in Nat BY PriceType DEF TypeOK
  <2>2. \A m \in Member : Recorded(payment[e][m]) BY DEF FollowInv, RowsRecorded
  <2> QED BY <2>1, <2>2, FeeBlind
<1> QED BY <1>1 DEF FollowInv, Follows, LedgerMatchesPayments, SnapshotCurrent

\* One request at a time, no transaction retried and no row from before amounts
\* were kept: then what a settled event has in the ledger is what its members
\* paid minus what it cost, and its snapshot says so, through changes of the fee,
\* late payments, verdicts taken back, reopening and settling again (reviewPayment:
\* "so the ledger never disagrees with the payment").
THEOREM LedgerFollowsThePayments ==
  ASSUME \A s, t \in Slot : s = t, ~Retries, LegacyRow = {}
  PROVE  Spec => []LedgerMatchesPayments /\ []SnapshotCurrent
<1>1. Init => FollowInv BY FollowInit
<1>2. IInv /\ FollowInv /\ [Next]_vars => FollowInv' BY FollowStep
<1>3. IInv /\ FollowInv => LedgerMatchesPayments /\ SnapshotCurrent BY FollowMeans DEF IInv
<1> QED BY <1>1, <1>2, <1>3, Invariant, PTL DEF Spec

-----------------------------------------------------------------------------
(* A list read page by page: the order of its rows *)

\* Rows and keys are numbered, limits may be missing, and a page has a row.
FeedBounds ==
  /\ IsFiniteSet(Doc) /\ Doc \subseteq Nat /\ Key \subseteq Nat
  /\ Limit \subseteq Nat \cup {Null} /\ DefaultPage \in Nat \ {0} /\ MaxPage \in Nat \ {0}
  /\ Null \notin [key : Key, id : Doc]
  /\ \A s : Null \notin [key : Key, state : {s}]

\* What f says of its order, and what t says of a row it has.
Ordered(f) == f.dated \in BOOLEAN
Keyed(t, r) == r \in Doc /\ t[r] = [key |-> t[r].key, state |-> t[r].state] /\ t[r].key \in Key

LEMMA Strict ==
  ASSUME NEW o, NEW x \in Nat, NEW y \in Nat, NEW z \in Nat
  PROVE  /\ ~F!Beyond(o, x, x)
         /\ F!Beyond(o, x, y) => ~F!Beyond(o, y, x)
         /\ x # y => F!Beyond(o, x, y) \/ F!Beyond(o, y, x)
         /\ F!Beyond(o, x, y) /\ F!Beyond(o, y, z) => F!Beyond(o, x, z)
BY DEF F!Beyond

\* The rows of a list are in a strict total order.
LEMMA TotalOrder ==
  ASSUME FeedBounds, NEW f, Ordered(f), NEW t, NEW x, NEW y, NEW z,
         Keyed(t, x), Keyed(t, y), Keyed(t, z)
  PROVE  /\ ~F!Precedes(f, t, x, x)
         /\ F!Precedes(f, t, x, y) => ~F!Precedes(f, t, y, x)
         /\ x # y => F!Precedes(f, t, x, y) \/ F!Precedes(f, t, y, x)
         /\ F!Precedes(f, t, x, y) /\ F!Precedes(f, t, y, z) => F!Precedes(f, t, x, z)
<1>1. /\ x \in Nat /\ y \in Nat /\ z \in Nat
      /\ t[x].key \in Nat /\ t[y].key \in Nat /\ t[z].key \in Nat
  BY DEF FeedBounds, Keyed
<1>2. CASE f.dated = FALSE BY <1>1, <1>2, Strict DEF F!Precedes
<1>3. CASE f.dated = TRUE
  <2>1. \A a, b \in {x, y, z} : F!Precedes(f, t, a, b) <=>
          IF t[a].key # t[b].key THEN F!Beyond(f.order, t[a].key, t[b].key) ELSE F!Beyond(f.ties, a, b)
    BY <1>3 DEF F!Precedes
  <2>2. PICK p, q, r : p = t[x].key /\ q = t[y].key /\ r = t[z].key OBVIOUS
  <2>3. p \in Nat /\ q \in Nat /\ r \in Nat BY <1>1, <2>2
  <2>4. ~F!Precedes(f, t, x, x) BY <1>1, <2>1, Strict
  <2>5. /\ F!Precedes(f, t, x, y) <=> IF p # q THEN F!Beyond(f.order, p, q) ELSE F!Beyond(f.ties, x, y)
        /\ F!Precedes(f, t, y, x) <=> IF p # q THEN F!Beyond(f.order, q, p) ELSE F!Beyond(f.ties, y, x)
    BY <2>1, <2>2
  <2>6. /\ F!Beyond(f.order, p, q) => ~F!Beyond(f.order, q, p)
        /\ F!Beyond(f.ties, x, y) => ~F!Beyond(f.ties, y, x)
        /\ p # q => F!Beyond(f.order, p, q) \/ F!Beyond(f.order, q, p)
        /\ x # y => F!Beyond(f.ties, x, y) \/ F!Beyond(f.ties, y, x)
    BY <1>1, <2>3, Strict
  <2>7. F!Precedes(f, t, x, y) => ~F!Precedes(f, t, y, x) BY <2>5, <2>6
  <2>8. x # y => F!Precedes(f, t, x, y) \/ F!Precedes(f, t, y, x) BY <2>5, <2>6
  <2>9. ASSUME F!Precedes(f, t, x, y), F!Precedes(f, t, y, z) PROVE F!Precedes(f, t, x, z)
    <3>1. IF p # q THEN F!Beyond(f.order, p, q) ELSE F!Beyond(f.ties, x, y) BY <2>1, <2>2, <2>9
    <3>2. IF q # r THEN F!Beyond(f.order, q, r) ELSE F!Beyond(f.ties, y, z) BY <2>1, <2>2, <2>9
    <3>3. p # q /\ q # r => p # r /\ F!Beyond(f.order, p, r)
      <4> SUFFICES ASSUME p # q, q # r PROVE p # r /\ F!Beyond(f.order, p, r) OBVIOUS
      <4>1. F!Beyond(f.order, p, q) /\ F!Beyond(f.order, q, r) BY <3>1, <3>2
      <4>2. F!Beyond(f.order, p, r) BY <2>3, <4>1, Strict
      <4>3. ~F!Beyond(f.order, p, p) BY <2>3, Strict
      <4> QED BY <4>2, <4>3
    <3>4. p = q /\ q = r => F!Beyond(f.ties, x, z) BY <1>1, <3>1, <3>2, Strict
    <3>5. IF p # r THEN F!Beyond(f.order, p, r) ELSE F!Beyond(f.ties, x, z)
      BY <3>1, <3>2, <3>3, <3>4
    <3> QED BY <2>1, <2>2, <3>5
  <2> QED BY <2>4, <2>7, <2>8, <2>9
<1> QED BY <1>2, <1>3 DEF Ordered

\* What comes after a row's marker is what that row precedes.
LEMMA AfterMeans ==
  ASSUME FeedBounds, NEW f, Ordered(f), NEW t, NEW x, NEW y, Keyed(t, x), Keyed(t, y)
  PROVE  F!After(f, t, F!Mark(t, x), y) <=> F!Precedes(f, t, x, y)
<1>1. x \in Nat /\ y \in Nat /\ t[x].key \in Nat /\ t[y].key \in Nat
  BY DEF FeedBounds, Keyed
<1>2. F!Mark(t, x).key = t[x].key /\ F!Mark(t, x).id = x BY DEF F!Mark
<1>3. CASE f.dated = FALSE BY <1>1, <1>2, <1>3, Strict DEF F!Precedes, F!After
<1>4. CASE f.dated = TRUE BY <1>1, <1>2, <1>4, Strict DEF F!Precedes, F!After
<1> QED BY <1>3, <1>4 DEF Ordered

\* What comes after a later row comes after an earlier marker.
LEMMA AfterAll ==
  ASSUME FeedBounds, NEW f, Ordered(f), NEW t, NEW m, NEW x, NEW y, Keyed(t, x), Keyed(t, y),
         m.key \in Key, m.id \in Doc,
         F!After(f, t, m, x), F!After(f, t, F!Mark(t, x), y)
  PROVE  F!After(f, t, m, y)
<1>1. /\ x \in Nat /\ y \in Nat /\ t[x].key \in Nat /\ t[y].key \in Nat
      /\ m.key \in Nat /\ m.id \in Nat
  BY DEF FeedBounds, Keyed
<1>2. F!Mark(t, x).key = t[x].key /\ F!Mark(t, x).id = x BY DEF F!Mark
<1>3. PICK p, q, r, i : p = m.key /\ q = t[x].key /\ r = t[y].key /\ i = m.id OBVIOUS
<1>4. p \in Nat /\ q \in Nat /\ r \in Nat /\ i \in Nat BY <1>1, <1>3
<1>5. CASE f.dated = FALSE
  <2>1. F!Beyond(f.ties, i, x) /\ F!Beyond(f.ties, x, y) BY <1>2, <1>3, <1>5 DEF F!After
  <2>2. F!Beyond(f.ties, i, y) BY <1>1, <1>4, <2>1, Strict
  <2> QED BY <1>3, <1>5, <2>2 DEF F!After
<1>6. CASE f.dated = TRUE
  <2>1. F!Beyond(f.order, p, q) \/ (p = q /\ F!Beyond(f.ties, i, x)) BY <1>3, <1>6 DEF F!After
  <2>2. F!Beyond(f.order, q, r) \/ (q = r /\ F!Beyond(f.ties, x, y)) BY <1>2, <1>3, <1>6 DEF F!After
  <2>3. F!Beyond(f.order, p, q) /\ F!Beyond(f.order, q, r) => F!Beyond(f.order, p, r)
    BY <1>4, Strict
  <2>4. F!Beyond(f.ties, i, x) /\ F!Beyond(f.ties, x, y) => F!Beyond(f.ties, i, y)
    BY <1>1, <1>4, Strict
  <2>5. F!Beyond(f.order, p, r) \/ (p = r /\ F!Beyond(f.ties, i, y)) BY <2>1, <2>2, <2>3, <2>4
  <2> QED BY <1>3, <1>6, <2>5 DEF F!After
<1> QED BY <1>5, <1>6 DEF Ordered

-----------------------------------------------------------------------------
(* What a page gives: the first of the rows found, and the last of those *)

\* How many of the rows of S precede r.
Before(f, t, S, r) == {s \in S : F!Precedes(f, t, s, r)}

LEMMA FewerAhead ==
  ASSUME FeedBounds, NEW f, Ordered(f), NEW t, NEW S \in SUBSET Doc,
         \A r \in S : Keyed(t, r), NEW x \in S, NEW y \in S, F!Precedes(f, t, x, y)
  PROVE  /\ Cardinality(Before(f, t, S, x)) \in Nat /\ Cardinality(Before(f, t, S, y)) \in Nat
         /\ Cardinality(Before(f, t, S, x)) < Cardinality(Before(f, t, S, y))
<1> DEFINE X == Before(f, t, S, x)
           Y == Before(f, t, S, y)
<1>1. IsFiniteSet(S) BY FS_Subset DEF FeedBounds
<1>2. X \in SUBSET Y /\ x \in Y /\ x \notin X BY TotalOrder DEF Before
<1>3. Y \in SUBSET S BY DEF Before
<1> HIDE DEF X, Y
<1>4. IsFiniteSet(Y) BY <1>1, <1>3, FS_Subset
<1>5. /\ IsFiniteSet(X) /\ Cardinality(X) <= Cardinality(Y)
      /\ Cardinality(X) = Cardinality(Y) => X = Y
  BY <1>2, <1>4, FS_Subset
<1>6. Cardinality(X) \in Nat /\ Cardinality(Y) \in Nat BY <1>4, <1>5, FS_CardinalityType
<1>7. Cardinality(X) # Cardinality(Y) BY <1>2, <1>5
<1>8. Cardinality(X) < Cardinality(Y) BY <1>5, <1>6, <1>7
<1> QED BY <1>6, <1>8 DEF X, Y

\* Among rows there is a first one, and among a page's a last.
LEMMA FirstThere ==
  ASSUME FeedBounds, NEW f, Ordered(f), NEW t, NEW S \in SUBSET Doc,
         \A r \in S : Keyed(t, r), S # {}
  PROVE  \E x \in S : Before(f, t, S, x) = {}
<1>1. IsFiniteSet(S) BY FS_Subset DEF FeedBounds
<1> DEFINE N(r) == Cardinality(Before(f, t, S, r))
           T == {N(r) : r \in S}
<1>2. \A r \in S : N(r) \in Nat
  <2> TAKE r \in S
  <2>1. Before(f, t, S, r) \in SUBSET S BY DEF Before
  <2> QED BY <1>1, <2>1, FS_Subset, FS_CardinalityType
<1>3. T \in SUBSET Nat /\ T # {} BY <1>2
<1>4. PICK n \in T : \A k \in T : n <= k
  <2> HIDE DEF T
  <2> QED BY <1>3, LeastElement
<1>5. PICK x \in S : N(x) = n BY <1>4
<1>6. ASSUME NEW y \in Before(f, t, S, x) PROVE FALSE
  <2>1. y \in S /\ F!Precedes(f, t, y, x) BY <1>6 DEF Before
  <2>2. N(y) < N(x) /\ N(y) \in Nat /\ N(x) \in Nat BY <2>1, FewerAhead
  <2>3. n <= N(y) BY <1>4, <2>1
  <2> HIDE DEF N
  <2> QED BY <1>5, <2>2, <2>3
<1> QED BY <1>6

LEMMA LastThere ==
  ASSUME FeedBounds, NEW f, Ordered(f), NEW t, NEW S \in SUBSET Doc,
         \A r \in S : Keyed(t, r), S # {}
  PROVE  \E x \in S : \A s \in S \ {x} : F!Precedes(f, t, s, x)
<1>1. IsFiniteSet(S) /\ Cardinality(S) \in Nat BY FS_Subset, FS_CardinalityType DEF FeedBounds
<1> DEFINE N(r) == Cardinality(Before(f, t, S, r))
           G(r) == Cardinality(S) - N(r)
           T == {G(r) : r \in S}
<1>2. \A r \in S : N(r) \in Nat /\ G(r) \in Nat
  <2> TAKE r \in S
  <2>1. Before(f, t, S, r) \in SUBSET S BY DEF Before
  <2>2. N(r) \in Nat /\ N(r) <= Cardinality(S) BY <1>1, <2>1, FS_Subset, FS_CardinalityType
  <2> HIDE DEF N
  <2> QED BY <1>1, <2>2
<1>3. T \in SUBSET Nat /\ T # {} BY <1>2
<1>4. PICK n \in T : \A k \in T : n <= k
  <2> HIDE DEF T
  <2> QED BY <1>3, LeastElement
<1>5. PICK x \in S : G(x) = n BY <1>4
<1>6. ASSUME NEW y \in S \ {x} PROVE F!Precedes(f, t, y, x)
  <2>1. F!Precedes(f, t, y, x) \/ F!Precedes(f, t, x, y) BY TotalOrder
  <2>2. ASSUME F!Precedes(f, t, x, y) PROVE FALSE
    <3>1. N(x) < N(y) /\ N(y) \in Nat /\ N(x) \in Nat BY <2>2, FewerAhead
    <3>2. n <= G(y) BY <1>4
    <3>3. G(x) = Cardinality(S) - N(x) /\ G(y) = Cardinality(S) - N(y) OBVIOUS
    <3> HIDE DEF N, G
    <3> QED BY <1>1, <1>5, <3>1, <3>2, <3>3
  <2> QED BY <2>1, <2>2
<1> QED BY <1>5, <1>6

\* The page of n rows of what is found.
LEMMA PageGives ==
  ASSUME FeedBounds, NEW f, Ordered(f), NEW t, NEW S \in SUBSET Doc,
         \A r \in S : Keyed(t, r), NEW n \in Nat \ {0}
  PROVE  LET P == F!FirstOf(f, t, S, n)
             x == F!LastOf(f, t, P)
         IN  /\ P \subseteq S
             /\ ~(F!Cardinality(S) > n) => P = S
             /\ F!Cardinality(S) > n =>
                  /\ x \in P
                  /\ \A r \in P : ~F!After(f, t, F!Mark(t, x), r)
                  /\ \A r \in S \ P : F!After(f, t, F!Mark(t, x), r)
<1> DEFINE P == F!FirstOf(f, t, S, n)
           x == F!LastOf(f, t, P)
<1>0. \A A : F!Cardinality(A) = Cardinality(A) BY Zenon DEF F!Cardinality, Cardinality
<1>1. IsFiniteSet(S) /\ Cardinality(S) \in Nat BY FS_Subset, FS_CardinalityType DEF FeedBounds
<1>2. P = {r \in S : Cardinality(Before(f, t, S, r)) < n} BY <1>0 DEF F!FirstOf, Before
<1> HIDE DEF P
<1>3. P \in SUBSET Doc /\ P \subseteq S /\ \A r \in P : Keyed(t, r) BY <1>2
<1>4. ASSUME ~(Cardinality(S) > n) PROVE P = S
  <2>1. ASSUME NEW r \in S PROVE Cardinality(Before(f, t, S, r)) < n
    <3> DEFINE A == Before(f, t, S, r)
    <3>1. A \in SUBSET S /\ r \notin A BY TotalOrder DEF Before
    <3> HIDE DEF A
    <3>2. /\ IsFiniteSet(A) /\ Cardinality(A) <= Cardinality(S)
          /\ Cardinality(A) = Cardinality(S) => A = S
      BY <1>1, <3>1, FS_Subset
    <3>3. Cardinality(A) \in Nat BY <3>2, FS_CardinalityType
    <3>4. Cardinality(A) # Cardinality(S) BY <3>1, <3>2
    <3>5. Cardinality(A) < n BY <1>1, <1>4, <3>2, <3>3, <3>4
    <3> QED BY <3>5 DEF A
  <2> QED BY <1>2, <2>1
<1>5. ASSUME Cardinality(S) > n
      PROVE  /\ x \in P
             /\ \A r \in P : ~F!After(f, t, F!Mark(t, x), r)
             /\ \A r \in S \ P : F!After(f, t, F!Mark(t, x), r)
  <2>1. S # {} BY <1>1, <1>5, FS_EmptySet
  <2>2. PICK y \in S : Before(f, t, S, y) = {} BY <2>1, FirstThere
  <2>3. P # {}
    <3>1. Cardinality({}) = 0 BY FS_EmptySet
    <3>2. Cardinality(Before(f, t, S, y)) < n BY <2>2, <3>1
    <3> QED BY <1>2, <3>2
  <2>4. \E z \in P : \A s \in P \ {z} : F!Precedes(f, t, s, z) BY <1>3, <2>3, LastThere
  <2>5. x \in P /\ \A s \in P \ {x} : F!Precedes(f, t, s, x) BY <2>4 DEF F!LastOf
  <2> HIDE DEF x
  <2>6. x \in S /\ Keyed(t, x) BY <1>3, <2>5
  <2>7. ASSUME NEW r \in P PROVE ~F!After(f, t, F!Mark(t, x), r)
    <3>1. Keyed(t, r) BY <1>3
    <3>2. ~F!Precedes(f, t, x, r) BY <2>5, <2>6, <3>1, TotalOrder
    <3> QED BY <2>6, <3>1, <3>2, AfterMeans
  <2>8. ASSUME NEW r \in S \ P PROVE F!After(f, t, F!Mark(t, x), r)
    <3>1. Keyed(t, r) /\ r # x BY <2>5
    <3>2. ASSUME F!Precedes(f, t, r, x) PROVE FALSE
      <4>1. /\ Cardinality(Before(f, t, S, r)) \in Nat /\ Cardinality(Before(f, t, S, x)) \in Nat
            /\ Cardinality(Before(f, t, S, r)) < Cardinality(Before(f, t, S, x))
        BY <2>6, <3>2, FewerAhead
      <4>2. Cardinality(Before(f, t, S, x)) < n BY <1>2, <2>5
      <4>3. Cardinality(Before(f, t, S, r)) < n BY <4>1, <4>2
      <4> QED BY <1>2, <4>3
    <3>3. F!Precedes(f, t, x, r) BY <2>6, <3>1, <3>2, TotalOrder
    <3> QED BY <2>6, <3>1, <3>3, AfterMeans
  <2> QED BY <2>5, <2>7, <2>8
<1> QED BY <1>0, <1>3, <1>4, <1>5 DEF P

-----------------------------------------------------------------------------
(* A list read page by page: what the reading keeps to *)

FeedShapes ==
  /\ Ordered(feed)
  /\ list = [r \in Doc |-> list[r]] /\ got = [r \in Doc |-> got[r]]
  /\ \A r \in Doc : (list[r] = Null \/ Keyed(list, r)) /\ got[r] \in Nat
  /\ cursor = Null \/ (cursor.key \in Key /\ cursor.id \in Doc)
  /\ finished \in BOOLEAN /\ (finished => cursor = Null)

\* Steady rows are shown under one key, and rows that moved are there.
RowsKnown ==
  /\ steady \subseteq F!Shown(feed, list) \ rekeyed
  /\ rekeyed \subseteq F!Present(list)

\* A row that kept its key was given at most once, and then lies behind the marker;
\* a steady row was given or lies ahead of it.
GivenOrAhead ==
  /\ cursor = Null /\ ~finished => \A r \in Doc : got[r] = 0
  /\ \A r \in Doc \ rekeyed : got[r] # 0 =>
       /\ got[r] = 1 /\ list[r] # Null
       /\ cursor # Null => ~F!After(feed, list, cursor, r)
  /\ \A r \in steady : /\ finished => got[r] = 1
                       /\ cursor # Null => got[r] = 1 \/ F!After(feed, list, cursor, r)

FeedInv == FeedShapes /\ RowsKnown /\ GivenOrAhead

LEMMA ListsOrdered ==
  ASSUME NEW f \in F!Lists PROVE Ordered(f)
<1>1. \A o, s, p, m : F!ByDate(o, s, p, m).dated = TRUE BY DEF F!ByDate
<1>2. \A s, p : F!ById(s, p).dated = FALSE BY DEF F!ById
<1>3. F!ReceivedInvitations.dated = TRUE BY DEF F!ReceivedInvitations, F!ByDate
<1>4. F!GroupOutstanding.dated = TRUE BY DEF F!GroupOutstanding
<1>5. f \in F!Lists OBVIOUS
<1>6. /\ F!Notifications.dated = TRUE /\ F!ChatHistory.dated = TRUE /\ F!FundTransactions.dated = TRUE
      /\ F!GroupExpenses.dated = TRUE /\ F!FriendRequests.dated = TRUE /\ F!Friends.dated = TRUE
      /\ F!UpcomingWithFriend.dated = TRUE /\ F!PastWithFriend.dated = TRUE
      /\ F!PlayerAwards.dated = TRUE /\ F!GroupAwards.dated = TRUE /\ F!Ratings.dated = TRUE
      /\ F!EventSearch.dated = TRUE
  BY <1>1, Zenon DEF F!Notifications, F!ChatHistory, F!FundTransactions, F!GroupExpenses, F!FriendRequests,
     F!Friends, F!UpcomingWithFriend, F!PastWithFriend, F!PlayerAwards, F!GroupAwards, F!Ratings,
     F!EventSearch
<1>7. /\ F!EventPayments.dated = FALSE /\ F!UserSearch.dated = FALSE /\ F!GroupSearch.dated = FALSE
  BY <1>2, Zenon DEF F!EventPayments, F!UserSearch, F!GroupSearch
<1> QED BY <1>3, <1>4, <1>5, <1>6, <1>7 DEF F!Lists, Ordered

\* The rows t keep from before: none is lost, and only those in moved change their key.
Table(t) == t = [r \in Doc |-> t[r]] /\ \A r \in Doc : t[r] = Null \/ Keyed(t, r)
Keeps(t, moved) ==
  /\ \A r \in Doc : list[r] # Null => /\ t[r] # Null
                                      /\ r \notin moved => t[r].key = list[r].key
  /\ moved \subseteq F!Present(list)

\* A row is after the marker by its key alone.
LEMMA SameKey ==
  ASSUME NEW f, NEW t, NEW u, NEW m, NEW r, t[r].key = u[r].key
  PROVE  F!After(f, t, m, r) <=> F!After(f, u, m, r)
BY DEF F!After

LEMMA AnotherStep ==
  ASSUME FeedBounds, FeedInv, NEW t, NEW moved, Table(t), Keeps(t, moved), F!Another(t, moved)
  PROVE  FeedInv'
<1>1. /\ finished = FALSE /\ list' = t /\ steady' = (steady \cap F!Shown(feed, t)) \ moved
      /\ rekeyed' = rekeyed \cup moved
      /\ feed' = feed /\ cursor' = cursor /\ finished' = finished /\ got' = got
  BY DEF F!Another, FeedInv, FeedShapes
<1>2. FeedShapes' BY <1>1 DEF FeedInv, FeedShapes, Table, Ordered, Keyed
<1>3. RowsKnown'
  <2>1. F!Present(list) \subseteq F!Present(t) BY DEF F!Present, Keeps
  <2>2. (steady \cap F!Shown(feed, t)) \ moved \subseteq F!Shown(feed, t) \ (rekeyed \cup moved)
    BY DEF FeedInv, RowsKnown
  <2>3. rekeyed \cup moved \subseteq F!Present(t) BY <2>1 DEF FeedInv, RowsKnown, Keeps
  <2>4. F!Shown(feed, list)' = F!Shown(feed, t) /\ F!Present(list)' = F!Present(t)
    BY <1>1 DEF F!Shown, F!Present
  <2> QED BY <1>1, <2>2, <2>3, <2>4 DEF RowsKnown
<1>4. \A r \in Doc \ moved : list[r] # Null =>
        (F!After(feed, t, cursor, r) <=> F!After(feed, list, cursor, r))
  BY SameKey DEF Keeps
<1>5. \A r : F!After(feed, list, cursor, r)' <=> F!After(feed, t, cursor, r) BY <1>1 DEF F!After
<1>6. \A r \in Doc \ rekeyed' : got'[r] # 0 =>
        /\ got'[r] = 1 /\ list'[r] # Null
        /\ cursor' # Null => ~F!After(feed, list, cursor, r)'
  BY <1>1, <1>4, <1>5 DEF FeedInv, GivenOrAhead, Keeps
<1>7. \A r \in steady' : /\ finished' => got'[r] = 1
                         /\ cursor' # Null => got'[r] = 1 \/ F!After(feed, list, cursor, r)'
  <2> TAKE r \in steady'
  <2>1. r \in steady /\ r \notin moved BY <1>1
  <2>2. r \in Doc /\ list[r] # Null BY <2>1 DEF FeedInv, RowsKnown, F!Shown, F!Present
  <2> QED BY <1>1, <1>4, <1>5, <2>1, <2>2 DEF FeedInv, GivenOrAhead
<1>8. cursor' = Null /\ ~finished' => \A r \in Doc : got'[r] = 0
  BY <1>1 DEF FeedInv, GivenOrAhead
<1>9. GivenOrAhead' BY <1>6, <1>7, <1>8 DEF GivenOrAhead
<1> QED BY <1>2, <1>3, <1>9 DEF FeedInv

LEMMA OthersStep ==
  ASSUME FeedBounds, FeedInv, F!RowAppears \/ F!RowChanges \/ F!RowMoves
  PROVE  FeedInv'
<1>1. ASSUME NEW r \in Doc, NEW d, NEW moved, d = [key |-> d.key, state |-> d.state], d.key \in Key,
             list[r] # Null => (r \notin moved => d.key = list[r].key),
             moved \subseteq F!Present(list),
             F!Another([list EXCEPT ![r] = d], moved)
      PROVE  FeedInv'
  <2> DEFINE t == [list EXCEPT ![r] = d]
  <2>1. t = [x \in Doc |-> IF x = r THEN d ELSE list[x]] BY DEF FeedInv, FeedShapes
  <2> HIDE DEF t
  <2>2. d # Null
    <3>1. d \in [key : Key, state : {d.state}] BY <1>1
    <3> QED BY <3>1 DEF FeedBounds
  <2>3. \A x \in Doc : t[x] = Null \/ Keyed(t, x) BY <1>1, <2>1 DEF FeedInv, FeedShapes, Keyed
  <2>4. \A x \in Doc : list[x] # Null => /\ t[x] # Null
                                         /\ x \notin moved => t[x].key = list[x].key
    BY <1>1, <2>1, <2>2
  <2>5. t = [x \in Doc |-> t[x]] BY <2>1
  <2>6. Table(t) /\ Keeps(t, moved) BY <1>1, <2>3, <2>4, <2>5 DEF Table, Keeps
  <2>7. F!Another(t, moved) BY <1>1 DEF t
  <2> QED BY <2>6, <2>7, AnotherStep
<1>2. CASE F!RowAppears
  <2>1. PICK r \in Doc, k \in Key, s \in F!StatesOf(feed) :
          list[r] = Null /\ F!Another([list EXCEPT ![r] = [key |-> k, state |-> s]], {})
    BY <1>2 DEF F!RowAppears
  <2>2. PICK d : d = [key |-> k, state |-> s] OBVIOUS
  <2>3. d = [key |-> d.key, state |-> d.state] /\ d.key \in Key BY <2>2
  <2>4. F!Another([list EXCEPT ![r] = d], {}) BY <2>1, <2>2
  <2> QED BY <1>1, <2>1, <2>3, <2>4
<1>3. CASE F!RowChanges
  <2>1. PICK r \in F!Present(list), s \in feed.steps :
          F!Another([list EXCEPT ![r].state = s[2]], {})
    BY <1>3 DEF F!RowChanges
  <2>2. r \in Doc /\ Keyed(list, r) /\ list[r] # Null
    BY DEF F!Present, FeedInv, FeedShapes
  <2>3. PICK d : d = [key |-> list[r].key, state |-> s[2]] OBVIOUS
  <2>4. d = [key |-> d.key, state |-> d.state] /\ d.key = list[r].key /\ d.key \in Key
    BY <2>2, <2>3 DEF Keyed
  <2>5. [list EXCEPT ![r].state = s[2]] = [list EXCEPT ![r] = d]
    <3> DEFINE m == list[r]
               new == s[2]
    <3>1. [list EXCEPT ![r].state = new] = [list EXCEPT ![r] = [m EXCEPT !.state = new]] OBVIOUS
    <3>2. m = [key |-> m.key, state |-> m.state] /\ d = [key |-> m.key, state |-> new]
      BY <2>2, <2>3 DEF Keyed
    <3> HIDE DEF m, new
    <3>3. [m EXCEPT !.state = new] = d BY <3>2
    <3> QED BY <3>1, <3>3 DEF new
  <2>6. F!Another([list EXCEPT ![r] = d], {}) BY <2>1, <2>5
  <2> QED BY <1>1, <2>2, <2>4, <2>6
<1>4. CASE F!RowMoves
  <2>1. PICK r \in F!Present(list), k \in Key : F!Another([list EXCEPT ![r].key = k], {r})
    BY <1>4 DEF F!RowMoves
  <2>2. r \in Doc /\ Keyed(list, r) /\ {r} \subseteq F!Present(list)
    BY DEF F!Present, FeedInv, FeedShapes
  <2>3. PICK d : d = [key |-> k, state |-> list[r].state] OBVIOUS
  <2>4. d = [key |-> d.key, state |-> d.state] /\ d.key \in Key BY <2>3
  <2>5. [list EXCEPT ![r].key = k] = [list EXCEPT ![r] = d]
    <3> DEFINE m == list[r]
    <3>1. [list EXCEPT ![r].key = k] = [list EXCEPT ![r] = [m EXCEPT !.key = k]] OBVIOUS
    <3>2. m = [key |-> m.key, state |-> m.state] /\ d = [key |-> k, state |-> m.state]
      BY <2>2, <2>3 DEF Keyed
    <3> HIDE DEF m
    <3>3. [m EXCEPT !.key = k] = d BY <3>2
    <3> QED BY <3>1, <3>3
  <2>6. F!Another([list EXCEPT ![r] = d], {r}) BY <2>1, <2>5
  <2>7. r \notin {r} => d.key = list[r].key OBVIOUS
  <2> QED BY <1>1, <2>2, <2>4, <2>6, <2>7
<1> QED BY <1>2, <1>3, <1>4

\* What lapses before a page is read keeps its key.
LEMMA LapseKeeps ==
  ASSUME FeedBounds, FeedInv
  PROVE  LET t == F!Lapse(feed, list) IN Table(t) /\ Keeps(t, {})
<1> DEFINE t == F!Lapse(feed, list)
<1>1. ASSUME NEW r \in Doc
      PROVE  \/ t[r] = list[r]
             \/ \E s : Keyed(list, r) /\ t[r] = [key |-> list[r].key, state |-> s]
  <2> DEFINE m == list[r]
             s == (CHOOSE x \in feed.lapses : x[1] = list[r].state)[2]
  <2>1. t[r] = list[r] \/ (list[r] # Null /\ t[r] = [m EXCEPT !.state = s]) BY DEF F!Lapse
  <2>2. list[r] # Null => Keyed(list, r) /\ m = [key |-> m.key, state |-> m.state]
    BY DEF FeedInv, FeedShapes, Keyed
  <2> HIDE DEF m, s, t
  <2>3. list[r] # Null => [m EXCEPT !.state = s] = [key |-> m.key, state |-> s] BY <2>2
  <2>4. t[r] = list[r] \/ (Keyed(list, r) /\ t[r] = [key |-> m.key, state |-> s])
    BY <2>1, <2>2, <2>3
  <2> QED BY <2>4 DEF m
<1>2. t = [r \in Doc |-> t[r]] BY DEF F!Lapse
<1> HIDE DEF t
<1>3. ASSUME NEW r \in Doc
      PROVE  /\ t[r] = Null \/ Keyed(t, r)
             /\ list[r] # Null => t[r] # Null /\ t[r].key = list[r].key
  <2>1. CASE t[r] = list[r] BY <2>1 DEF FeedInv, FeedShapes, Keyed
  <2>2. CASE \E s : Keyed(list, r) /\ t[r] = [key |-> list[r].key, state |-> s]
    <3>1. PICK s : Keyed(list, r) /\ t[r] = [key |-> list[r].key, state |-> s] BY <2>2
    <3>2. PICK k : k = list[r].key OBVIOUS
    <3>3. k \in Key /\ t[r] = [key |-> k, state |-> s] BY <3>1, <3>2 DEF Keyed
    <3>4. t[r] \in [key : Key, state : {s}] BY <3>3
    <3>5. t[r] # Null BY <3>4 DEF FeedBounds
    <3>6. t[r].key = k /\ t[r].state = s BY <3>3
    <3> QED BY <3>2, <3>3, <3>5, <3>6 DEF Keyed
  <2> QED BY <1>1, <2>1, <2>2
<1>4. Table(t) BY <1>2, <1>3 DEF Table
<1>5. Keeps(t, {}) BY <1>3 DEF Keeps
<1> QED BY <1>4, <1>5 DEF t

LEMMA Clamped ==
  ASSUME FeedBounds, NEW limit \in Limit
  PROVE  F!Clamp(limit) \in Nat \ {0}
BY DEF FeedBounds, F!Clamp

LEMMA ReadPageStep ==
  ASSUME FeedBounds, FeedInv, F!ReadPage
  PROVE  FeedInv'
<1>1. PICK limit \in Limit :
        LET now   == F!Lapse(feed, list)
            found == F!Matching(feed, now, cursor)
            items == F!FirstOf(feed, now, found, F!Clamp(limit))
            more  == F!Cardinality(found) > F!Clamp(limit)
        IN /\ ~finished
           /\ list' = now
           /\ got' = [r \in Doc |-> got[r] + IF r \in items THEN 1 ELSE 0]
           /\ cursor' = IF more THEN F!Mark(now, F!LastOf(feed, now, items)) ELSE Null
           /\ finished' = ~more
           /\ steady' = steady \cap F!Shown(feed, now)
           /\ UNCHANGED <<feed, rekeyed, changes>>
  BY DEF F!ReadPage
<1> DEFINE now == F!Lapse(feed, list)
           found == F!Matching(feed, now, cursor)
           n == F!Clamp(limit)
           items == F!FirstOf(feed, now, found, n)
           more == F!Cardinality(found) > n
           last == F!LastOf(feed, now, items)
           mark == F!Mark(now, last)
<1>2. n \in Nat \ {0} BY Clamped
<1>3. Table(now) /\ Keeps(now, {}) BY LapseKeeps
<1>4. /\ finished = FALSE /\ list' = now /\ finished' = ~more
      /\ got' = [r \in Doc |-> got[r] + IF r \in items THEN 1 ELSE 0]
      /\ more => cursor' = mark
      /\ ~more => cursor' = Null
      /\ steady' = steady \cap F!Shown(feed, now)
      /\ feed' = feed /\ rekeyed' = rekeyed
  BY <1>1 DEF FeedInv, FeedShapes
<1> HIDE DEF now, n
<1>5. /\ found \in SUBSET Doc /\ \A r \in found : Keyed(now, r)
      /\ \A r \in Doc : r \in found <=>
           r \in F!Shown(feed, now) /\ (cursor = Null \/ F!After(feed, now, cursor, r))
  BY <1>3 DEF F!Matching, F!Shown, F!Present, Table
<1>6. Ordered(feed) BY DEF FeedInv, FeedShapes
<1> HIDE DEF found
<1>7. /\ items \subseteq found
      /\ ~more => items = found
      /\ more => /\ last \in items
                 /\ \A r \in items : ~F!After(feed, now, mark, r)
                 /\ \A r \in found \ items : F!After(feed, now, mark, r)
  BY <1>2, <1>5, <1>6, PageGives
<1> HIDE DEF items, last
<1>8. more => mark # Null /\ mark.key \in Key /\ mark.id \in Doc
  <2> SUFFICES ASSUME more PROVE mark # Null /\ mark.key \in Key /\ mark.id \in Doc OBVIOUS
  <2>1. last \in Doc /\ Keyed(now, last) BY <1>5, <1>7
  <2>2. mark = [key |-> now[last].key, id |-> last] BY DEF F!Mark
  <2>3. mark \in [key : Key, id : Doc] BY <2>1, <2>2 DEF Keyed
  <2> QED BY <2>3 DEF FeedBounds
<1>9. \A r \in Doc : list[r] # Null => (F!After(feed, now, cursor, r) <=> F!After(feed, list, cursor, r))
  BY <1>3, SameKey DEF Keeps
<1>10. ASSUME more, cursor # Null, NEW r \in Doc, now[r] # Null, ~F!After(feed, now, cursor, r)
       PROVE  ~F!After(feed, now, mark, r)
  <2>1. cursor.key \in Key /\ cursor.id \in Doc BY <1>10 DEF FeedInv, FeedShapes
  <2>2. last \in found /\ Keyed(now, last) /\ F!After(feed, now, cursor, last)
    BY <1>5, <1>7, <1>10
  <2>3. Keyed(now, r) BY <1>3, <1>10 DEF Table
  <2> QED BY <1>6, <1>10, <2>1, <2>2, <2>3, AfterAll
<1> HIDE DEF more, mark
<1>11. more \in BOOLEAN BY DEF more
<1>12. \A r : F!After(feed, list, cursor, r)' <=> F!After(feed, now, cursor', r) BY <1>4 DEF F!After
<1>13. FeedShapes'
  <2>1. \A r \in Doc : (now[r] = Null \/ Keyed(now, r)) /\ got'[r] \in Nat
    <3> TAKE r \in Doc
    <3>1. now[r] = Null \/ Keyed(now, r) BY <1>3 DEF Table
    <3>2. got[r] \in Nat BY DEF FeedInv, FeedShapes
    <3>3. got'[r] = got[r] + IF r \in items THEN 1 ELSE 0 BY <1>4
    <3>4. got'[r] \in Nat BY ONLY <3>2, <3>3
    <3> QED BY <3>1, <3>4
  <2>2. \A r \in Doc : Keyed(now, r) => Keyed(list, r)' BY <1>4 DEF Keyed
  <2>3. now = [r \in Doc |-> now[r]] BY <1>3 DEF Table
  <2>4. Ordered(feed)' BY <1>4, <1>6 DEF Ordered
  <2>5. got' = [r \in Doc |-> got'[r]] BY <1>4
  <2>6. cursor' = Null \/ (cursor'.key \in Key /\ cursor'.id \in Doc) BY <1>4, <1>8
  <2>7. finished' \in BOOLEAN /\ (finished' => cursor' = Null) BY <1>4, <1>11
  <2> QED BY <1>4, <2>1, <2>2, <2>3, <2>4, <2>5, <2>6, <2>7 DEF FeedShapes
<1>14. RowsKnown'
  <2>1. F!Present(list) \subseteq F!Present(now) BY <1>3 DEF F!Present, Keeps
  <2>2. steady \cap F!Shown(feed, now) \subseteq F!Shown(feed, now) \ rekeyed
    BY DEF FeedInv, RowsKnown
  <2>3. rekeyed \subseteq F!Present(now) BY <2>1 DEF FeedInv, RowsKnown
  <2>4. F!Shown(feed, list)' = F!Shown(feed, now) /\ F!Present(list)' = F!Present(now)
    BY <1>4 DEF F!Shown, F!Present
  <2> QED BY <1>4, <2>2, <2>3, <2>4 DEF RowsKnown
<1>15. ASSUME NEW r \in Doc
       PROVE  got'[r] = IF r \in items THEN got[r] + 1 ELSE got[r]
  BY <1>4 DEF FeedInv, FeedShapes
\* Not given yet, or given once and behind the marker.
<1>16. ASSUME NEW r \in Doc \ rekeyed
       PROVE  \/ got[r] = 0
              \/ /\ got[r] = 1 /\ r \notin found /\ cursor # Null /\ now[r] # Null
                 /\ ~F!After(feed, now, cursor, r)
  <2> SUFFICES ASSUME got[r] # 0
               PROVE  /\ got[r] = 1 /\ r \notin found /\ cursor # Null /\ now[r] # Null
                      /\ ~F!After(feed, now, cursor, r)
    OBVIOUS
  <2>1. got[r] = 1 /\ list[r] # Null /\ cursor # Null /\ ~F!After(feed, list, cursor, r)
    BY <1>4 DEF FeedInv, GivenOrAhead
  <2>2. ~F!After(feed, now, cursor, r) /\ now[r] # Null BY <1>3, <1>9, <2>1 DEF Keeps
  <2> QED BY <1>5, <2>1, <2>2
<1>17. ASSUME NEW r \in Doc \ rekeyed, got'[r] # 0
       PROVE  /\ got'[r] = 1 /\ now[r] # Null
              /\ more => ~F!After(feed, now, mark, r)
  <2>1. CASE r \in items
    <3>1. r \in found /\ Keyed(now, r) BY <1>5, <1>7, <2>1
    <3>2. r \in F!Shown(feed, now) BY <1>5, <3>1
    <3> QED BY <1>7, <1>15, <1>16, <2>1, <3>1, <3>2 DEF F!Shown, F!Present
  <2>2. CASE r \notin items
    <3>1. /\ got[r] = 1 /\ cursor # Null /\ now[r] # Null
          /\ ~F!After(feed, now, cursor, r)
      BY <1>15, <1>16, <1>17, <2>2
    <3> QED BY <1>10, <1>15, <2>2, <3>1
  <2> QED BY <2>1, <2>2
<1>18. ASSUME NEW r \in steady'
       PROVE  /\ ~more => got'[r] = 1
              /\ more => got'[r] = 1 \/ F!After(feed, now, mark, r)
  <2>1. r \in steady /\ r \in F!Shown(feed, now) BY <1>4
  <2>2. r \in Doc \ rekeyed /\ list[r] # Null
    BY <2>1 DEF FeedInv, RowsKnown, F!Shown, F!Present
  <2>3. CASE got[r] = 1
    <3>1. r \notin items BY <1>7, <1>16, <2>2, <2>3
    <3> QED BY <1>15, <2>2, <2>3, <3>1
  <2>4. CASE got[r] = 0
    <3>1. r \in found
      <4>1. cursor # Null => F!After(feed, now, cursor, r)
        BY <1>9, <2>1, <2>2, <2>4 DEF FeedInv, GivenOrAhead
      <4> QED BY <1>5, <2>1, <2>2, <4>1
    <3> QED BY <1>7, <1>15, <2>2, <2>4, <3>1
  <2> QED BY <1>16, <2>2, <2>3, <2>4
<1>19. GivenOrAhead'
  <2>1. cursor' = Null /\ ~finished' => FALSE BY <1>4, <1>8, <1>11
  <2>2. \A r \in Doc \ rekeyed' : got'[r] # 0 =>
          /\ got'[r] = 1 /\ list'[r] # Null
          /\ cursor' # Null => ~F!After(feed, list, cursor, r)'
    BY <1>4, <1>12, <1>17
  <2>3. ASSUME NEW r \in steady'
        PROVE  /\ finished' => got'[r] = 1
               /\ cursor' # Null => got'[r] = 1 \/ F!After(feed, list, cursor, r)'
    BY <1>4, <1>12, <1>18
  <2> QED BY <2>1, <2>2, <2>3 DEF GivenOrAhead
<1> QED BY <1>13, <1>14, <1>19 DEF FeedInv

LEMMA FeedInit ==
  ASSUME FeedBounds, F!Init PROVE FeedInv
<1>1. /\ feed \in F!Lists /\ steady = F!Shown(feed, list) /\ got = [r \in Doc |-> 0]
      /\ list \in [Doc -> {Null} \cup [key : Key, state : F!StatesOf(feed)]]
      /\ cursor = Null /\ finished = FALSE /\ rekeyed = {}
  BY DEF F!Init
<1>2. Ordered(feed) BY <1>1, ListsOrdered
<1>3. list = [r \in Doc |-> list[r]] /\ got = [r \in Doc |-> got[r]] /\ \A r \in Doc : got[r] = 0
  BY <1>1
<1>4. \A r \in Doc : list[r] = Null \/ Keyed(list, r) BY <1>1 DEF Keyed
<1>5. FeedShapes BY <1>1, <1>2, <1>3, <1>4 DEF FeedShapes
<1>6. RowsKnown BY <1>1 DEF RowsKnown
<1>7. steady \subseteq Doc BY <1>1 DEF F!Shown, F!Present
<1>8. GivenOrAhead BY <1>1, <1>3, <1>7 DEF GivenOrAhead
<1> QED BY <1>5, <1>6, <1>8 DEF FeedInv

\* A client that reads any of the lists page by page, with whatever limits, is given
\* every row that stays in it under one key exactly once, and no row twice whose key
\* did not change; for any rows and keys, and any number of changes in between
\* ("stable under concurrent writes", common/pagination/cursor.ts).
THEOREM FeedStaysSound ==
  ASSUME FeedBounds
  PROVE  F!Spec => []F!FeedSound
<1>1. F!Init => FeedInv BY FeedInit
<1>2. FeedInv /\ [F!Next]_(F!vars) => FeedInv'
  <2>1. ASSUME FeedInv, F!Next PROVE FeedInv' BY <2>1, ReadPageStep, OthersStep DEF F!Next
  <2>2. ASSUME FeedInv, UNCHANGED F!vars PROVE FeedInv'
    <3>1. /\ feed' = feed /\ list' = list /\ cursor' = cursor /\ finished' = finished
          /\ got' = got /\ steady' = steady /\ rekeyed' = rekeyed
      BY <2>2 DEF F!vars
    <3>2. FeedShapes' BY <2>2, <3>1 DEF FeedInv, FeedShapes, Ordered, Keyed
    <3>3. RowsKnown' BY <2>2, <3>1 DEF FeedInv, RowsKnown, F!Shown, F!Present
    <3>4. GivenOrAhead' BY <2>2, <3>1 DEF FeedInv, GivenOrAhead, F!After
    <3> QED BY <3>2, <3>3, <3>4 DEF FeedInv
  <2> QED BY <2>1, <2>2
<1>3. FeedInv => F!FeedSound
  <2> SUFFICES ASSUME FeedInv PROVE F!FeedSound OBVIOUS
  <2>1. \A r \in steady : r \in Doc \ rekeyed /\ r \in F!Shown(feed, list)
    BY DEF FeedInv, RowsKnown, F!Shown, F!Present
  <2>2. F!NothingSkipped BY DEF F!NothingSkipped, FeedInv, GivenOrAhead
  <2>3. F!NothingRepeated
    <3>1. ASSUME NEW r \in Doc \ rekeyed PROVE got[r] <= 1
      <4>1. got[r] = 0 \/ got[r] = 1 BY DEF FeedInv, GivenOrAhead
      <4> QED BY <4>1
    <3> QED BY <3>1 DEF F!NothingRepeated
  <2>4. F!RestIsAhead
    <3>1. ASSUME cursor # Null, NEW r \in steady
          PROVE  got[r] = 1 <=> r \notin F!Matching(feed, list, cursor)
      <4>1. r \in F!Matching(feed, list, cursor) <=> F!After(feed, list, cursor, r)
        BY <2>1, <3>1 DEF F!Matching
      <4>2. got[r] = 1 => ~F!After(feed, list, cursor, r)
        BY <2>1, <3>1 DEF FeedInv, GivenOrAhead
      <4>3. got[r] = 1 \/ F!After(feed, list, cursor, r) BY <3>1 DEF FeedInv, GivenOrAhead
      <4> QED BY <4>1, <4>2, <4>3
    <3> QED BY <3>1 DEF F!RestIsAhead
  <2> QED BY <2>2, <2>3, <2>4 DEF F!FeedSound
<1> QED BY <1>1, <1>2, <1>3, PTL DEF F!Spec

\* A list is read soundly (FeedStaysSound) in every behaviour of Funds that is about
\* lists: such a behaviour is one of Feed, the fund being at rest.
THEOREM FeedHolds ==
  ASSUME FeedBounds
  PROVE  FundsSpec => []FeedSound
<1> DEFINE Here == area = "lists"
<1>1. FundsInit /\ Here => F!Init BY DEF FundsInit
<1>2. [FundsNext]_fundsVars => (Here <=> Here') BY DEF FundsNext, fundsVars
<1>3. Here /\ [FundsNext]_fundsVars => [F!Next]_(F!vars)
  BY DEF FundsNext, fundsVars, feedVars, F!vars
<1>4. (Here => F!FeedSound) => FeedSound BY DEF FeedSound
<1> QED BY <1>1, <1>2, <1>3, <1>4, FeedStaysSound, PTL DEF FundsSpec, F!Spec

=============================================================================
