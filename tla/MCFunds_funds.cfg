SPECIFICATION FundsSpec
CONSTANTS
  Event = {e1}
  Member = {m1}
  Owner = owner
  Cashier = cashier
  ExpenseId = {x1}
  Fee = {1, 2}
  Price = {2}
  Cost = {1, 3}
  LegacyRow = {m1}
  Slot = {s1}
  MaxLedger = 4
  Retries = TRUE
  Null = Null
  Doc = {1, 2, 3}
  Key = {1, 2}
  Limit = {Null, 0, 3}
  DefaultPage = 2
  MaxPage = 2
  MaxChanges = 2
INVARIANTS LedgerFollowsPayments FeedSound FundTotals ExpensesFrozen LedgerChain SettledOnce
PROPERTY ImplementsPromise
