SPECIFICATION Spec
CONSTANTS
  m1 = m1
  owner = owner
  cashier = cashier
  e1 = e1
  x1 = x1
  s1 = s1
  s2 = s2
  Event = {e1}
  Member = {m1}
  Owner = owner
  Cashier = cashier
  ExpenseId = {}
  Fee = {1}
  Price = {}
  Cost = {1}
  LegacyRow = {}
  Slot = {s1, s2}
  MaxLedger = 3
  Retries = FALSE
  Null = Null
SYMMETRY AnySlot
INVARIANT LedgerMatchesPayments
