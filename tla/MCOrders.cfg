SPECIFICATION Spec
CONSTANTS
  u1 = u1
  p1 = p1
  p2 = p2
  w1 = w1
  w2 = w2
  Users <- OneUser
  Sessions <- WithTwoWorkers
  Adjusts = {}
  AdjustUser <- NoUser
  Delta <- NoDelta
  Opening <- Ample
  Refs <- TwoPurchases
  NoRef = NoRef
  Free = Free
  Purchases <- TwoPurchases
  Pollers <- TwoWorkers
  Owner <- BothMine
  Prices = {1, 2}
  CodeForms <- EveryForm
  CancelForms <- TextOrJson
  PollLimit = 1
SYMMETRY Interchangeable
INVARIANTS
  TypeOK
  LedgerChain
  LedgerMatchesOrders
  RefundOnlyWithoutNumber
  StatusAgrees
  EventTrail
  TotalsExact
  NotifiedOnce
PROPERTIES
  BlockedNeverReserve
  KeepsPromise
  StatusFlow
  ReconciliationIsTheBuyers
