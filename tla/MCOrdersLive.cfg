SPECIFICATION LiveSpec
CONSTANTS
  u1 = u1
  p1 = p1
  p2 = p2
  w1 = w1
  w2 = w2
  Users <- OneUser
  Sessions <- WithOneWorker
  Adjusts = {}
  AdjustUser <- NoUser
  Delta <- NoDelta
  Opening <- Tight
  Refs <- TwoPurchases
  NoRef = NoRef
  Free = Free
  Purchases <- TwoPurchases
  Pollers <- OneWorker
  Owner <- BothMine
  Prices = {1}
  CodeForms <- TextOrJson
  CancelForms <- TextOnly
  PollLimit = 2
PROPERTIES
  ProcessingEnds
  CodeIsDelivered
  TextCancelIsRefunded
  PurchasesEnd
