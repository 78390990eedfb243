SPECIFICATION LiveSpec
CONSTANTS
  u1 = u1
  p1 = p1
  w1 = w1
  d1 = d1
  r1 = r1
  v1 = v1
  x1 = x1
  photo1 = photo1
  Users <- OneUser
  Sessions <- Everybody
  Adjusts = {}
  AdjustUser <- NoUser
  Delta <- NoDelta
  Opening <- Opened
  Refs <- AllRefs
  NoRef = NoRef
  Free = Free
  Purchases <- Buying
  Pollers <- Polling
  Owner <- Buyer
  Prices = {1}
  PollLimit = 1
  CodeForms <- TextForms
  CancelForms <- TextForms
  Requests <- Asking
  Receipts <- Sending
  Reviews <- Reviewing
  Expirers <- Expiring
  Depositor <- Payer
  File <- Photo
  Reviewed <- Tapped
  Amounts = {1}
INVARIANTS
  BalanceExplained
PROPERTIES
  HandlersEnd
  NothingPends
