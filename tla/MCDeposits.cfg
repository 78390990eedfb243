SPECIFICATION Spec
CONSTANTS
  u1 = u1
  u2 = u2
  d1 = d1
  d2 = d2
  r1 = r1
  r2 = r2
  v1 = v1
  v2 = v2
  v3 = v3
  x1 = x1
  a1 = a1
  photo1 = photo1
  photo2 = photo2
  Users <- OneUser
  Opening <- Opened
  Depositor <- SameDepositor
  Reviews <- ThreeReviews
  Reviewed <- ReviewedTwice
  Sessions <- SessionsAdmin
  Requests <- TwoRequests
  Receipts <- TwoReceipts
  Expirers <- Worker
  File <- SamePhoto
  Amounts = {1}
  Adjusts <- OneAdjust
  AdjustUser <- AdjustedUser
  Delta <- TakeAway
  Refs <- TwoRequests
  NoRef = NoRef
  Free = Free
INVARIANTS
  TypeOK
  OnePending
  CreditsAreApprovals
  SharedOnlyIfUnseen
PROPERTIES
  ApprovalCredits
  OnlyStaleReceiptReopens
