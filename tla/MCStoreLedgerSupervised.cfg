SPECIFICATION Spec
CONSTANTS
  s1 = s1
  s2 = s2
  Sessions         <- MCSessions
  Products         <- MCProducts
  OpeningStock     <- MCOpeningStock
  OpenRequests     <- MCOpen
  CloseRequests    <- None
  CashRequests     <- None
  CheckoutRequests <- ReversalCheckouts
  RefundRequests   <- SupervisedRefunds
  VoidRequests     <- None
  AdjustRequests   <- None
  ImportRequests   <- None
  Tokens           <- SupervisedTokens
INVARIANT SupervisedRefundCommits
CHECK_DEADLOCK FALSE
