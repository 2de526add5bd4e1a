SPECIFICATION Spec
CONSTANTS
  s1 = s1
  s2 = s2
  Sessions         <- MCSessions
  Products         <- MCProducts
  OpeningStock     <- MCOpeningStock
  OpenRequests     <- MCOpen
  CloseRequests    <- None
  CashRequests     <- None
  CheckoutRequests <- ReversalCheckouts
  RefundRequests   <- ReversalRefunds
  VoidRequests     <- ReversalVoids
  AdjustRequests   <- None
  ImportRequests   <- None
  Tokens           <- ReversalTokens
INVARIANT ReversedWithinPayment
CHECK_DEADLOCK FALSE
