SPECIFICATION Spec
CONSTANTS
  s1 = s1
  s2 = s2
  Sessions         <- MCSessions
  Products         <- MCProducts
  OpeningStock     <- MCOpeningStock
  OpenRequests     <- MCOpen
  CloseRequests    <- MCClose
  CashRequests     <- None
  CheckoutRequests <- ReversalCheckouts
  RefundRequests   <- ReversalRefunds
  VoidRequests     <- ReversalVoids
  AdjustRequests   <- None
  ImportRequests   <- None
  Tokens           <- ReversalTokens
INVARIANTS
  DrawerIsExplained
  RefundsWithinPayment
  ReversalsAuthorized
  AnswerIsTrue
PROPERTY ReversalIsFinal
CHECK_DEADLOCK FALSE
