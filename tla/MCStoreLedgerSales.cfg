SPECIFICATION Spec
CONSTANTS
  s1 = s1
  s2 = s2
  Sessions         <- MCSessions
  Products         <- MCProducts
  OpeningStock     <- MCOpeningStock
  OpenRequests     <- SalesOpen
  CloseRequests    <- SalesClose
  CashRequests     <- MCCash
  CheckoutRequests <- SalesCheckouts
  RefundRequests   <- None
  VoidRequests     <- None
  AdjustRequests   <- SalesAdjusts
  ImportRequests   <- SalesImports
  Tokens           <- None
INVARIANTS
  TypeOK
  KeyOnce
  StockIsExplained
  OneOpenShift
  OperationsOnce
PROPERTY ClosedIsFinal
CHECK_DEADLOCK FALSE
