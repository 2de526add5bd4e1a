--------------------------- MODULE MCClientOutbox ---------------------------
EXTENDS ClientOutbox, TLC
CONSTANTS t1, t2, dialog, drawer, l1, l2
MCHome == (dialog :> t1)
MCLoopOf == (l1 :> t1) @@ (l2 :> t2)
CartHome == (dialog :> t1) @@ (drawer :> t1)
CartLoopOf == (l1 :> t1)
=============================================================================
