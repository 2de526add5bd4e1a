--------------------------- MODULE MCEdgeCatalog ---------------------------
EXTENDS EdgeCatalog, TLC
CONSTANTS t1, t2
MCOpenings == {Empty, (1 :> 1) @@ (2 :> 1), (1 :> 1) @@ (2 :> 1) @@ (3 :> 1)}
=============================================================================
