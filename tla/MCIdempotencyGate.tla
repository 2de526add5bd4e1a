-------------------------- MODULE MCIdempotencyGate --------------------------
(***************************************************************************)
(* MCSale: three honest sales, and one that claims the number of the third  *)
(* under its own key with a clock behind the second.  Batches of two arrive  *)
(* in any order, so numbers come early, leave gaps and fill them.            *)
(* HonestSale: four honest sales, of a terminal the origin knows nothing of. *)
(***************************************************************************)
EXTENDS IdempotencyGate

CONSTANTS k1, k2, k3, k4, i1, i2, i3, i4, c1

S(k, i, n, h) == [key |-> k, saleId |-> i, seq |-> n, hlc |-> h]

MCKey == {k1, k2, k3, k4}
MCSaleId == {i1, i2, i3, i4}
MCSale == {S(k1, i1, 1, 1), S(k2, i2, 2, 2), S(k3, i3, 3, 2), S(k4, i4, 3, 1)}
MCCheckpoint == {[seq |-> 0, hlc |-> 0], [seq |-> 2, hlc |-> 2]}
HonestSale == {S(k1, i1, 1, 1), S(k2, i2, 2, 2), S(k3, i3, 3, 3), S(k4, i4, 4, 4)}
NewTerminal == {[seq |-> 0, hlc |-> 0]}
MCCall == {c1}
=============================================================================
