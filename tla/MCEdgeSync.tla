----------------------------- MODULE MCEdgeSync -----------------------------
(***************************************************************************)
(* One terminal, one product.  The attempt limits are small: what matters   *)
(* is that a message can reach them, before and after its sale commits.     *)
(***************************************************************************)
EXTENDS EdgeSync

CONSTANTS T, P, k1, k2, i1, i2, c1, c2, r1, s1

S(k, i, n, h) ==
    [terminal |-> T, key |-> k, saleId |-> i, seq |-> n, hlc |-> h, qty |-> [p \in {P} |-> 1]]

MCTerminal == {T}
MCProduct == {P}
MCKey == {k1, k2}
MCSaleId == {i1, i2}
OneSale == {S(k1, i1, 1, 1)}
TwoSales == {S(k1, i1, 1, 1), S(k2, i2, 2, 2)}
MCCall == {c1}
TwoCalls == {c1, c2}
MCRequest == {r1}
OneSession == {s1}
=============================================================================
