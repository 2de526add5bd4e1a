---------------------------- MODULE MCPosOrigin ----------------------------
(***************************************************************************)
(* Two terminals that sell two products.  Besides the honest sales of T1    *)
(* and T2 the instance holds a rival for a sequence number, a sale id that  *)
(* comes back under another key, a clock that runs backwards and a key that *)
(* two terminals use.                                                      *)
(***************************************************************************)
EXTENDS PosOrigin

CONSTANTS T1, T2, P1, P2, s1, s2, k1, k2, k3, k4, k5, k6, i1, i2, i3, i5, i6, i7

S(t, k, i, n, c, q1, q2) ==
    [terminal |-> t, key |-> k, saleId |-> i, seq |-> n, hlc |-> c,
     qty |-> [p \in {P1, P2} |-> IF p = P1 THEN q1 ELSE q2]]

MCTerminal == {T1, T2}
MCProduct == {P1, P2}
MCSession == {s1, s2}
MCKey == {k1, k2, k3, k4, k5, k6}
MCSaleId == {i1, i2, i3, i5, i6, i7}
MCSale == {
    S(T1, k1, i1, 1, 1, 1, 0),
    S(T1, k2, i2, 2, 2, 1, 2),
    S(T1, k3, i3, 2, 1, 0, 1),    \* another sale under sequence number 2
    S(T1, k4, i1, 3, 3, 1, 0),    \* the sale id of the first sale again
    S(T1, k5, i5, 3, 1, 1, 1),    \* its clock is behind that of k2
    S(T2, k1, i6, 1, 5, 2, 0),    \* the key of the first sale, at T2
    S(T2, k6, i7, 1, 4, 0, 3) }

\* The race the code comment speaks of needs only honest sales of one terminal.
MCRaceSale == {
    S(T1, k1, i1, 1, 1, 1, 0),
    S(T1, k2, i2, 2, 2, 1, 2),
    S(T1, k4, i3, 3, 3, 1, 0) }
=============================================================================
