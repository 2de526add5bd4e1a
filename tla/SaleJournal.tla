----------------------------- MODULE SaleJournal -----------------------------
(***************************************************************************)
(* What the edge tier promises of the financial record: each terminal has  *)
(* one journal, and a sale enters it once, whole, at the position its      *)
(* terminal numbered it with, under a key and a sale id nobody has used.   *)
(* Nothing is ever taken out or reordered.  The abstract specification of  *)
(* PosOrigin.                                                              *)
(***************************************************************************)
EXTENDS Naturals, Sequences

CONSTANTS Terminal, Sale

VARIABLE journal    \* for each terminal, its committed sales in order

Entries == UNION {{journal[t][i] : i \in DOMAIN journal[t]} : t \in Terminal}

Init == journal = [t \in Terminal |-> <<>>]

Commit(m) ==
    /\ m.seq = Len(journal[m.terminal]) + 1
    /\ m.seq > 1 => journal[m.terminal][m.seq - 1].hlc <= m.hlc
    /\ \A e \in Entries : e.key # m.key /\ e.saleId # m.saleId
    /\ journal' = [journal EXCEPT ![m.terminal] = Append(@, m)]

Next == \E m \in Sale : Commit(m)

Spec == Init /\ [][Next]_journal
=============================================================================
