------------------------ MODULE IdempotencyGateProofs ------------------------
(***************************************************************************)
(* The promises of the Durable Object's tables, for any batches, limits,    *)
(* calls that await the queue, losses of the object and checkpoints.        *)
(*                                                                         *)
(* TypeOK, AlarmCoversOutbox and NumbersHaveOneOwner are inductive          *)
(* together; the action properties follow from them.  GapsCoverMissing has   *)
(* an invariant of its own, GapInv: the table of gaps is keyed by its two     *)
(* ends, so where the open gaps end, and where the closed ones lie, matters. *)
(***************************************************************************)
EXTENDS IdempotencyGate, Sums, FiniteSetTheorems, TLAPS

\* The inductive invariant.
IInv == TypeOK /\ AlarmCoversOutbox /\ NumbersHaveOneOwner

-----------------------------------------------------------------------------

LEMMA SaleFields ==
    ASSUME NEW m \in Sale
    PROVE  m.key \in Key /\ m.seq \in Nat /\ m.seq > 0 /\ m.hlc \in Nat
BY GateAssumption

LEMMA RowFields ==
    ASSUME NEW row \in RowType, row.state # "ABSENT"
    PROVE  /\ row \in [state : Live \cup {"COMMITTED"}, sale : Sale, failed : BOOLEAN]
           /\ row.sale \in Sale
BY DEF RowType

LEMMA InitHolds == Init => IInv
<1> SUFFICES ASSUME Init PROVE IInv
  OBVIOUS
<1> USE DEF Init, EmptyStore, Absent
<1>1. TypeOK
  <2>1. rows \in [Key -> RowType] /\ call \in [Call -> CallType]
    BY DEF RowType, CallType, Idle
  <2>2. \A k \in Key : rows[k].state = "ABSENT"
    OBVIOUS
  <2>3. contiguous \in Nat /\ lastHlc \in Nat /\ seen \subseteq Sale /\ gaps \subseteq Gap
    OBVIOUS
  <2>4. alarm \in BOOLEAN
    OBVIOUS
  <2>5. faults \in 0 .. MaxFaults
    BY GateAssumption
  <2> QED BY <2>1, <2>2, <2>3, <2>4, <2>5 DEF TypeOK
<1>2. AlarmCoversOutbox /\ NumbersHaveOneOwner
  BY DEF AlarmCoversOutbox, NumbersHaveOneOwner, IsLive, Live, Known
<1> QED BY <1>1, <1>2 DEF IInv

-----------------------------------------------------------------------------
(* What the operators of submitBatch return *)

LEMMA SelectedRows ==
    ASSUME NEW table, NEW sel \in SUBSET Key, Selects(table, sel),
           \A k \in Key : table[k] \in RowType
    PROVE  {table[k].sale : k \in sel} \subseteq Sale
<1> SUFFICES ASSUME NEW k \in sel PROVE table[k].sale \in Sale
  OBVIOUS
<1>1. table[k].state # "ABSENT"
  BY DEF Selects, IsLive, Live
<1> QED BY <1>1, RowFields

\* A gap taken over from the table, closed or shortened.
LEMMA ChangedGaps ==
    ASSUME NEW g \in Gap, NEW n \in Nat
    PROVE  [g EXCEPT !.open = FALSE] \in Gap /\ [g EXCEPT !.from = n] \in Gap
BY DEF Gap

LEMMA ReconciledType ==
    ASSUME TypeOK, NEW cp \in Checkpoint
    PROVE  /\ Reconciled(cp).seq \in Nat /\ Reconciled(cp).hlc \in Nat
           /\ Reconciled(cp).seq \in {contiguous, cp.seq} /\ contiguous <= Reconciled(cp).seq
           /\ Reconciled(cp).seen \subseteq seen /\ Reconciled(cp).gaps \subseteq Gap
           /\ \A m \in seen : m.seq > Reconciled(cp).seq => m \in Reconciled(cp).seen
<1>1. cp.seq \in Nat /\ cp.hlc \in Nat
  BY GateAssumption DEF CheckpointShape
<1>2. /\ contiguous \in Nat /\ lastHlc \in Nat /\ gaps \subseteq Gap
      /\ \A m \in seen : m.seq \in Nat
  BY SaleFields DEF TypeOK
<1>3. CASE cp.seq > contiguous
  <2> DEFINE G == {g \in gaps : ~g.open \/ g.from > cp.seq}
                   \cup {[g EXCEPT !.open = FALSE] : g \in {h \in gaps : Resolved(h, cp.seq)}}
                   \cup {[g EXCEPT !.from = cp.seq + 1] : g \in {h \in gaps : Straddles(h, cp.seq)}}
  <2>1. Reconciled(cp) = [seq |-> cp.seq, hlc |-> cp.hlc, seen |-> PruneSeen(seen, cp.seq), gaps |-> G]
    BY <1>3 DEF Reconciled
  <2>2. G \subseteq Gap
    <3>1. \A g \in gaps : [g EXCEPT !.open = FALSE] \in Gap /\ [g EXCEPT !.from = cp.seq + 1] \in Gap
      BY <1>1, <1>2, ChangedGaps
    <3> QED BY <1>2, <3>1
  <2> HIDE DEF G
  <2> QED BY <1>1, <1>2, <1>3, <2>1, <2>2 DEF PruneSeen
<1>4. CASE cp.seq = contiguous
  <2>1. /\ Reconciled(cp).seq = contiguous /\ Reconciled(cp).hlc = cp.hlc
        /\ Reconciled(cp).seen = seen /\ Reconciled(cp).gaps = gaps
    BY <1>1, <1>2, <1>4 DEF Reconciled, SequenceState
  <2> QED BY <1>1, <1>2, <2>1
<1>5. CASE cp.seq < contiguous
  <2>1. Reconciled(cp) = [seq |-> contiguous, hlc |-> lastHlc, seen |-> seen, gaps |-> gaps]
    BY <1>1, <1>2, <1>5 DEF Reconciled, SequenceState
  <2> QED BY <1>1, <1>2, <2>1
<1> QED BY <1>1, <1>2, <1>3, <1>4, <1>5

LEMMA AddGapType ==
    ASSUME NEW G, NEW f \in Nat, NEW t \in Nat
    PROVE  AddGap(G, f, t) \subseteq Gap
<1>1. [from |-> f, to |-> t, open |-> TRUE] \in Gap
  BY DEF Gap
<1> QED BY <1>1 DEF AddGap

LEMMA NewGapsType ==
    ASSUME NEW batch \in SUBSET Sale, NEW base, base.seq \in Nat, base.seen \subseteq Sale
    PROVE  NewGaps(batch, base) \subseteq Gap
<1>1. \A n \in SeqsOf(base.seen) : n \in Nat
  BY SaleFields DEF SeqsOf
<1>2. \A m \in Ahead(batch, base) : m \in Sale
  BY DEF Ahead, Unknown
<1>3. ASSUME NEW m \in Ahead(batch, base), NEW h \in ObservedHigh(m, batch, base), m.seq > h + 1
      PROVE  AddGap(base.gaps, h + 1, m.seq - 1) \subseteq Gap
  <2>1. m.seq \in Nat /\ m.seq > 0
    BY <1>2, SaleFields
  <2>2. h \in Nat
    BY <1>1, <1>2, SaleFields DEF ObservedHigh, Below, SeqsOf
  <2> QED BY <2>1, <2>2, AddGapType
<1> QED BY <1>3 DEF NewGaps

LEMMA TrimGapsType ==
    ASSUME NEW G \in SUBSET Gap, NEW n \in Nat
    PROVE  TrimGaps(G, n) \subseteq Gap
<1> DEFINE rest == {g \in G : ~Straddles(g, n) /\ ~Resolved(g, n)}
<1>1. \A g \in G : AddGap(rest, n + 1, g.to) \subseteq Gap
  BY AddGapType DEF Gap
<1>2. \A g \in G : [g EXCEPT !.open = FALSE] \in Gap
  BY ChangedGaps
<1> QED BY <1>1, <1>2 DEF TrimGaps

-----------------------------------------------------------------------------
(* submitBatch *)

\* The facts about an accepted batch that the properties rest on.
LEMMA Accepted ==
    ASSUME IInv, NEW c \in Call, NEW batch \in Batches, NEW cp \in Checkpoint,
           SubmitAccepted(c, batch, cp)
    PROVE  /\ batch \subseteq Sale
           /\ contiguous' \in Nat /\ Reconciled(cp).seq <= contiguous' /\ contiguous <= contiguous'
           /\ SeenAfter(batch, Reconciled(cp)) \subseteq Sale
           /\ \A i \in Reconciled(cp).seq + 1 .. contiguous' : i \in SeqsOf(SeenAfter(batch, Reconciled(cp)))
           /\ seen' = PruneSeen(SeenAfter(batch, Reconciled(cp)), contiguous')
           /\ \E old \in SUBSET CommittedKeys : rows' = RowsAfter(batch, old)
           /\ ~KeyRefused(batch) /\ ~BatchClash(batch) /\ ~SequenceReused(batch, Reconciled(cp))
           /\ lastHlc' \in Nat /\ gaps' \subseteq Gap
<1> DEFINE base == Reconciled(cp)
           S == SeenAfter(batch, base)
<1>1. TypeOK /\ batch \subseteq Sale
  BY DEF IInv, Batches
<1>2. /\ base.seq \in Nat /\ base.hlc \in Nat /\ contiguous <= base.seq
      /\ base.seen \subseteq seen /\ base.gaps \subseteq Gap
  BY <1>1, ReconciledType
<1>3. S \subseteq Sale
  BY <1>1, <1>2 DEF TypeOK, SeenAfter, Ahead, Unknown
<1>4. PICK n \in base.seq .. base.seq + Cardinality(S) :
        /\ PrefixEnd(n, S, base) /\ contiguous' = n
        /\ lastHlc' \in IF n = base.seq THEN {base.hlc} ELSE {m.hlc : m \in {x \in S : x.seq = n}}
        /\ seen' = PruneSeen(S, n)
        /\ \E old \in SUBSET gaps :
              gaps' = PruneGaps(TrimGaps(base.gaps \cup NewGaps(batch, base), n), old)
  BY DEF SubmitAccepted
<1> HIDE DEF base, S
<1>5. n \in Nat /\ base.seq <= n
  <2>1. Cardinality(S) \in Nat
    BY <1>3, GateAssumption, FS_Subset, FS_CardinalityType
  <2> QED BY <1>2, <2>1
<1>6. lastHlc' \in Nat
  BY <1>2, <1>3, <1>4, SaleFields
<1>7. gaps' \subseteq Gap
  <2>1. NewGaps(batch, base) \subseteq Gap
    BY <1>1, <1>2, NewGapsType DEF TypeOK
  <2>2. TrimGaps(base.gaps \cup NewGaps(batch, base), n) \subseteq Gap
    BY <1>2, <1>5, <2>1, TrimGapsType
  <2> QED BY <1>4, <2>2 DEF PruneGaps
<1>8. ~Refused(batch, cp) /\ \E old \in SUBSET CommittedKeys : rows' = RowsAfter(batch, old)
  BY DEF SubmitAccepted
<1>9. ~KeyRefused(batch) /\ ~BatchClash(batch) /\ ~SequenceReused(batch, base)
  BY <1>8 DEF Refused, base
<1>10. contiguous <= n /\ contiguous' = n
  BY <1>1, <1>2, <1>4, <1>5 DEF TypeOK
<1>11. \A i \in base.seq + 1 .. n : i \in SeqsOf(S)
  BY <1>4 DEF PrefixEnd
<1> QED BY <1>1, <1>3, <1>4, <1>5, <1>6, <1>7, <1>8, <1>9, <1>10, <1>11 DEF base, S

FreshRow(m) == [state |-> "ENQUEUE_PENDING", failed |-> FALSE, sale |-> m]

\* What an accepted batch makes of one receipt.
LEMMA AcceptedRow ==
    ASSUME TypeOK, NEW batch \in SUBSET Sale, NEW oldRows \in SUBSET CommittedKeys,
           rows' = RowsAfter(batch, oldRows), ~KeyRefused(batch), ~BatchClash(batch), NEW k \in Key
    PROVE  /\ rows' \in [Key -> RowType]
           /\ \/ rows'[k] = rows[k]
              \/ rows'[k] = Absent /\ rows[k].state = "COMMITTED"
              \/ /\ rows[k].state \in {"ABSENT", "COMMITTED"}
                 /\ \E m \in batch :
                       /\ m.key = k
                       /\ rows'[k] = FreshRow(m)
                       /\ rows[k].state = "COMMITTED" => rows[k].sale = m
           /\ \A m \in batch : m.key = k /\ rows[k].state = "ABSENT" =>
                 rows'[k].state # "ABSENT" /\ rows'[k].sale = m
<1> DEFINE kept == PruneRows(rows, oldRows)
           fresh(j) == [state |-> "ENQUEUE_PENDING", failed |-> FALSE,
                        sale |-> CHOOSE m \in batch : m.key = j]
           isNew(j) == kept[j].state = "ABSENT" /\ \E m \in batch : m.key = j
<1>1. \A j \in Key : /\ rows'[j] = (IF isNew(j) THEN fresh(j) ELSE kept[j])
                     /\ kept[j] = (IF j \in oldRows THEN Absent ELSE rows[j])
                     /\ j \in oldRows => rows[j].state = "COMMITTED"
  BY DEF RowsAfter, PruneRows, CommittedKeys
<1>2. \A j \in Key : isNew(j) =>
        /\ (CHOOSE m \in batch : m.key = j) \in batch
        /\ (CHOOSE m \in batch : m.key = j).key = j
  OBVIOUS
<1>3. rows' \in [Key -> RowType]
  <2>1. \A j \in Key : rows'[j] \in RowType
    <3> TAKE j \in Key
    <3>1. isNew(j) => fresh(j) \in RowType
      BY <1>2 DEF RowType, Live
    <3>2. rows[j] \in RowType /\ Absent \in RowType
      BY DEF TypeOK, RowType, Absent
    <3>3. kept[j] \in RowType
      BY <1>1, <3>2
    <3> QED BY <1>1, <3>1, <3>3
  <2>2. rows' = [j \in Key |-> rows'[j]]
    BY DEF RowsAfter
  <2> QED BY <2>1, <2>2
<1>4. CASE ~isNew(k)
  <2>1. rows'[k] = rows[k] \/ (rows'[k] = Absent /\ rows[k].state = "COMMITTED")
    BY <1>1, <1>4
  <2>2. \A m \in batch : m.key = k => rows[k].state # "ABSENT"
    BY <1>1, <1>4 DEF Absent
  <2> QED BY <1>3, <2>1, <2>2
<1>5. CASE isNew(k)
  <2>1. PICK m \in batch : m.key = k /\ rows'[k] = FreshRow(m)
    BY <1>1, <1>2, <1>5 DEF FreshRow
  <2>2. rows[k].state \in {"ABSENT", "COMMITTED"}
    BY <1>1, <1>5
  <2>3. rows[k].state = "COMMITTED" => rows[k].sale = m
    BY <2>1 DEF KeyRefused, Known
  <2>4. \A x \in batch : x.key = k => x = m
    BY <2>1 DEF BatchClash
  <2>5. rows'[k].state # "ABSENT" /\ rows'[k].sale = m
    BY <2>1 DEF FreshRow
  <2> QED BY <1>3, <2>1, <2>2, <2>3, <2>4, <2>5
<1> QED BY <1>4, <1>5

LEMMA StartFlushType ==
    ASSUME TypeOK, NEW c \in Call, NEW by \in {"submit", "alarm"}, NEW todo \in SUBSET Sale,
           NEW sel, call' = [call EXCEPT ![c] = IF sel = {} THEN Idle
                                                ELSE [by |-> by, todo |-> todo, sent |-> {}]]
    PROVE  /\ call' \in [Call -> CallType]
           /\ call'[c] = Idle \/ call'[c].by = by
           /\ \A x \in Call : x # c => call'[x] = call[x]
<1>1. Idle \in CallType /\ [by |-> by, todo |-> todo, sent |-> {}] \in CallType
  BY DEF Idle, CallType
<1> QED BY <1>1 DEF TypeOK

\* No two of the sales recorded with an accepted batch share a number.
LEMMA AcceptedOnce ==
    ASSUME IInv, NEW batch \in SUBSET Sale, NEW cp \in Checkpoint,
           ~BatchClash(batch), ~SequenceReused(batch, Reconciled(cp)),
           NEW m \in SeenAfter(batch, Reconciled(cp)), NEW n \in SeenAfter(batch, Reconciled(cp)),
           m.seq = n.seq
    PROVE  m = n
<1> DEFINE base == Reconciled(cp)
<1>1. base.seen \subseteq seen
  BY ReconciledType DEF IInv
<1>2. \A x \in SeenAfter(batch, base) : x \in base.seen \/ x \in Ahead(batch, base)
  BY DEF SeenAfter
<1>3. CASE m \in base.seen /\ n \in base.seen
  BY <1>1, <1>3 DEF IInv, NumbersHaveOneOwner
<1>4. CASE m \in Ahead(batch, base) /\ n \in Ahead(batch, base)
  BY <1>4 DEF BatchClash, Ahead, Unknown
<1>5. \A x \in Ahead(batch, base), y \in base.seen : x.seq # y.seq
  BY DEF SequenceReused, SeqsOf
<1> QED BY <1>2, <1>3, <1>4, <1>5

LEMMA AcceptKeeps ==
    ASSUME IInv, NEW c \in Call, NEW batch \in Batches, NEW cp \in Checkpoint,
           SubmitAccepted(c, batch, cp)
    PROVE  IInv'
<1> DEFINE base == Reconciled(cp)
           S == SeenAfter(batch, base)
<1>1. TypeOK /\ NumbersHaveOneOwner
  BY DEF IInv
<1>2. /\ batch \subseteq Sale /\ S \subseteq Sale
      /\ contiguous' \in Nat /\ base.seq <= contiguous' /\ contiguous <= contiguous'
      /\ seen' = PruneSeen(S, contiguous')
      /\ ~KeyRefused(batch) /\ ~BatchClash(batch) /\ ~SequenceReused(batch, base)
      /\ lastHlc' \in Nat /\ gaps' \subseteq Gap
  BY Accepted
<1>17. PICK oldRows \in SUBSET CommittedKeys : rows' = RowsAfter(batch, oldRows)
  BY Accepted
<1>3. /\ base.seq \in Nat /\ contiguous <= base.seq /\ base.seen \subseteq seen
      /\ \A m \in seen : m.seq > base.seq => m \in base.seen
  BY <1>1, ReconciledType
<1>4. S = base.seen \cup Ahead(batch, base)
  BY DEF SeenAfter
<1> HIDE DEF base, S
<1>0. batch \in SUBSET Sale
  BY <1>2
<1>5. rows' \in [Key -> RowType]
  <2>1. CASE Key = {}
    BY <1>17, <2>1 DEF RowsAfter, PruneRows
  <2>2. CASE Key # {}
    BY <1>0, <1>1, <1>2, <1>17, <2>2, AcceptedRow
  <2> QED BY <2>1, <2>2
<1>16. ASSUME NEW k \in Key
       PROVE  \/ rows'[k] = rows[k]
              \/ rows'[k] = Absent
              \/ /\ rows[k].state \in {"ABSENT", "COMMITTED"}
                 /\ \E m \in batch :
                       /\ m.key = k
                       /\ rows'[k] = FreshRow(m)
                       /\ rows[k].state = "COMMITTED" => rows[k].sale = m
  BY <1>0, <1>1, <1>2, <1>17, AcceptedRow
<1>6. \A k \in Key : rows'[k].state # "ABSENT" => rows'[k].sale.key = k
  <2> TAKE k \in Key
  <2>1. CASE rows'[k] = rows[k]
    BY <1>1, <2>1 DEF TypeOK
  <2>2. CASE rows'[k] = Absent
    BY <2>2 DEF Absent
  <2>3. CASE \E m \in batch : m.key = k /\ rows'[k] = FreshRow(m)
    BY <2>3 DEF FreshRow
  <2> QED BY <1>16, <2>1, <2>2, <2>3
<1>7. call' \in [Call -> CallType]
  <2>1. PICK sel \in SUBSET Key :
          /\ Selects(rows', sel)
          /\ call' = [call EXCEPT ![c] =
                 IF sel = {} THEN Idle
                 ELSE [by |-> "submit", todo |-> {rows'[k].sale : k \in sel}, sent |-> {}]]
    BY DEF SubmitAccepted, StartFlush
  <2> DEFINE todo == {rows'[k].sale : k \in sel}
  <2>3. todo \in SUBSET Sale
    BY <1>5, <2>1, SelectedRows
  <2>4. call' = [call EXCEPT ![c] = IF sel = {} THEN Idle
                                     ELSE [by |-> "submit", todo |-> todo, sent |-> {}]]
    BY <2>1
  <2> HIDE DEF todo
  <2> QED BY <1>1, <2>3, <2>4, StartFlushType
<1>8. alarm' = TRUE /\ faults' = faults
  BY DEF SubmitAccepted
<1>9. seen' \subseteq Sale
  BY <1>2 DEF PruneSeen
<1>10. TypeOK'
  BY <1>1, <1>2, <1>5, <1>6, <1>7, <1>8, <1>9 DEF TypeOK
<1>11. AlarmCoversOutbox'
  BY <1>8 DEF AlarmCoversOutbox
<1>12. ASSUME NEW m \in Sale, m \in seen, m.seq > contiguous' PROVE m \in seen'
  <2>1. m.seq > base.seq
    BY <1>2, <1>3, <1>12, SaleFields
  <2> QED BY <1>2, <1>3, <1>4, <1>12, <2>1 DEF PruneSeen
<1>13. ASSUME NEW k \in Key, rows'[k].state # "ABSENT", rows'[k].sale.seq > contiguous'
       PROVE  rows'[k].sale \in seen'
  <2>1. ASSUME rows[k].state # "ABSENT", rows'[k].sale = rows[k].sale PROVE rows[k].sale \in seen'
    <3>1. rows[k].sale \in Sale
      BY <1>1, <2>1, RowFields DEF TypeOK
    <3>2. rows[k].sale.seq > contiguous
      BY <1>1, <1>2, <1>13, <2>1, <3>1, SaleFields DEF TypeOK
    <3> QED BY <1>1, <1>12, <1>13, <2>1, <3>1, <3>2 DEF NumbersHaveOneOwner, Known
  <2>2. CASE rows'[k] = rows[k]
    BY <1>13, <2>1, <2>2
  <2>3. CASE rows'[k] = Absent
    BY <1>13, <2>3 DEF Absent
  <2>4. ASSUME rows[k].state \in {"ABSENT", "COMMITTED"},
               NEW m \in batch, m.key = k,
               rows'[k] = FreshRow(m),
               rows[k].state = "COMMITTED" => rows[k].sale = m
        PROVE  rows'[k].sale \in seen'
    <3>1. CASE rows[k].state = "COMMITTED"
      BY <2>1, <2>4, <3>1 DEF FreshRow
    <3>2. CASE rows[k].state = "ABSENT"
      <4>1. m \in Sale /\ m.seq > base.seq
        BY <1>2, <1>3, <1>13, <2>4, SaleFields DEF FreshRow
      <4>2. m \in Ahead(batch, base)
        BY <2>4, <3>2, <4>1 DEF Ahead, Unknown, Known
      <4> QED BY <1>2, <1>4, <1>13, <2>4, <4>2 DEF PruneSeen, FreshRow
    <3> QED BY <2>4, <3>1, <3>2
  <2> QED BY <1>16, <2>2, <2>3, <2>4
<1>14. ASSUME NEW m \in seen', NEW n \in seen', m.seq = n.seq PROVE m = n
  BY <1>2, <1>14, AcceptedOnce DEF S, base, PruneSeen
<1>15. NumbersHaveOneOwner'
  BY <1>13, <1>14 DEF NumbersHaveOneOwner, Known
<1> QED BY <1>10, <1>11, <1>15 DEF IInv

LEMMA SubmitKeeps ==
    ASSUME IInv, NEW c \in Call, NEW batch \in Batches, NEW cp \in Checkpoint, SubmitBatch(c, batch, cp)
    PROVE  IInv'
<1>1. CASE SubmitRefused(c, batch, cp)
  <2>1. alarm' = TRUE /\ UNCHANGED <<rows, contiguous, lastHlc, seen, gaps, call, faults>>
    BY <1>1 DEF SubmitRefused, store
  <2> QED BY <2>1 DEF IInv, TypeOK, AlarmCoversOutbox, NumbersHaveOneOwner, Known
<1>2. CASE SubmitAccepted(c, batch, cp)
  BY <1>2, AcceptKeeps
<1> QED BY <1>1, <1>2 DEF SubmitBatch

-----------------------------------------------------------------------------
(* The other steps *)

\* Steps that change at most the status of receipts, or forget committed ones.
LEMMA StatusKeeps ==
    ASSUME IInv, contiguous' = contiguous, seen' \in {seen, PruneSeen(seen, contiguous)},
           rows' \in [Key -> RowType],
           \A k \in Key : rows'[k].state # "ABSENT" =>
               rows[k].state # "ABSENT" /\ rows'[k].sale = rows[k].sale
    PROVE  /\ NumbersHaveOneOwner' /\ seen' \subseteq Sale
           /\ \A k \in Key : rows'[k].state # "ABSENT" => rows'[k].sale.key = k
<1>1. TypeOK /\ NumbersHaveOneOwner
  BY DEF IInv
<1>2. seen' \subseteq seen /\ \A m \in seen : m.seq > contiguous => m \in seen'
  BY DEF PruneSeen
<1> QED BY <1>1, <1>2 DEF TypeOK, NumbersHaveOneOwner, Known

LEMMA PrunedRows ==
    ASSUME NEW table \in [Key -> RowType], NEW old \in SUBSET Key
    PROVE  /\ PruneRows(table, old) \in [Key -> RowType]
           /\ \A k \in Key : PruneRows(table, old)[k] = IF k \in old THEN Absent ELSE table[k]
<1>1. Absent \in RowType
  BY DEF Absent, RowType
<1> QED BY <1>1 DEF PruneRows

LEMMA MarkedRows ==
    ASSUME TypeOK, NEW chunk
    PROVE  /\ MarkQueued(rows, chunk) \in [Key -> RowType]
           /\ \A k \in Key :
                 \/ MarkQueued(rows, chunk)[k] = rows[k]
                 \/ /\ IsLive(rows[k]) /\ IsLive(MarkQueued(rows, chunk)[k])
                    /\ MarkQueued(rows, chunk)[k].sale = rows[k].sale
<1> DEFINE T == MarkQueued(rows, chunk)
<1>1. \A k \in Key : T[k] = rows[k] \/ (IsLive(rows[k]) /\ T[k] = [rows[k] EXCEPT !.state = "QUEUED"])
  BY DEF MarkQueued
<1>2. ASSUME NEW k \in Key, IsLive(rows[k])
      PROVE  /\ [rows[k] EXCEPT !.state = "QUEUED"] \in RowType
             /\ [rows[k] EXCEPT !.state = "QUEUED"].sale = rows[k].sale
             /\ IsLive([rows[k] EXCEPT !.state = "QUEUED"])
  <2>1. rows[k] \in [state : Live \cup {"COMMITTED"}, sale : Sale, failed : BOOLEAN]
    BY <1>2, RowFields DEF TypeOK, IsLive, Live
  <2> QED BY <1>2, <2>1 DEF IsLive, Live, RowType
<1>3. T = [k \in Key |-> T[k]] /\ \A k \in Key : rows[k] \in RowType
  BY DEF MarkQueued, TypeOK
<1> HIDE DEF T
<1>4. \A k \in Key : T[k] \in RowType
  BY <1>1, <1>2, <1>3
<1>5. T \in [Key -> RowType]
  BY <1>3, <1>4
<1> QED BY <1>1, <1>2, <1>5 DEF T

LEMMA MarkKeeps ==
    ASSUME IInv, NEW c \in Call, Mark(c)
    PROVE  IInv'
<1> DEFINE table == MarkQueued(rows, call[c].sent)
<1>1. TypeOK /\ AlarmCoversOutbox
  BY DEF IInv
<1>2. /\ contiguous' = contiguous /\ lastHlc' = lastHlc /\ faults' = faults
      /\ seen' \in {seen, PruneSeen(seen, contiguous)}
  BY DEF Mark
<1>3. gaps' \subseteq Gap
  BY <1>1 DEF Mark, TypeOK, PruneGaps
<1>4. PICK old \in SUBSET CommittedKeys :
        rows' = table \/ rows' = PruneRows(table, old)
  BY DEF Mark
<1>5. /\ table \in [Key -> RowType]
      /\ \A k \in Key : \/ table[k] = rows[k]
                        \/ IsLive(rows[k]) /\ IsLive(table[k]) /\ table[k].sale = rows[k].sale
  BY <1>1, MarkedRows
<1>6. call[c] \in CallType /\ call[c].by \in {"submit", "alarm"} /\ call[c].todo \subseteq Sale
  BY <1>1 DEF TypeOK, Mark, CallType, Idle
<1>7. (call[c].todo # {} \/ call[c].by = "submit") => rows' = table /\ alarm' = alarm
  BY DEF Mark
<1>8. ~(call[c].todo # {} \/ call[c].by = "submit") =>
        alarm' = (alarm \/ \E k \in Key : IsLive(table[k]))
  BY DEF Mark, RearmAlarm
<1> HIDE DEF table
<1>9. /\ rows' \in [Key -> RowType]
      /\ \A k \in Key : rows'[k] = Absent \/ rows'[k] = table[k]
  <2>1. old \in SUBSET Key
    BY DEF CommittedKeys
  <2> QED BY <1>4, <1>5, <2>1, PrunedRows
<1>10. \A k \in Key : rows'[k].state # "ABSENT" => rows[k].state # "ABSENT" /\ rows'[k].sale = rows[k].sale
  BY <1>5, <1>9 DEF Absent, IsLive, Live
<1>11. \A k \in Key : IsLive(rows'[k]) => IsLive(table[k]) /\ IsLive(rows[k])
  BY <1>5, <1>9 DEF Absent, IsLive, Live
<1>12. /\ call' \in [Call -> CallType] /\ \A x \in Call : x # c => call'[x] = call[x]
       /\ call[c].todo # {} => call'[c].by = call[c].by
  <2> DEFINE x == IF call[c].todo = {} THEN Idle ELSE [call[c] EXCEPT !.sent = {}]
  <2>1. x \in CallType /\ (call[c].todo # {} => x.by = call[c].by)
    BY <1>6 DEF CallType, Idle
  <2>2. call' = [call EXCEPT ![c] = x] /\ call \in [Call -> CallType]
    BY <1>1 DEF Mark, TypeOK
  <2> HIDE DEF x
  <2> QED BY <2>1, <2>2
<1>13. alarm' \in BOOLEAN
  BY <1>1, <1>7, <1>8 DEF TypeOK
<1>14. AlarmCoversOutbox'
  <2> SUFFICES ASSUME NEW k \in Key, IsLive(rows'[k])
               PROVE  alarm' \/ \E x \in Call : call'[x].by = "alarm"
    BY DEF AlarmCoversOutbox
  <2>1. CASE call[c].todo # {} \/ call[c].by = "submit"
    <3>1. alarm \/ \E x \in Call : call[x].by = "alarm"
      BY <1>1, <1>11 DEF AlarmCoversOutbox
    <3>2. \A x \in Call : call[x].by = "alarm" => call'[x].by = "alarm"
      BY <1>12, <2>1
    <3> QED BY <1>7, <2>1, <3>1, <3>2
  <2>2. CASE ~(call[c].todo # {} \/ call[c].by = "submit")
    BY <1>8, <1>11, <2>2
  <2> QED BY <2>1, <2>2
<1>15. /\ NumbersHaveOneOwner' /\ seen' \subseteq Sale
       /\ \A k \in Key : rows'[k].state # "ABSENT" => rows'[k].sale.key = k
  BY <1>2, <1>9, <1>10, StatusKeeps
<1>16. TypeOK'
  BY <1>1, <1>2, <1>3, <1>9, <1>12, <1>13, <1>15 DEF TypeOK
<1> QED BY <1>14, <1>15, <1>16 DEF IInv

LEMMA SendKeeps ==
    ASSUME IInv, NEW c \in Call, NEW chunk \in SUBSET Sale, Send(c, chunk)
    PROVE  IInv'
<1>1. TypeOK /\ AlarmCoversOutbox /\ NumbersHaveOneOwner
  BY DEF IInv
<1>2. UNCHANGED <<rows, contiguous, lastHlc, seen, gaps, alarm, faults>>
  BY DEF Send, store
<1>3. call[c] \in [by : {"submit", "alarm"}, todo : SUBSET Sale, sent : SUBSET Sale]
  BY <1>1 DEF Send, TypeOK, CallType, Idle
<1> DEFINE x == [call[c] EXCEPT !.sent = chunk, !.todo = call[c].todo \ chunk]
<1>4. x \in CallType /\ x.by = call[c].by
  BY <1>3 DEF CallType
<1>5. call' = [call EXCEPT ![c] = x]
  BY <1>1 DEF Send, TypeOK
<1> HIDE DEF x
<1>6. call' \in [Call -> CallType] /\ \A y \in Call : call'[y].by = call[y].by
  BY <1>1, <1>4, <1>5 DEF TypeOK
<1>7. TypeOK'
  BY <1>1, <1>2, <1>6 DEF TypeOK
<1>8. AlarmCoversOutbox' /\ NumbersHaveOneOwner'
  BY <1>1, <1>2, <1>6 DEF AlarmCoversOutbox, NumbersHaveOneOwner, Known
<1> QED BY <1>7, <1>8 DEF IInv

LEMMA SendFailsKeeps ==
    ASSUME IInv, NEW c \in Call, SendFails(c)
    PROVE  IInv'
<1>1. TypeOK /\ NumbersHaveOneOwner
  BY DEF IInv
<1>2. /\ UNCHANGED <<rows, contiguous, lastHlc, seen, gaps>>
      /\ alarm' = TRUE /\ call' = [call EXCEPT ![c] = Idle]
      /\ faults < MaxFaults /\ faults' = faults + 1
  BY DEF SendFails, store
<1>3. Idle \in CallType
  BY DEF Idle, CallType
<1>4. call' \in [Call -> CallType] /\ faults' \in 0 .. MaxFaults
  BY <1>1, <1>2, <1>3, GateAssumption DEF TypeOK
<1>5. TypeOK'
  BY <1>1, <1>2, <1>4 DEF TypeOK
<1>6. AlarmCoversOutbox' /\ NumbersHaveOneOwner'
  BY <1>1, <1>2 DEF AlarmCoversOutbox, NumbersHaveOneOwner, Known
<1> QED BY <1>5, <1>6 DEF IInv

LEMMA AlarmKeeps ==
    ASSUME IInv, NEW c \in Call, Alarm(c)
    PROVE  IInv'
<1>1. TypeOK /\ NumbersHaveOneOwner
  BY DEF IInv
<1>2. PICK sel \in SUBSET Key :
        /\ Selects(rows, sel)
        /\ call' = [call EXCEPT ![c] =
               IF sel = {} THEN Idle
               ELSE [by |-> "alarm", todo |-> {rows[k].sale : k \in sel}, sent |-> {}]]
  BY DEF Alarm, StartFlush
<1> DEFINE todo == {rows[k].sale : k \in sel}
<1>3. todo \in SUBSET Sale
  <2>1. \A k \in Key : rows[k] \in RowType
    BY <1>1 DEF TypeOK
  <2> QED BY <1>2, <2>1, SelectedRows
<1>4. call' = [call EXCEPT ![c] = IF sel = {} THEN Idle
                                   ELSE [by |-> "alarm", todo |-> todo, sent |-> {}]]
  BY <1>2
<1> HIDE DEF todo
<1>5. /\ call' \in [Call -> CallType]
      /\ call'[c] = Idle \/ call'[c].by = "alarm"
  BY <1>1, <1>3, <1>4, StartFlushType
<1>6. faults' = faults /\ contiguous' = contiguous /\ lastHlc' = lastHlc
  BY DEF Alarm, store
<1>7. CASE call'[c] # Idle
  <2>1. UNCHANGED <<rows, seen, gaps>> /\ alarm' = FALSE /\ call'[c].by = "alarm"
    BY <1>5, <1>7 DEF Alarm, store
  <2>2. TypeOK'
    BY <1>1, <1>5, <1>6, <2>1 DEF TypeOK
  <2>3. AlarmCoversOutbox' /\ NumbersHaveOneOwner'
    BY <1>1, <1>6, <2>1 DEF AlarmCoversOutbox, NumbersHaveOneOwner, Known
  <2> QED BY <2>2, <2>3 DEF IInv
<1>8. CASE call'[c] = Idle
  <2>1. PICK old \in SUBSET CommittedKeys, oldGaps \in SUBSET gaps :
          /\ rows' = PruneRows(rows, old)
          /\ gaps' = PruneGaps(gaps, oldGaps)
          /\ seen' = PruneSeen(seen, contiguous)
          /\ alarm' = (\E k \in Key : IsLive(rows[k]))
    BY <1>8 DEF Alarm
  <2>2. old \in SUBSET Key /\ rows \in [Key -> RowType]
    BY <1>1 DEF CommittedKeys, TypeOK
  <2>3. /\ rows' \in [Key -> RowType]
        /\ \A k \in Key : rows'[k] = IF k \in old THEN Absent ELSE rows[k]
    BY <2>1, <2>2, PrunedRows
  <2>4. \A k \in Key : rows'[k].state # "ABSENT" =>
            rows[k].state # "ABSENT" /\ rows'[k].sale = rows[k].sale
    BY <2>3 DEF Absent
  <2>5. /\ NumbersHaveOneOwner' /\ seen' \subseteq Sale
        /\ \A k \in Key : rows'[k].state # "ABSENT" => rows'[k].sale.key = k
    BY <1>6, <2>1, <2>3, <2>4, StatusKeeps
  <2>6. gaps' \subseteq Gap /\ alarm' \in BOOLEAN
    BY <1>1, <2>1 DEF TypeOK, PruneGaps
  <2>7. TypeOK'
    BY <1>1, <1>5, <1>6, <2>3, <2>5, <2>6 DEF TypeOK
  <2>8. AlarmCoversOutbox'
    <3>1. \A k \in Key : IsLive(rows'[k]) => IsLive(rows[k])
      BY <2>3 DEF Absent, IsLive, Live
    <3> QED BY <2>1, <3>1 DEF AlarmCoversOutbox
  <2> QED BY <2>5, <2>7, <2>8 DEF IInv
<1> QED BY <1>7, <1>8

\* A mark changes the status of one known receipt.
LEMMA MarkRowKeeps ==
    ASSUME IInv, NEW k \in Key, NEW row \in RowType, rows' = [rows EXCEPT ![k] = row],
           row.state # "ABSENT" => Known(k) /\ row.sale = rows[k].sale,
           IsLive(row) => IsLive(rows[k]),
           UNCHANGED <<contiguous, lastHlc, seen, gaps, alarm, call, faults>>
    PROVE  IInv'
<1>1. TypeOK /\ AlarmCoversOutbox
  BY DEF IInv
<1>2. rows' \in [Key -> RowType] /\ \A j \in Key : rows'[j] = IF j = k THEN row ELSE rows[j]
  BY <1>1 DEF TypeOK
<1>3. \A j \in Key : rows'[j].state # "ABSENT" =>
          rows[j].state # "ABSENT" /\ rows'[j].sale = rows[j].sale
  BY <1>2 DEF Known
<1>4. /\ NumbersHaveOneOwner' /\ seen' \subseteq Sale
      /\ \A j \in Key : rows'[j].state # "ABSENT" => rows'[j].sale.key = j
  BY <1>2, <1>3, StatusKeeps
<1>5. TypeOK'
  BY <1>1, <1>2, <1>4 DEF TypeOK
<1>6. AlarmCoversOutbox'
  BY <1>1, <1>2 DEF AlarmCoversOutbox
<1> QED BY <1>4, <1>5, <1>6 DEF IInv

LEMMA MarkedRow ==
    ASSUME TypeOK, NEW k \in Key, Known(k)
    PROVE  /\ [rows[k] EXCEPT !.state = "COMMITTED", !.failed = FALSE] \in RowType
           /\ [rows[k] EXCEPT !.failed = TRUE] \in RowType
           /\ [rows[k] EXCEPT !.state = "COMMITTED", !.failed = FALSE].state = "COMMITTED"
           /\ [rows[k] EXCEPT !.state = "COMMITTED", !.failed = FALSE].sale = rows[k].sale
           /\ [rows[k] EXCEPT !.failed = TRUE].sale = rows[k].sale
           /\ [rows[k] EXCEPT !.failed = TRUE].failed = TRUE
<1>1. rows[k] \in [state : Live \cup {"COMMITTED"}, sale : Sale, failed : BOOLEAN]
  BY RowFields DEF TypeOK, Known
<1> QED BY <1>1 DEF RowType

LEMMA MarkCommittedKeeps ==
    ASSUME IInv, NEW k \in Key, MarkCommitted(k)
    PROVE  IInv'
<1> DEFINE row == IF Known(k) THEN [rows[k] EXCEPT !.state = "COMMITTED", !.failed = FALSE]
                              ELSE rows[k]
<1>1. TypeOK
  BY DEF IInv
<1>2. /\ rows' = [rows EXCEPT ![k] = row]
      /\ UNCHANGED <<contiguous, lastHlc, seen, gaps, alarm, call, faults>>
  BY DEF MarkCommitted
<1>3. CASE Known(k)
  <2>1. /\ row \in RowType /\ row.state = "COMMITTED" /\ row.sale = rows[k].sale
    BY <1>1, <1>3, MarkedRow
  <2>2. ~IsLive(row)
    BY <2>1 DEF IsLive, Live
  <2> HIDE DEF row
  <2> QED BY <1>2, <1>3, <2>1, <2>2, MarkRowKeeps
<1>4. CASE ~Known(k)
  <2>1. row \in RowType /\ row = rows[k] /\ row.state = "ABSENT"
    BY <1>1, <1>4 DEF TypeOK, Known
  <2> HIDE DEF row
  <2> QED BY <1>2, <2>1, MarkRowKeeps
<1> QED BY <1>3, <1>4

LEMMA MarkFailedKeeps ==
    ASSUME IInv, NEW k \in Key, MarkFailed(k)
    PROVE  IInv'
<1> DEFINE row == IF rows[k].state \in Live THEN [rows[k] EXCEPT !.failed = TRUE] ELSE rows[k]
<1>1. TypeOK
  BY DEF IInv
<1>2. /\ rows' = [rows EXCEPT ![k] = row]
      /\ UNCHANGED <<contiguous, lastHlc, seen, gaps, alarm, call, faults>>
  BY DEF MarkFailed
<1>3. CASE rows[k].state \in Live
  <2>1. Known(k)
    BY <1>3 DEF Known, Live
  <2>2. row \in RowType /\ row.failed = TRUE /\ row.sale = rows[k].sale
    BY <1>1, <1>3, <2>1, MarkedRow
  <2>3. ~IsLive(row)
    BY <2>2 DEF IsLive
  <2> HIDE DEF row
  <2> QED BY <1>2, <2>1, <2>2, <2>3, MarkRowKeeps
<1>4. CASE ~(rows[k].state \in Live)
  <2>1. row \in RowType /\ row = rows[k]
    BY <1>1, <1>4 DEF TypeOK
  <2> HIDE DEF row
  <2> QED BY <1>2, <2>1, MarkRowKeeps DEF Known
<1> QED BY <1>3, <1>4

LEMMA EvictKeeps == IInv /\ Evict => IInv'
<1> SUFFICES ASSUME IInv, Evict PROVE IInv'
  OBVIOUS
<1>1. TypeOK /\ AlarmCoversOutbox /\ NumbersHaveOneOwner
  BY DEF IInv
<1>2. UNCHANGED <<rows, contiguous, lastHlc, seen, gaps>>
  BY DEF Evict, store
<1>3. alarm' = (alarm \/ \E c \in Call : call[c].by = "alarm")
  BY DEF Evict
<1>4. call' = [c \in Call |-> Idle] /\ faults < MaxFaults /\ faults' = faults + 1
  BY DEF Evict
<1>5. call' \in [Call -> CallType] /\ faults' \in 0 .. MaxFaults
  BY <1>1, <1>4, GateAssumption DEF TypeOK, Idle, CallType
<1>6. alarm' \in BOOLEAN
  BY <1>1, <1>3 DEF TypeOK
<1>7. TypeOK'
  BY <1>1, <1>2, <1>5, <1>6 DEF TypeOK
<1>8. AlarmCoversOutbox'
  BY <1>1, <1>2, <1>3 DEF AlarmCoversOutbox
<1>9. NumbersHaveOneOwner'
  BY <1>1, <1>2 DEF NumbersHaveOneOwner, Known
<1> QED BY <1>7, <1>8, <1>9 DEF IInv

LEMMA RecreateKeeps == IInv /\ Recreate => IInv'
<1> SUFFICES ASSUME IInv, Recreate PROVE IInv'
  OBVIOUS
<1>1. /\ rows' = [k \in Key |-> Absent] /\ contiguous' = 0 /\ lastHlc' = 0 /\ seen' = {} /\ gaps' = {}
      /\ alarm' = FALSE /\ call' = [c \in Call |-> Idle] /\ faults < MaxFaults /\ faults' = faults + 1
  BY DEF Recreate
<1>2. rows' \in [Key -> RowType] /\ call' \in [Call -> CallType]
  BY <1>1 DEF RowType, Absent, CallType, Idle
<1>3. \A k \in Key : rows'[k].state = "ABSENT"
  BY <1>1 DEF Absent
<1>4. faults' \in 0 .. MaxFaults
  BY <1>1, GateAssumption DEF IInv, TypeOK
<1>5. TypeOK'
  BY <1>1, <1>2, <1>3, <1>4 DEF TypeOK
<1>6. AlarmCoversOutbox' /\ NumbersHaveOneOwner'
  BY <1>1, <1>3 DEF AlarmCoversOutbox, NumbersHaveOneOwner, IsLive, Live, Known
<1> QED BY <1>5, <1>6 DEF IInv

LEMMA StepHolds == IInv /\ [Next]_vars => IInv'
<1> SUFFICES ASSUME IInv, [Next]_vars PROVE IInv'
  OBVIOUS
<1>1. ASSUME NEW c \in Call, NEW batch \in Batches, NEW cp \in Checkpoint, SubmitBatch(c, batch, cp)
      PROVE  IInv'
  BY <1>1, SubmitKeeps
<1>2. ASSUME NEW c \in Call, NEW chunk \in SUBSET Sale, Send(c, chunk) PROVE IInv'
  BY <1>2, SendKeeps
<1>3. ASSUME NEW c \in Call, Mark(c) PROVE IInv'
  BY <1>3, MarkKeeps
<1>4. ASSUME NEW c \in Call, SendFails(c) PROVE IInv'
  BY <1>4, SendFailsKeeps
<1>5. ASSUME NEW c \in Call, Alarm(c) PROVE IInv'
  BY <1>5, AlarmKeeps
<1>6. ASSUME NEW k \in Key, MarkCommitted(k) \/ MarkFailed(k) PROVE IInv'
  BY <1>6, MarkCommittedKeeps, MarkFailedKeeps
<1>7. CASE Evict \/ Recreate
  BY <1>7, EvictKeeps, RecreateKeeps
<1>8. CASE UNCHANGED vars
  <2>1. UNCHANGED <<rows, contiguous, lastHlc, seen, gaps, alarm, call, faults>>
    BY <1>8 DEF vars
  <2> QED BY <2>1 DEF IInv, TypeOK, AlarmCoversOutbox, NumbersHaveOneOwner, Known
<1> QED BY <1>1, <1>2, <1>3, <1>4, <1>5, <1>6, <1>7, <1>8 DEF Next

LEMMA Invariance == Spec => []IInv
BY InitHolds, StepHolds, PTL DEF Spec

\* Every state of the object's tables, alarm and calls is of its type
\* (idempotency-do.ts, whatever the batches and checkpoints that arrive).
THEOREM GateTypes == Spec => []TypeOK
BY Invariance, PTL DEF IInv

\* The alarm covers every receipt that still has to reach PostgreSQL, whatever
\* calls await the queue, fail or are lost with the object's memory.
THEOREM NoReceiptForgotten == Spec => []AlarmCoversOutbox
BY Invariance, PTL DEF IInv

\* Ahead of the prefix no two accepted sales own one sequence number.
THEOREM OneOwnerPerNumber == Spec => []NumbersHaveOneOwner
BY Invariance, PTL DEF IInv

-----------------------------------------------------------------------------
(* What a step may never do *)

\* What one step may make of one receipt.
RowStep(k) ==
    \/ rows'[k] = rows[k]
    \/ rows'[k].state \in {"ABSENT", "COMMITTED"}
    \/ rows[k].state \in {"ABSENT", "COMMITTED"} /\ rows'[k].state = "ENQUEUE_PENDING"
    \/ IsLive(rows[k])

LEMMA EveryRowStep ==
    ASSUME IInv, [Next]_vars, NEW k \in Key
    PROVE  RowStep(k)
<1> USE DEF RowStep
<1>0. TypeOK
  BY DEF IInv
<1>1. ASSUME NEW c \in Call, NEW batch \in Batches, NEW cp \in Checkpoint, SubmitBatch(c, batch, cp)
      PROVE  RowStep(k)
  <2>1. CASE SubmitRefused(c, batch, cp)
    BY <2>1 DEF SubmitRefused, store
  <2>2. CASE SubmitAccepted(c, batch, cp)
    <3>0. PICK oldRows \in SUBSET CommittedKeys : rows' = RowsAfter(batch, oldRows)
      BY <2>2, Accepted
    <3>1. batch \in SUBSET Sale /\ ~KeyRefused(batch) /\ ~BatchClash(batch)
      BY <2>2, Accepted
    <3>2. \/ rows'[k] = rows[k]
          \/ rows'[k] = Absent
          \/ /\ rows[k].state \in {"ABSENT", "COMMITTED"}
             /\ \E m \in batch : rows'[k] = FreshRow(m)
      <4> HIDE DEF RowStep
      <4> QED BY <1>0, <3>0, <3>1, AcceptedRow
    <3>3. \A m \in batch : FreshRow(m).state = "ENQUEUE_PENDING"
      BY DEF FreshRow
    <3>4. Absent.state = "ABSENT"
      BY DEF Absent
    <3> QED BY <3>2, <3>3, <3>4
  <2> QED BY <1>1, <2>1, <2>2 DEF SubmitBatch
<1>2. ASSUME NEW c \in Call, (\E chunk \in SUBSET Sale : Send(c, chunk)) \/ SendFails(c)
      PROVE  RowStep(k)
  BY <1>2 DEF Send, SendFails, store
<1>3. ASSUME NEW c \in Call, Mark(c) PROVE RowStep(k)
  <2> DEFINE table == MarkQueued(rows, call[c].sent)
  <2>1. PICK old \in SUBSET Key : rows' = table \/ rows' = PruneRows(table, old)
    BY <1>3 DEF Mark, CommittedKeys
  <2>2. /\ table \in [Key -> RowType]
        /\ table[k] = rows[k] \/ IsLive(rows[k])
    BY <1>0, MarkedRows
  <2> HIDE DEF table
  <2>3. rows'[k] = table[k] \/ rows'[k] = Absent
    BY <2>1, <2>2, PrunedRows
  <2> QED BY <2>2, <2>3 DEF Absent
<1>4. ASSUME NEW c \in Call, Alarm(c) PROVE RowStep(k)
  <2>1. PICK old \in SUBSET Key : rows' = rows \/ rows' = PruneRows(rows, old)
    BY <1>4 DEF Alarm, store, CommittedKeys
  <2>2. rows \in [Key -> RowType]
    BY <1>0 DEF TypeOK
  <2>3. rows'[k] = rows[k] \/ rows'[k] = Absent
    BY <2>1, <2>2, PrunedRows
  <2> QED BY <2>3 DEF Absent
<1>5. ASSUME NEW j \in Key, MarkCommitted(j) PROVE RowStep(k)
  <2> DEFINE row == IF Known(j) THEN [rows[j] EXCEPT !.state = "COMMITTED", !.failed = FALSE]
                                ELSE rows[j]
  <2>1. row.state \in {"ABSENT", "COMMITTED"}
    BY <1>0, MarkedRow DEF Known
  <2>2. rows' = [rows EXCEPT ![j] = row] /\ rows \in [Key -> RowType]
    BY <1>0, <1>5 DEF MarkCommitted, TypeOK
  <2> HIDE DEF row
  <2> QED BY <2>1, <2>2
<1>6. ASSUME NEW j \in Key, MarkFailed(j) PROVE RowStep(k)
  <2> DEFINE row == IF rows[j].state \in Live THEN [rows[j] EXCEPT !.failed = TRUE] ELSE rows[j]
  <2>1. row = rows[j] \/ IsLive(rows[j])
    <3> SUFFICES ASSUME rows[j].state \in Live, rows[j].failed # FALSE PROVE row = rows[j]
      BY DEF IsLive
    <3>1. rows[j] \in [state : Live \cup {"COMMITTED"}, sale : Sale, failed : BOOLEAN]
      BY <1>0, RowFields DEF TypeOK, Live
    <3>2. rows[j].failed = TRUE
      BY <3>1
    <3> QED BY <3>1, <3>2
  <2>2. rows' = [rows EXCEPT ![j] = row] /\ rows \in [Key -> RowType]
    BY <1>0, <1>6 DEF MarkFailed, TypeOK
  <2> HIDE DEF row
  <2> QED BY <2>1, <2>2
<1>7. CASE Evict
  BY <1>7 DEF Evict, store
<1>8. CASE Recreate
  BY <1>8 DEF Recreate, Absent
<1>9. CASE UNCHANGED vars
  BY <1>9 DEF vars
<1> QED BY <1>1, <1>2, <1>3, <1>4, <1>5, <1>6, <1>7, <1>8, <1>9 DEF Next

\* A finalized receipt stays so until it is pruned: no mark of a chunk sent
\* before, no late dead letter and no later batch undoes it.
THEOREM NoMarkIsUndone == Spec => FinalizedStays
<1>1. IInv /\ [Next]_vars =>
        [\A k \in Key :
          /\ rows[k].state = "COMMITTED" => rows'[k].state \in {"COMMITTED", "ABSENT", "ENQUEUE_PENDING"}
          /\ rows[k].state \in Live /\ rows[k].failed =>
                rows'[k].state \in {"COMMITTED", "ABSENT"} \/ rows'[k] = rows[k]]_vars
  <2> SUFFICES ASSUME IInv, [Next]_vars, NEW k \in Key
               PROVE  /\ rows[k].state = "COMMITTED" =>
                            rows'[k].state \in {"COMMITTED", "ABSENT", "ENQUEUE_PENDING"}
                      /\ rows[k].state \in Live /\ rows[k].failed =>
                            rows'[k].state \in {"COMMITTED", "ABSENT"} \/ rows'[k] = rows[k]
    OBVIOUS
  <2>1. RowStep(k)
    BY EveryRowStep
  <2> QED BY <2>1 DEF RowStep, IsLive, Live
<1> QED BY <1>1, Invariance, PTL DEF Spec, FinalizedStays

\* Where the checkpoint that comes with a batch lets its transaction start.
LEMMA ReconciledStart ==
    ASSUME TypeOK, NEW cp \in Checkpoint
    PROVE  /\ Reconciled(cp).seq = IF cp.seq > contiguous THEN cp.seq ELSE contiguous
           /\ Reconciled(cp).hlc = IF cp.seq >= contiguous THEN cp.hlc ELSE lastHlc
<1>1. cp.seq \in Nat /\ contiguous \in Nat
  BY GateAssumption DEF CheckpointShape, TypeOK
<1>2. CASE cp.seq > contiguous
  <2>1. Reconciled(cp).seq = cp.seq /\ Reconciled(cp).hlc = cp.hlc
    BY <1>2 DEF Reconciled
  <2> QED BY <1>1, <1>2, <2>1
<1>3. CASE cp.seq = contiguous
  <2>1. Reconciled(cp).seq = contiguous /\ Reconciled(cp).hlc = cp.hlc
    BY <1>1, <1>3 DEF Reconciled, SequenceState
  <2> QED BY <1>1, <1>3, <2>1
<1>4. CASE cp.seq < contiguous
  <2>1. Reconciled(cp).seq = contiguous /\ Reconciled(cp).hlc = lastHlc
    BY <1>1, <1>4 DEF Reconciled, SequenceState
  <2> QED BY <1>1, <1>4, <2>1
<1> QED BY <1>1, <1>2, <1>3, <1>4

LEMMA AcceptTakes ==
    ASSUME IInv, NEW c \in Call, NEW batch \in Batches, NEW cp \in Checkpoint,
           SubmitAccepted(c, batch, cp)
    PROVE  PrefixTakes(batch, cp)
<1> DEFINE base == Reconciled(cp)
           S == SeenAfter(batch, base)
           here == seen \cup Unknown(batch)
           taken == {m \in here : base.seq < m.seq /\ m.seq <= contiguous'}
<1>0. TypeOK
  BY DEF IInv
<1>1. /\ batch \in SUBSET Sale /\ S \subseteq Sale
      /\ contiguous' \in Nat /\ base.seq <= contiguous'
      /\ \A i \in base.seq + 1 .. contiguous' : i \in SeqsOf(S)
      /\ ~BatchClash(batch) /\ ~SequenceReused(batch, base)
  BY Accepted
<1>2. /\ base.seq \in Nat /\ base.hlc \in Nat /\ base.seen \subseteq seen
      /\ \A m \in seen : m.seq > base.seq => m \in base.seen
  BY <1>0, ReconciledType
<1>3. /\ contiguous' + 1 \notin SeqsOf(S)
      /\ lastHlc' \in IF contiguous' = base.seq THEN {base.hlc}
                      ELSE {m.hlc : m \in {x \in S : x.seq = contiguous'}}
      /\ ~ClockRegression(S, base)
  BY DEF SubmitAccepted, PrefixEnd, Refused
<1>4. \A m \in S, n \in S : m.seq = n.seq => m = n
  BY <1>1, AcceptedOnce
<1>5. S = base.seen \cup {m \in Unknown(batch) : m.seq > base.seq}
  BY DEF SeenAfter, Ahead
<1>6. PrefixTakes(batch, cp) <=>
        /\ base.seq <= contiguous'
        /\ base.seq + 1 .. contiguous' \subseteq SeqsOf(taken)
        /\ contiguous' + 1 \notin SeqsOf(here)
        /\ \A m \in taken : m.seq = base.seq + 1 => base.hlc <= m.hlc
        /\ \A m, n \in taken : n.seq = m.seq + 1 => m.hlc <= n.hlc
        /\ \A m \in taken : m.seq = contiguous' => lastHlc' = m.hlc
        /\ taken = {} => lastHlc' = base.hlc
  BY <1>0, ReconciledStart DEF PrefixTakes
<1>7. \A m \in S : m.seq \in Nat /\ m.hlc \in Nat
  BY <1>1, SaleFields
<1> HIDE DEF base, S
\* Beyond the base, what is here is what the transaction has recorded.
<1>8. \A m \in here : base.seq < m.seq => m \in S
  BY <1>2, <1>5
<1>9. \A m \in S : m \in here
  BY <1>2, <1>5
<1>10. base.seq + 1 .. contiguous' \subseteq SeqsOf(taken)
  <2> SUFFICES ASSUME NEW i \in base.seq + 1 .. contiguous' PROVE i \in SeqsOf(taken)
    OBVIOUS
  <2>1. PICK m \in S : m.seq = i
    BY <1>1 DEF SeqsOf
  <2>2. m \in taken
    BY <1>1, <1>2, <1>9, <2>1
  <2> QED BY <2>1, <2>2 DEF SeqsOf
<1>11. contiguous' + 1 \notin SeqsOf(here)
  <2> SUFFICES ASSUME NEW m \in here, m.seq = contiguous' + 1 PROVE FALSE
    BY DEF SeqsOf
  <2>1. m \in S
    BY <1>1, <1>2, <1>8
  <2> QED BY <1>3, <2>1 DEF SeqsOf
<1>12. \A m \in taken : /\ m \in S /\ m.seq > base.seq
                        /\ \A i \in base.seq + 1 .. m.seq : i \in SeqsOf(S)
  <2> TAKE m \in taken
  <2>1. m \in S
    BY <1>8
  <2> QED BY <1>1, <1>2, <1>7, <2>1
<1>13. \A m \in taken : m.seq = base.seq + 1 => base.hlc <= m.hlc
  BY <1>2, <1>3, <1>7, <1>12 DEF ClockRegression
<1>14. \A m, n \in taken : n.seq = m.seq + 1 => m.hlc <= n.hlc
  <2> TAKE m, n \in taken
  <2> HAVE n.seq = m.seq + 1
  <2>1. m \in S /\ n \in S /\ m.seq = n.seq - 1
    BY <1>7, <1>12
  <2> QED BY <1>3, <1>7, <1>12, <2>1 DEF ClockRegression
<1>15. \A m \in taken : m.seq = contiguous' => lastHlc' = m.hlc
  <2> TAKE m \in taken
  <2> HAVE m.seq = contiguous'
  <2>1. m \in S /\ contiguous' # base.seq
    BY <1>2, <1>7, <1>12
  <2> QED BY <1>3, <1>4, <2>1
<1>16. taken = {} => lastHlc' = base.hlc
  <2> HAVE taken = {}
  <2>1. SeqsOf(taken) = {}
    BY DEF SeqsOf
  <2>2. contiguous' \notin base.seq + 1 .. contiguous'
    BY <1>10, <2>1
  <2>3. contiguous' = base.seq
    BY <1>1, <1>2, <2>2
  <2> QED BY <1>3, <2>3
<1> QED BY <1>1, <1>6, <1>10, <1>11, <1>13, <1>14, <1>15, <1>16 DEF base

\* Every batch that is accepted moves the prefix from the checkpoint it came with,
\* over numbers that are here and clocks that do not run backwards, as far as they
\* reach (idempotency-do.ts, submitBatch); nothing but a loss of the storage and
\* such a batch moves it.
THEOREM PrefixIsInOrder == Spec => PrefixAdvances
<1> DEFINE Moved == contiguous' # contiguous =>
                      Recreate \/ \E c \in Call, batch \in Batches, cp \in Checkpoint :
                                     SubmitBatch(c, batch, cp)
           Taken == \A c \in Call, batch \in Batches, cp \in Checkpoint :
                      SubmitAccepted(c, batch, cp) => PrefixTakes(batch, cp)
           Stated == \A c \in {d \in Call : call[d] = Idle}, batch \in Batches, cp \in Checkpoint :
                       PrefixTakes(batch, cp) \/ ~SubmitAccepted(c, batch, cp)
<1>1. IInv /\ [Next]_vars => [Moved /\ Stated]_vars
  <2> SUFFICES ASSUME IInv, Next PROVE Moved /\ Stated
    OBVIOUS
  <2>1. Taken
    BY AcceptTakes
  <2>2. Moved
    BY DEF Next, Send, Mark, SendFails, Alarm, MarkCommitted, MarkFailed, Evict, store
  <2>3. Stated
    BY <2>1
  <2> QED BY <2>2, <2>3
<1> QED BY <1>1, Invariance, PTL DEF Spec, PrefixAdvances

-----------------------------------------------------------------------------
(* The gaps.  GapsCoverMissing is not inductive: a number that arrives opens a *)
(* gap only above the highest one seen, and only if the table has no row with  *)
(* the same ends.  So the gaps must end below a number that has been seen, and *)
(* the closed ones, which retention may keep for long, inside the prefix.      *)

HolesCovered(c, S, G) ==
    \A m \in S : \A n \in c + 1 .. m.seq :
        n \in SeqsOf(S) \/ \E g \in G : g.open /\ g.from <= n /\ n <= g.to

Apart(g, h) == h.to < g.from \/ g.to < h.from

OpenAhead(c, G) ==
    \A g \in G : g.open =>
        /\ c < g.from /\ g.from <= g.to
        /\ \A h \in G : h.open /\ h # g => Apart(g, h)

OpenBelowSeen(S, G) == \A g \in G : g.open => \E m \in S : g.to < m.seq

ClosedBehind(c, G) == \A g \in G : ~g.open => g.to <= c

GapState(c, S, G) ==
    HolesCovered(c, S, G) /\ OpenAhead(c, G) /\ OpenBelowSeen(S, G) /\ ClosedBehind(c, G)

GapInv == GapState(contiguous, seen, gaps)

LEMMA SeqNatural == ASSUME NEW S \in SUBSET Sale PROVE \A m \in S : m.seq \in Nat
BY SaleFields

LEMMA GapFields ==
    ASSUME NEW G \in SUBSET Gap
    PROVE  \A g \in G : g.from \in Nat /\ g.to \in Nat /\ g.open \in BOOLEAN
BY DEF Gap

\* Numbers inside the prefix, and closed gaps, may go.
LEMMA PruneKeepsGaps ==
    ASSUME NEW c \in Nat, NEW S \in SUBSET Sale, NEW G \in SUBSET Gap, NEW old, GapState(c, S, G)
    PROVE  GapState(c, PruneSeen(S, c), PruneGaps(G, old))
<1> DEFINE T == PruneSeen(S, c)
           H == PruneGaps(G, old)
<1>0. /\ \A m \in S : m.seq \in Nat
      /\ \A g \in G : g.from \in Nat /\ g.to \in Nat /\ g.open \in BOOLEAN
  BY SeqNatural, GapFields
<1>1. /\ T \subseteq S /\ \A m \in S : m.seq > c => m \in T
      /\ H \subseteq G /\ \A g \in G : g.open => g \in H
  BY DEF PruneSeen, PruneGaps
<1>2. HolesCovered(c, S, G) /\ OpenAhead(c, G) /\ OpenBelowSeen(S, G) /\ ClosedBehind(c, G)
  BY DEF GapState
<1> HIDE DEF T, H
<1>3. HolesCovered(c, T, H)
  <2> SUFFICES ASSUME NEW m \in T, NEW n \in c + 1 .. m.seq, n \notin SeqsOf(T)
               PROVE  \E g \in H : g.open /\ g.from <= n /\ n <= g.to
    BY DEF HolesCovered
  <2>1. n \in Int /\ n > c /\ m \in S
    BY <1>0, <1>1
  <2>2. n \notin SeqsOf(S)
    BY <1>0, <1>1, <2>1 DEF SeqsOf
  <2>3. \E g \in G : g.open /\ g.from <= n /\ n <= g.to
    BY <1>2, <2>1, <2>2 DEF HolesCovered
  <2> QED BY <1>1, <2>3
<1>4. OpenAhead(c, H) /\ ClosedBehind(c, H)
  BY <1>1, <1>2 DEF OpenAhead, ClosedBehind
<1>5. OpenBelowSeen(T, H)
  <2> SUFFICES ASSUME NEW g \in H, g.open PROVE \E m \in T : g.to < m.seq
    BY DEF OpenBelowSeen
  <2>1. g \in G /\ c < g.from /\ g.from <= g.to
    BY <1>1, <1>2 DEF OpenAhead
  <2>2. PICK m \in S : g.to < m.seq
    BY <1>2, <2>1 DEF OpenBelowSeen
  <2>3. m.seq > c
    BY <1>0, <2>1, <2>2
  <2> QED BY <1>1, <2>2, <2>3
<1> QED BY <1>3, <1>4, <1>5 DEF GapState, T, H

\* What a longer prefix makes of the gaps: those inside it are closed, the one
\* it cuts keeps its rest, the others stay.
Advanced(G, H, c) ==
    /\ \A g \in G : g.open /\ g.from > c => g \in H
    /\ \A g \in G : Straddles(g, c) => [from |-> c + 1, to |-> g.to, open |-> TRUE] \in H
    /\ \A h \in H : h.open =>
          \/ h \in G /\ h.from > c
          \/ \E g \in G : Straddles(g, c) /\ h = [from |-> c + 1, to |-> g.to, open |-> TRUE]
    /\ \A h \in H : ~h.open => h \in G \/ h.to <= c

LEMMA AdvanceKeepsGaps ==
    ASSUME NEW b \in Nat, NEW c \in Nat, b <= c, NEW S \in SUBSET Sale,
           NEW G \in SUBSET Gap, NEW H \in SUBSET Gap, GapState(b, S, G), Advanced(G, H, c)
    PROVE  GapState(c, PruneSeen(S, c), H)
<1> DEFINE T == PruneSeen(S, c)
           Rest(g) == [from |-> c + 1, to |-> g.to, open |-> TRUE]
<1>0. /\ \A m \in S : m.seq \in Nat
      /\ \A g \in G : g.from \in Nat /\ g.to \in Nat /\ g.open \in BOOLEAN
      /\ \A g \in H : g.from \in Nat /\ g.to \in Nat /\ g.open \in BOOLEAN
  BY SeqNatural, GapFields
<1>1. T \subseteq S /\ \A m \in S : m.seq > c => m \in T
  BY DEF PruneSeen
<1>2. HolesCovered(b, S, G) /\ OpenAhead(b, G) /\ OpenBelowSeen(S, G) /\ ClosedBehind(b, G)
  BY DEF GapState
<1>3. \A g : Rest(g).from = c + 1 /\ Rest(g).to = g.to /\ Rest(g).open
  OBVIOUS
<1>4. /\ \A g \in G : g.open /\ g.from > c => g \in H
      /\ \A g \in G : Straddles(g, c) => Rest(g) \in H
      /\ \A h \in H : h.open => (h \in G /\ h.from > c) \/ \E g \in G : Straddles(g, c) /\ h = Rest(g)
      /\ \A h \in H : ~h.open => h \in G \/ h.to <= c
  BY DEF Advanced
<1> HIDE DEF T, Rest
<1>5. HolesCovered(c, T, H)
  <2> SUFFICES ASSUME NEW m \in T, NEW n \in c + 1 .. m.seq, n \notin SeqsOf(T)
               PROVE  \E g \in H : g.open /\ g.from <= n /\ n <= g.to
    BY DEF HolesCovered
  <2>1. n \in Int /\ n > c /\ m \in S /\ n \in b + 1 .. m.seq
    BY <1>0, <1>1
  <2>2. n \notin SeqsOf(S)
    BY <1>0, <1>1, <2>1 DEF SeqsOf
  <2>3. PICK g \in G : g.open /\ g.from <= n /\ n <= g.to
    BY <1>2, <2>1, <2>2 DEF HolesCovered
  <2>4. CASE g.from > c
    BY <1>4, <2>3, <2>4
  <2>5. CASE ~(g.from > c)
    <3>1. Straddles(g, c)
      BY <1>0, <2>1, <2>3, <2>5 DEF Straddles
    <3>2. Rest(g) \in H /\ Rest(g).open /\ Rest(g).from <= n /\ n <= Rest(g).to
      BY <1>3, <1>4, <2>1, <2>3, <3>1
    <3> QED BY <3>2
  <2> QED BY <2>4, <2>5
<1>6. ASSUME NEW h \in H, h.open
      PROVE  /\ c < h.from /\ h.from <= h.to
             /\ \E g \in G : /\ g.open /\ g.to = h.to /\ g.from <= h.from
                             /\ h = g \/ (Straddles(g, c) /\ h = Rest(g))
  <2>1. CASE h \in G /\ h.from > c
    BY <1>2, <1>6, <2>1, <1>0 DEF OpenAhead
  <2>2. ASSUME NEW g \in G, Straddles(g, c), h = Rest(g)
        PROVE  /\ c < h.from /\ h.from <= h.to
               /\ g.open /\ g.to = h.to /\ g.from <= h.from
    BY <1>0, <1>3, <2>2 DEF Straddles
  <2> QED BY <1>4, <1>6, <2>1, <2>2
<1>7. OpenAhead(c, H)
  <2> SUFFICES ASSUME NEW g \in H, NEW h \in H, g.open, h.open, h # g PROVE Apart(g, h)
    BY <1>6 DEF OpenAhead
  <2>1. PICK x \in G : /\ x.open /\ x.to = g.to /\ x.from <= g.from
                       /\ g = x \/ (Straddles(x, c) /\ g = Rest(x))
    BY <1>6
  <2>2. PICK y \in G : /\ y.open /\ y.to = h.to /\ y.from <= h.from
                       /\ h = y \/ (Straddles(y, c) /\ h = Rest(y))
    BY <1>6
  <2>3. x # y
    <3> SUFFICES ASSUME x = y PROVE FALSE
      OBVIOUS
    <3>1. c < g.from /\ c < h.from
      BY <1>6
    <3>2. CASE g = x
      <4>1. h = Rest(x) /\ Straddles(x, c)
        BY <2>2, <3>2
      <4> QED BY <1>0, <3>1, <3>2, <4>1 DEF Straddles
    <3>3. CASE Straddles(x, c) /\ g = Rest(x)
      <4>1. h = x
        BY <2>2, <3>3
      <4> QED BY <1>0, <3>1, <3>3, <4>1 DEF Straddles
    <3> QED BY <2>1, <3>2, <3>3
  <2>4. Apart(x, y)
    BY <1>2, <2>1, <2>2, <2>3 DEF OpenAhead
  <2> QED BY <1>0, <2>1, <2>2, <2>4 DEF Apart
<1>8. OpenBelowSeen(T, H)
  <2> SUFFICES ASSUME NEW h \in H, h.open PROVE \E m \in T : h.to < m.seq
    BY DEF OpenBelowSeen
  <2>1. c < h.from /\ h.from <= h.to
    BY <1>6
  <2>2. PICK g \in G : g.open /\ g.to = h.to
    BY <1>6
  <2>3. PICK m \in S : g.to < m.seq
    BY <1>2, <2>2 DEF OpenBelowSeen
  <2>4. m.seq > c
    BY <1>0, <2>1, <2>2, <2>3
  <2> QED BY <1>1, <2>2, <2>3, <2>4
<1>9. ClosedBehind(c, H)
  BY <1>0, <1>2, <1>4 DEF ClosedBehind
<1> QED BY <1>5, <1>7, <1>8, <1>9 DEF GapState, T

\* trimResolvedGaps
LEMMA TrimAdvances ==
    ASSUME NEW b \in Nat, NEW c \in Nat, b <= c, NEW G \in SUBSET Gap,
           OpenAhead(b, G), ClosedBehind(b, G)
    PROVE  Advanced(G, TrimGaps(G, c), c)
<1> DEFINE rest == {g \in G : ~Straddles(g, c) /\ ~Resolved(g, c)}
           Rest(g) == [from |-> c + 1, to |-> g.to, open |-> TRUE]
           cut == {h \in G : Straddles(h, c)}
           shut == {[g EXCEPT !.open = FALSE] : g \in {h \in G : Resolved(h, c)}}
           added == UNION {AddGap(rest, c + 1, g.to) : g \in cut}
<1>0. \A g \in G : g.from \in Nat /\ g.to \in Nat /\ g.open \in BOOLEAN
  BY GapFields
<1>1. TrimGaps(G, c) = rest \cup shut \cup added
  BY DEF TrimGaps
<1>2. \A h \in shut : h.open = FALSE /\ h.to <= c
  BY DEF Resolved, Gap
<1>3. \A h \in added : \E g \in cut : h = Rest(g)
  BY DEF AddGap
<1>4. \A g \in cut : Rest(g) \in rest \cup added
  <2> SUFFICES ASSUME NEW g \in cut PROVE Rest(g) \in rest \cup added
    OBVIOUS
  <2>1. CASE \E h \in rest : h.from = c + 1 /\ h.to = g.to
    <3>1. PICK h \in rest : h.from = c + 1 /\ h.to = g.to
      BY <2>1
    <3>2. h.to > c /\ h \in G
      BY <3>1 DEF Straddles
    <3>3. h.open
      BY <1>0, <3>2 DEF ClosedBehind
    <3>4. h = Rest(g)
      <4>1. h \in Gap
        BY <3>2
      <4> QED BY <3>1, <3>3, <4>1, <1>0, <3>2 DEF Gap
    <3> QED BY <3>4
  <2>2. CASE ~\E h \in rest : h.from = c + 1 /\ h.to = g.to
    <3>1. AddGap(rest, c + 1, g.to) = {Rest(g)}
      BY <2>2 DEF AddGap
    <3> QED BY <3>1
  <2> QED BY <2>1, <2>2
<1>5. \A g \in G : g.open /\ g.from > c => g \in rest
  BY <1>0 DEF OpenAhead, Straddles, Resolved
<1>6. \A h \in rest : h \in G /\ (h.open => h.from > c)
  BY <1>0 DEF Straddles, Resolved
<1>7. \A g : Straddles(g, c) /\ g \in G <=> g \in cut
  OBVIOUS
<1> HIDE DEF rest, shut, added, cut
<1>8. \A h \in TrimGaps(G, c) : h.open =>
        (h \in G /\ h.from > c) \/ \E g \in G : Straddles(g, c) /\ h = Rest(g)
  BY <1>1, <1>2, <1>3, <1>6, <1>7
<1>9. \A h \in TrimGaps(G, c) : ~h.open => h \in G \/ h.to <= c
  BY <1>1, <1>2, <1>3, <1>6
<1>10. /\ \A g \in G : g.open /\ g.from > c => g \in TrimGaps(G, c)
       /\ \A g \in G : Straddles(g, c) => Rest(g) \in TrimGaps(G, c)
  BY <1>1, <1>4, <1>5, <1>7
<1> QED BY <1>8, <1>9, <1>10 DEF Advanced

LEMMA GapRecord ==
    ASSUME NEW g \in Gap
    PROVE  g = [from |-> g.from, to |-> g.to, open |-> g.open]
BY DEF Gap

LEMMA CutGap ==
    ASSUME NEW g \in Gap, g.open, NEW n \in Nat
    PROVE  [g EXCEPT !.from = n] = [from |-> n, to |-> g.to, open |-> TRUE]
<1> DEFINE h == [g EXCEPT !.from = n]
<1>1. h \in Gap
  BY ChangedGaps
<1>2. DOMAIN g = {"from", "to", "open"}
  BY DEF Gap
<1>3. h.from = n /\ h.to = g.to /\ h.open = g.open
  BY <1>2
<1>4. g.open = TRUE
  BY DEF Gap
<1> HIDE DEF h
<1>5. h = [from |-> n, to |-> g.to, open |-> TRUE]
  BY <1>1, <1>3, <1>4, GapRecord
<1> QED BY <1>5 DEF h

\* reconcileOriginCheckpoint
LEMMA ReconcileAdvances ==
    ASSUME TypeOK, GapInv, NEW cp \in Checkpoint
    PROVE  Advanced(gaps, Reconciled(cp).gaps, Reconciled(cp).seq)
<1>0. contiguous \in Nat /\ gaps \in SUBSET Gap /\ cp.seq \in Nat
  BY GateAssumption DEF TypeOK, CheckpointShape
<1>1. CASE cp.seq > contiguous
  <2> DEFINE Rest(g) == [from |-> cp.seq + 1, to |-> g.to, open |-> TRUE]
             shut == {[g EXCEPT !.open = FALSE] : g \in {h \in gaps : Resolved(h, cp.seq)}}
             cut == {[g EXCEPT !.from = cp.seq + 1] : g \in {h \in gaps : Straddles(h, cp.seq)}}
             H == {g \in gaps : ~g.open \/ g.from > cp.seq} \cup shut \cup cut
  <2>1. Reconciled(cp).seq = cp.seq /\ Reconciled(cp).gaps = H
    BY <1>1 DEF Reconciled
  <2>2. \A h \in shut : h.open = FALSE /\ h.to <= cp.seq
    BY <1>0 DEF Resolved, Gap
  <2>3. \A g \in gaps : Straddles(g, cp.seq) => [g EXCEPT !.from = cp.seq + 1] = Rest(g)
    <3> SUFFICES ASSUME NEW g \in gaps, Straddles(g, cp.seq)
                 PROVE  [g EXCEPT !.from = cp.seq + 1] = Rest(g)
      OBVIOUS
    <3>1. g \in Gap /\ g.open /\ cp.seq + 1 \in Nat
      BY <1>0 DEF Straddles
    <3> QED BY <3>1, CutGap
  <2>4. \A h \in cut : \E g \in gaps : Straddles(g, cp.seq) /\ h = Rest(g)
    BY <2>3
  <2>5. \A g \in gaps : Straddles(g, cp.seq) => Rest(g) \in cut
    BY <2>3
  <2>6. \A g : Rest(g).open
    OBVIOUS
  <2>7. Advanced(gaps, H, cp.seq)
    <3>1. \A h \in H : h.open =>
             (h \in gaps /\ h.from > cp.seq) \/ \E g \in gaps : Straddles(g, cp.seq) /\ h = Rest(g)
      <4> HIDE DEF shut, cut, Rest
      <4> QED BY <2>2, <2>4
    <3>2. \A h \in H : ~h.open => h \in gaps \/ h.to <= cp.seq
      <4> HIDE DEF shut, cut, Rest
      <4> QED BY <2>2, <2>4, <2>6
    <3>3. \A g \in gaps : g.open /\ g.from > cp.seq => g \in H
      OBVIOUS
    <3>4. \A g \in gaps : Straddles(g, cp.seq) => Rest(g) \in H
      BY <2>5
    <3> HIDE DEF H
    <3> QED BY <3>1, <3>2, <3>3, <3>4 DEF Advanced
  <2> HIDE DEF H
  <2> QED BY <2>1, <2>7
<1>2. CASE ~(cp.seq > contiguous)
  <2>1. Reconciled(cp).seq = contiguous /\ Reconciled(cp).gaps = gaps
    BY <1>2 DEF Reconciled, SequenceState
  <2>2. \A g \in gaps : g.from \in Nat /\ (g.open => contiguous < g.from)
    BY <1>0, GapFields DEF GapInv, GapState, OpenAhead
  <2>3. \A g \in gaps : ~Straddles(g, contiguous)
    BY <1>0, <2>2 DEF Straddles
  <2>4. Advanced(gaps, gaps, contiguous)
    BY <1>0, <2>2, <2>3 DEF Advanced
  <2> QED BY <2>1, <2>4
<1> QED BY <1>1, <1>2

LEMMA ReconcileKeepsGaps ==
    ASSUME TypeOK, GapInv, NEW cp \in Checkpoint
    PROVE  GapState(Reconciled(cp).seq, Reconciled(cp).seen, Reconciled(cp).gaps)
<1>0. /\ contiguous \in Nat /\ gaps \in SUBSET Gap /\ seen \in SUBSET Sale
      /\ cp.seq \in Nat /\ Reconciled(cp).gaps \in SUBSET Gap
  BY GateAssumption, ReconciledType DEF TypeOK, CheckpointShape
<1>1. CASE cp.seq > contiguous
  <2>1. Reconciled(cp).seq = cp.seq /\ Reconciled(cp).seen = PruneSeen(seen, cp.seq)
    BY <1>1 DEF Reconciled
  <2>2. Advanced(gaps, Reconciled(cp).gaps, cp.seq)
    BY <2>1, ReconcileAdvances
  <2>3. GapState(contiguous, seen, gaps) /\ contiguous <= cp.seq
    BY <1>0, <1>1 DEF GapInv
  <2>4. GapState(cp.seq, PruneSeen(seen, cp.seq), Reconciled(cp).gaps)
    BY <1>0, <2>2, <2>3, AdvanceKeepsGaps
  <2> QED BY <2>1, <2>4
<1>2. CASE ~(cp.seq > contiguous)
  <2>1. /\ Reconciled(cp).seq = contiguous /\ Reconciled(cp).seen = seen
        /\ Reconciled(cp).gaps = gaps
    BY <1>2 DEF Reconciled, SequenceState
  <2> QED BY <2>1 DEF GapInv
<1> QED BY <1>1, <1>2

-----------------------------------------------------------------------------
(* The gaps a batch leaves *)

\* Each of them lies above every number seen before, up to the number that left it.
LEMMA NewGapBounds ==
    ASSUME NEW batch \in SUBSET Sale, NEW base, base.seq \in Nat, base.seen \subseteq Sale,
           NEW g \in NewGaps(batch, base)
    PROVE  \E m \in Ahead(batch, base), h \in Nat :
              /\ g = [from |-> h + 1, to |-> m.seq - 1, open |-> TRUE]
              /\ h \in ObservedHigh(m, batch, base) /\ m.seq > h + 1
              /\ m \in Sale
<1>1. PICK m \in Ahead(batch, base) :
        g \in UNION {AddGap(base.gaps, h + 1, m.seq - 1) :
                        h \in {o \in ObservedHigh(m, batch, base) : m.seq > o + 1}}
  BY DEF NewGaps
<1>2. PICK h \in ObservedHigh(m, batch, base) :
        m.seq > h + 1 /\ g \in AddGap(base.gaps, h + 1, m.seq - 1)
  BY <1>1
<1>3. m \in Sale /\ \A x \in Ahead(batch, base) : x \in Sale
  BY DEF Ahead, Unknown
<1>4. h \in Nat
  <2>1. h \in Below(m, batch, base)
    BY DEF ObservedHigh
  <2> QED BY <1>3, <2>1, SaleFields DEF Below, SeqsOf
<1>5. g = [from |-> h + 1, to |-> m.seq - 1, open |-> TRUE]
  BY <1>2 DEF AddGap
<1> QED BY <1>2, <1>3, <1>4, <1>5

\* A gap that a batch leaves is ahead of the prefix, above every number seen before
\* and every lower number of the batch, and ends below the number that left it.
LEMMA NewGapAbove ==
    ASSUME NEW batch \in SUBSET Sale, NEW base, base.seq \in Nat, base.seen \subseteq Sale,
           NEW g \in NewGaps(batch, base)
    PROVE  /\ g.open /\ base.seq < g.from /\ g.from <= g.to
           /\ \A x \in base.seen : x.seq < g.from
           /\ \E m \in Ahead(batch, base) :
                 /\ g.to = m.seq - 1
                 /\ \A x \in Ahead(batch, base) : x.seq < m.seq => x.seq < g.from
                 /\ \E h \in ObservedHigh(m, batch, base) : g.from = h + 1
                 /\ g = [from |-> g.from, to |-> m.seq - 1, open |-> TRUE]
<1> DEFINE A == Ahead(batch, base)
<1>1. PICK m \in A, h \in Nat :
            /\ g = [from |-> h + 1, to |-> m.seq - 1, open |-> TRUE]
            /\ h \in ObservedHigh(m, batch, base) /\ m.seq > h + 1
            /\ m \in Sale
  BY NewGapBounds
<1>2. \A n \in Below(m, batch, base) : n <= h
  BY <1>1 DEF ObservedHigh
<1>3. g.from = h + 1 /\ g.to = m.seq - 1 /\ g.open
  BY <1>1
<1>4. /\ base.seq \in Below(m, batch, base)
      /\ \A x \in base.seen : x.seq \in Below(m, batch, base)
      /\ \A x \in A : x.seq < m.seq => x.seq \in Below(m, batch, base)
  BY DEF Below, SeqsOf
<1>5. m.seq \in Nat /\ (\A x \in base.seen : x.seq \in Nat) /\ \A x \in A : x.seq \in Nat
  BY <1>1, SaleFields DEF Ahead, Unknown
<1> HIDE DEF A
<1>6. base.seq < g.from /\ g.from <= g.to
  BY <1>1, <1>2, <1>3, <1>4, <1>5
<1>7. \A x \in base.seen : x.seq < g.from
  BY <1>2, <1>3, <1>4, <1>5
<1>8. \A x \in A : x.seq < m.seq => x.seq < g.from
  BY <1>2, <1>3, <1>4, <1>5
<1> QED BY <1>1, <1>3, <1>6, <1>7, <1>8 DEF A

LEMMA NewGapsKeepGaps ==
    ASSUME NEW batch \in SUBSET Sale, NEW base, base.seq \in Nat, base.seen \subseteq Sale,
           base.gaps \subseteq Gap, GapState(base.seq, base.seen, base.gaps)
    PROVE  GapState(base.seq, SeenAfter(batch, base), base.gaps \cup NewGaps(batch, base))
<1> DEFINE A == Ahead(batch, base)
           S == SeenAfter(batch, base)
           N == NewGaps(batch, base)
           G == base.gaps
           c == base.seq
<1>0. /\ A \in SUBSET Sale /\ S = base.seen \cup A /\ S \in SUBSET Sale
      /\ c \in Nat
      /\ \A m \in A : m.seq > c
      /\ \A m \in S : m.seq \in Nat
  <2>1. A \in SUBSET Sale /\ S = base.seen \cup A /\ \A m \in A : m.seq > c
    BY DEF Ahead, Unknown, SeenAfter
  <2> QED BY <2>1, SaleFields
<1>1. /\ \A g \in G : g.from \in Nat /\ g.to \in Nat /\ g.open \in BOOLEAN
      /\ N \subseteq Gap
      /\ \A g \in N : g.from \in Nat /\ g.to \in Nat /\ g.open \in BOOLEAN
  <2>1. N \subseteq Gap
    BY NewGapsType
  <2> QED BY <2>1, GapFields
<1>2. /\ HolesCovered(c, base.seen, G) /\ OpenAhead(c, G) /\ OpenBelowSeen(base.seen, G)
      /\ ClosedBehind(c, G)
  BY DEF GapState
<1>3. \A m : /\ c \in Below(m, batch, base)
             /\ \A x \in base.seen : x.seq \in Below(m, batch, base)
             /\ \A x \in A : x.seq < m.seq => x.seq \in Below(m, batch, base)
  BY DEF Below, SeqsOf
<1>4. ASSUME NEW g \in N
      PROVE  /\ g.open /\ c < g.from /\ g.from <= g.to
             /\ \A x \in base.seen : x.seq < g.from
             /\ \E m \in A : /\ g.to = m.seq - 1
                             /\ \A x \in A : x.seq < m.seq => x.seq < g.from
                             /\ \E h \in ObservedHigh(m, batch, base) : g.from = h + 1
                             /\ g = [from |-> g.from, to |-> m.seq - 1, open |-> TRUE]
  BY <1>4, NewGapAbove
<1>5. ASSUME NEW m \in A, NEW h \in ObservedHigh(m, batch, base), m.seq > h + 1, h \in Nat
      PROVE  \E g \in G \cup N : g.from = h + 1 /\ g.to = m.seq - 1 /\ g.open
  <2>1. CASE \E g \in G : g.from = h + 1 /\ g.to = m.seq - 1
    <3>1. PICK g \in G : g.from = h + 1 /\ g.to = m.seq - 1
      BY <2>1
    <3>2. c <= h
      BY <1>3, <1>5 DEF ObservedHigh
    <3>3. g.to > c
      BY <1>0, <1>5, <3>1, <3>2
    <3>4. g.open
      BY <1>0, <1>1, <1>2, <3>3 DEF ClosedBehind
    <3> QED BY <3>1, <3>4
  <2>2. CASE ~\E g \in G : g.from = h + 1 /\ g.to = m.seq - 1
    <3> DEFINE g == [from |-> h + 1, to |-> m.seq - 1, open |-> TRUE]
    <3>1. AddGap(G, h + 1, m.seq - 1) = {g}
      BY <2>2 DEF AddGap
    <3>2. AddGap(base.gaps, h + 1, m.seq - 1) \subseteq N
      BY <1>5 DEF NewGaps
    <3>3. g \in N
      <4> HIDE DEF g, N
      <4> QED BY <3>1, <3>2
    <3>4. g.from = h + 1 /\ g.to = m.seq - 1 /\ g.open
      OBVIOUS
    <3> HIDE DEF g, N
    <3> QED BY <3>3, <3>4
  <2> QED BY <2>1, <2>2
<1>6. HolesCovered(c, S, G \cup N)
  <2> SUFFICES ASSUME NEW m \in S, NEW n \in c + 1 .. m.seq, n \notin SeqsOf(S)
               PROVE  \E g \in G \cup N : g.open /\ g.from <= n /\ n <= g.to
    BY DEF HolesCovered
  <2>0. /\ n \in Nat /\ n > c
        /\ \A x \in S : x.seq # n
    BY <1>0 DEF SeqsOf
  <2>1. CASE \E x \in base.seen : x.seq > n
    <3>1. PICK x \in base.seen : x.seq > n
      BY <2>1
    <3>2. n \in c + 1 .. x.seq /\ n \notin SeqsOf(base.seen)
      BY <1>0, <2>0, <3>1 DEF SeqsOf
    <3> QED BY <1>2, <3>2 DEF HolesCovered
  <2>2. CASE \A x \in base.seen : ~(x.seq > n)
    <3>1. m \in A /\ m.seq > n /\ m.seq \in Nat
      BY <1>0, <2>0, <2>2
    <3> DEFINE Q == {x.seq : x \in {y \in A : y.seq > n /\ y.seq <= m.seq}}
    <3>2. Q \in SUBSET Nat /\ Q # {} /\ IsFiniteSet(Q)
      <4>1. Q \subseteq 0 .. m.seq
        BY <1>0, <3>1
      <4>2. IsFiniteSet(0 .. m.seq)
        BY <3>1, FS_Interval
      <4>3. m.seq \in Q
        BY <3>1
      <4>4. 0 .. m.seq \subseteq Nat
        OBVIOUS
      <4> HIDE DEF Q
      <4>5. IsFiniteSet(Q)
        BY <4>1, <4>2, FS_Subset
      <4> QED BY <4>1, <4>3, <4>4, <4>5
    <3>3. PICK q \in Q : \A r \in Q : q <= r
      <4> HIDE DEF Q
      <4> QED BY <3>2, Extremes
    <3>4. PICK x \in A : /\ x.seq > n
                         /\ \A y \in A : y.seq > n => x.seq <= y.seq
      <4>1. PICK x \in A : x.seq > n /\ x.seq <= m.seq /\ x.seq = q
        OBVIOUS
      <4>2. ASSUME NEW y \in A, y.seq > n PROVE x.seq <= y.seq
        <5>1. CASE y.seq <= m.seq
          BY <3>3, <4>1, <4>2, <5>1
        <5>2. CASE ~(y.seq <= m.seq)
          BY <1>0, <3>1, <4>1, <5>2
        <5> QED BY <5>1, <5>2
      <4> QED BY <4>1, <4>2
    <3> DEFINE B == Below(x, batch, base)
    <3>5. \A k \in B : k \in Nat /\ k < n
      <4>1. ASSUME NEW y \in base.seen PROVE y.seq \in Nat /\ y.seq < n
        BY <1>0, <2>0, <2>2
      <4>2. ASSUME NEW y \in A, y.seq < x.seq PROVE y.seq \in Nat /\ y.seq < n
        BY <1>0, <2>0, <3>4, <4>2
      <4> QED BY <1>0, <2>0, <4>1, <4>2 DEF Below, SeqsOf
    <3>6. B \in SUBSET Nat /\ B # {} /\ IsFiniteSet(B)
      <4>1. B \subseteq 0 .. n
        BY <2>0, <3>5
      <4>2. IsFiniteSet(0 .. n)
        BY <2>0, FS_Interval
      <4> QED BY <1>3, <3>5, <4>1, <4>2, FS_Subset
    <3>7. PICK h \in B : \A k \in B : k <= h
      BY <3>6, Extremes
    <3>8. h \in Nat /\ h < n /\ h \in ObservedHigh(x, batch, base)
      BY <3>5, <3>7 DEF ObservedHigh
    <3>9. x.seq > h + 1 /\ x.seq \in Nat
      BY <1>0, <2>0, <3>4, <3>8
    <3>10. PICK g \in G \cup N : g.from = h + 1 /\ g.to = x.seq - 1 /\ g.open
      BY <1>5, <3>8, <3>9
    <3> QED BY <2>0, <3>4, <3>8, <3>9, <3>10
  <2> QED BY <2>1, <2>2
<1>7. OpenAhead(c, G \cup N)
  <2>1. ASSUME NEW g \in G \cup N, g.open PROVE c < g.from /\ g.from <= g.to
    BY <1>2, <1>4, <2>1 DEF OpenAhead
  <2>2. ASSUME NEW g \in G, NEW h \in N, g.open PROVE Apart(g, h) /\ Apart(h, g)
    <3>1. PICK x \in base.seen : g.to < x.seq
      BY <1>2, <2>2 DEF OpenBelowSeen
    <3>2. x.seq < h.from /\ x.seq \in Nat
      BY <1>0, <1>4
    <3>3. g.to < h.from
      BY <1>1, <3>1, <3>2
    <3> QED BY <3>3 DEF Apart
  <2>3. ASSUME NEW g \in N, NEW h \in N, h # g PROVE Apart(g, h)
    <3>1. PICK m \in A : /\ g.to = m.seq - 1
                         /\ \A x \in A : x.seq < m.seq => x.seq < g.from
                         /\ \E k \in ObservedHigh(m, batch, base) : g.from = k + 1
                         /\ g = [from |-> g.from, to |-> m.seq - 1, open |-> TRUE]
      BY <1>4
    <3>2. PICK n \in A : /\ h.to = n.seq - 1
                         /\ \A x \in A : x.seq < n.seq => x.seq < h.from
                         /\ \E k \in ObservedHigh(n, batch, base) : h.from = k + 1
                         /\ h = [from |-> h.from, to |-> n.seq - 1, open |-> TRUE]
      BY <1>4
    <3>3. CASE m.seq < n.seq
      <4>1. m.seq < h.from
        BY <3>2, <3>3
      <4>2. m.seq \in Nat /\ h.from \in Nat
        BY <1>0, <1>1
      <4>3. g.to < h.from
        BY <3>1, <4>1, <4>2
      <4> QED BY <4>3 DEF Apart
    <3>4. CASE n.seq < m.seq
      <4>1. n.seq < g.from
        BY <3>1, <3>4
      <4>2. n.seq \in Nat /\ g.from \in Nat
        BY <1>0, <1>1
      <4>3. h.to < g.from
        BY <3>2, <4>1, <4>2
      <4> QED BY <4>3 DEF Apart
    <3>5. CASE m.seq = n.seq
      <4>1. PICK k \in ObservedHigh(m, batch, base) : g.from = k + 1
        BY <3>1
      <4>2. PICK l \in ObservedHigh(n, batch, base) : h.from = l + 1
        BY <3>2
      <4>3. Below(m, batch, base) = Below(n, batch, base)
        BY <3>5 DEF Below
      <4>4. k <= l /\ l <= k
        BY <4>1, <4>2, <4>3 DEF ObservedHigh
      <4>5. k \in Nat /\ l \in Nat
        <5>1. \A y \in Below(m, batch, base) : y \in Nat
          BY <1>0 DEF Below, SeqsOf
        <5> QED BY <4>3, <5>1 DEF ObservedHigh
      <4>6. k = l
        BY <4>4, <4>5
      <4> QED BY <2>3, <3>1, <3>2, <3>5, <4>1, <4>2, <4>6
    <3> QED BY <1>0, <3>3, <3>4, <3>5
  <2>4. ASSUME NEW g \in G, NEW h \in G, g.open, h.open, h # g PROVE Apart(g, h)
    BY <1>2, <2>4 DEF OpenAhead
  <2> HIDE DEF N
  <2> QED BY <2>1, <2>2, <2>3, <2>4 DEF OpenAhead
<1>8. OpenBelowSeen(S, G \cup N)
  <2>1. ASSUME NEW g \in G, g.open PROVE \E m \in S : g.to < m.seq
    BY <1>0, <1>2, <2>1 DEF OpenBelowSeen
  <2>2. ASSUME NEW g \in N PROVE \E m \in S : g.to < m.seq
    BY <1>0, <1>4
  <2> QED BY <2>1, <2>2 DEF OpenBelowSeen
<1>9. ClosedBehind(c, G \cup N)
  BY <1>2, <1>4 DEF ClosedBehind
<1> QED BY <1>6, <1>7, <1>8, <1>9 DEF GapState

-----------------------------------------------------------------------------
(* The gaps after every step *)

LEMMA AcceptKeepsGaps ==
    ASSUME IInv, GapInv, NEW c \in Call, NEW batch \in Batches, NEW cp \in Checkpoint,
           SubmitAccepted(c, batch, cp)
    PROVE  GapInv'
<1> DEFINE base == Reconciled(cp)
           S == SeenAfter(batch, base)
           G == base.gaps \cup NewGaps(batch, base)
<1>0. TypeOK
  BY DEF IInv
<1>1. PICK n \in base.seq .. base.seq + Cardinality(S) :
        /\ contiguous' = n
        /\ seen' = PruneSeen(S, n)
        /\ \E old \in SUBSET gaps : gaps' = PruneGaps(TrimGaps(G, n), old)
  BY DEF SubmitAccepted
<1>14. PICK oldGaps \in SUBSET gaps : gaps' = PruneGaps(TrimGaps(G, n), oldGaps)
  BY <1>1
<1>2. /\ base.seq \in Nat /\ base.seen \subseteq seen /\ base.gaps \subseteq Gap
      /\ base.seen \subseteq Sale
  BY <1>0, ReconciledType DEF TypeOK
<1>3. batch \in SUBSET Sale
  BY DEF Batches
<1>4. GapState(base.seq, base.seen, base.gaps)
  BY <1>0, ReconcileKeepsGaps
<1>5. /\ S \in SUBSET Sale /\ G \in SUBSET Gap
      /\ contiguous' \in Nat /\ base.seq <= contiguous'
  <2>1. S \subseteq Sale /\ contiguous' \in Nat /\ base.seq <= contiguous'
    BY Accepted
  <2>2. NewGaps(batch, base) \subseteq Gap
    <3> HIDE DEF base
    <3> QED BY <1>2, <1>3, NewGapsType
  <2> QED BY <1>2, <2>1, <2>2
<1>6. GapState(base.seq, S, G)
  <2> HIDE DEF base
  <2> QED BY <1>2, <1>3, <1>4, NewGapsKeepGaps
<1> HIDE DEF base, S, G
<1>7. n \in Nat /\ base.seq <= n /\ TrimGaps(G, n) \in SUBSET Gap
  BY <1>1, <1>5, TrimGapsType
<1>8. Advanced(G, TrimGaps(G, n), n)
  BY <1>2, <1>5, <1>6, <1>7, TrimAdvances DEF GapState
<1>9. GapState(n, PruneSeen(S, n), TrimGaps(G, n))
  BY <1>2, <1>5, <1>6, <1>7, <1>8, AdvanceKeepsGaps
<1>10. PruneSeen(S, n) \in SUBSET Sale
  BY <1>5 DEF PruneSeen
<1>11. GapState(n, PruneSeen(PruneSeen(S, n), n), PruneGaps(TrimGaps(G, n), oldGaps))
  BY <1>7, <1>9, <1>10, PruneKeepsGaps
<1>12. PruneSeen(PruneSeen(S, n), n) = PruneSeen(S, n)
  BY DEF PruneSeen
<1>13. GapState(contiguous', seen', gaps')
  BY <1>1, <1>11, <1>12, <1>14
<1> QED BY <1>13 DEF GapInv, GapState, HolesCovered, OpenAhead, OpenBelowSeen, ClosedBehind

\* Retention prunes numbers and closed gaps with the sweep; other steps leave both.
LEMMA SweepKeepsGaps ==
    ASSUME TypeOK, GapInv, contiguous' = contiguous, seen' \in {seen, PruneSeen(seen, contiguous)},
           \/ seen' = seen /\ gaps' = gaps
           \/ /\ seen' = PruneSeen(seen, contiguous)
              /\ \E old \in SUBSET gaps : gaps' = PruneGaps(gaps, old)
    PROVE  GapInv'
<1>0. contiguous \in Nat /\ seen \in SUBSET Sale /\ gaps \in SUBSET Gap
  BY DEF TypeOK
<1>1. GapState(contiguous, seen', gaps')
  <2>1. CASE seen' = seen /\ gaps' = gaps
    BY <2>1 DEF GapInv
  <2>2. ASSUME NEW old \in SUBSET gaps, gaps' = PruneGaps(gaps, old),
               seen' = PruneSeen(seen, contiguous)
        PROVE  GapState(contiguous, seen', gaps')
    BY <1>0, <2>2, PruneKeepsGaps DEF GapInv
  <2> QED BY <2>1, <2>2
<1>2. GapState(contiguous', seen', gaps')
  BY <1>1
<1> QED BY <1>2 DEF GapInv, GapState, HolesCovered, OpenAhead, OpenBelowSeen, ClosedBehind

LEMMA EmptyGaps == GapState(0, {}, {})
BY DEF GapState, HolesCovered, OpenAhead, OpenBelowSeen, ClosedBehind

LEMMA GapStep == IInv /\ GapInv /\ [Next]_vars => GapInv'
<1> SUFFICES ASSUME IInv, GapInv, [Next]_vars PROVE GapInv'
  OBVIOUS
<1>0. TypeOK
  BY DEF IInv
<1>1. ASSUME contiguous' = contiguous, seen' = seen, gaps' = gaps PROVE GapInv'
  BY <1>0, <1>1, SweepKeepsGaps
<1>2. ASSUME NEW c \in Call, NEW batch \in Batches, NEW cp \in Checkpoint, SubmitBatch(c, batch, cp)
      PROVE  GapInv'
  <2>1. CASE SubmitRefused(c, batch, cp)
    BY <1>1, <2>1 DEF SubmitRefused, store
  <2>2. CASE SubmitAccepted(c, batch, cp)
    BY <2>2, AcceptKeepsGaps
  <2> QED BY <1>2, <2>1, <2>2 DEF SubmitBatch
<1>3. ASSUME NEW c \in Call, (\E chunk \in SUBSET Sale : Send(c, chunk)) \/ SendFails(c) PROVE GapInv'
  BY <1>1, <1>3 DEF Send, SendFails, store
<1>4. ASSUME NEW c \in Call, Mark(c) PROVE GapInv'
  <2>1. contiguous' = contiguous
    BY <1>4 DEF Mark
  <2>2. \/ seen' = seen /\ gaps' = gaps
        \/ /\ seen' = PruneSeen(seen, contiguous)
           /\ \E old \in SUBSET gaps : gaps' = PruneGaps(gaps, old)
    BY <1>4 DEF Mark
  <2> QED BY <1>0, <2>1, <2>2, SweepKeepsGaps
<1>5. ASSUME NEW c \in Call, Alarm(c) PROVE GapInv'
  <2>1. contiguous' = contiguous
    BY <1>5 DEF Alarm, store
  <2>2. \/ seen' = seen /\ gaps' = gaps
        \/ /\ seen' = PruneSeen(seen, contiguous)
           /\ \E old \in SUBSET gaps : gaps' = PruneGaps(gaps, old)
    BY <1>5 DEF Alarm, store
  <2> QED BY <1>0, <2>1, <2>2, SweepKeepsGaps
<1>6. ASSUME NEW k \in Key, MarkCommitted(k) \/ MarkFailed(k) PROVE GapInv'
  BY <1>1, <1>6 DEF MarkCommitted, MarkFailed
<1>7. CASE Evict
  BY <1>1, <1>7 DEF Evict, store
<1>8. CASE Recreate
  <2>1. contiguous' = 0 /\ seen' = {} /\ gaps' = {}
    BY <1>8 DEF Recreate
  <2>2. GapState(contiguous', seen', gaps')
    BY <2>1, EmptyGaps
  <2> QED BY <2>2 DEF GapInv, GapState, HolesCovered, OpenAhead, OpenBelowSeen, ClosedBehind
<1>9. CASE UNCHANGED vars
  BY <1>1, <1>9 DEF vars
<1> QED BY <1>2, <1>3, <1>4, <1>5, <1>6, <1>7, <1>8, <1>9 DEF Next

-----------------------------------------------------------------------------
(* What the open gaps report *)

ReportedIn(G) == UNION {g.from .. g.to : g \in {h \in G : h.open}}
MissingIn(c, S) == (UNION {c + 1 .. m.seq : m \in S}) \ SeqsOf(S)

LEMMA InReported ==
    ASSUME NEW G, NEW n
    PROVE  n \in ReportedIn(G) <=> \E g \in G : g.open /\ n \in g.from .. g.to
BY DEF ReportedIn

LEMMA InMissing ==
    ASSUME NEW c, NEW S, NEW n
    PROVE  n \in MissingIn(c, S) <=> n \notin SeqsOf(S) /\ \E m \in S : n \in c + 1 .. m.seq
BY DEF MissingIn

LEMMA CoverOfState ==
    ASSUME NEW c \in Nat, NEW S \in SUBSET Sale, NEW G \in SUBSET Gap, GapState(c, S, G)
    PROVE  /\ MissingIn(c, S) \subseteq ReportedIn(G)
           /\ \A n \in ReportedIn(G) : n > c
<1>0. /\ \A m \in S : m.seq \in Nat
      /\ \A g \in G : g.from \in Nat /\ g.to \in Nat
  BY SeqNatural, GapFields
<1>1. ASSUME NEW n \in MissingIn(c, S) PROVE n \in ReportedIn(G)
  <2>1. PICK m \in S : n \in c + 1 .. m.seq /\ n \notin SeqsOf(S)
    BY InMissing
  <2>2. PICK g \in G : g.open /\ g.from <= n /\ n <= g.to
    BY <2>1 DEF GapState, HolesCovered
  <2>3. n \in g.from .. g.to
    BY <1>0, <2>1, <2>2
  <2> QED BY <2>2, <2>3, InReported
<1>2. ASSUME NEW n \in ReportedIn(G) PROVE n > c
  <2>1. PICK g \in G : g.open /\ n \in g.from .. g.to
    BY InReported
  <2>2. c < g.from
    BY <2>1 DEF GapState, OpenAhead
  <2> QED BY <1>0, <2>1, <2>2
<1> QED BY <1>1, <1>2

\* A longer prefix takes its numbers out of what is reported and of what is missing.
LEMMA AdvanceReports ==
    ASSUME NEW c \in Nat, NEW G \in SUBSET Gap, NEW H \in SUBSET Gap, Advanced(G, H, c)
    PROVE  ReportedIn(H) = {n \in ReportedIn(G) : n > c}
<1> DEFINE Rest(g) == [from |-> c + 1, to |-> g.to, open |-> TRUE]
<1>0. \A g \in G \cup H : g.from \in Nat /\ g.to \in Nat
  BY DEF Gap
<1>1. \A g : Rest(g).from = c + 1 /\ Rest(g).to = g.to /\ Rest(g).open
  OBVIOUS
<1>2. /\ \A g \in G : g.open /\ g.from > c => g \in H
      /\ \A g \in G : Straddles(g, c) => Rest(g) \in H
      /\ \A h \in H : h.open => (h \in G /\ h.from > c) \/ \E g \in G : Straddles(g, c) /\ h = Rest(g)
  BY DEF Advanced
<1> HIDE DEF Rest
<1>3. ASSUME NEW n \in ReportedIn(H) PROVE n \in ReportedIn(G) /\ n > c
  <2>1. PICK h \in H : h.open /\ n \in h.from .. h.to
    BY InReported
  <2>2. CASE h \in G /\ h.from > c
    BY <1>0, <2>1, <2>2, InReported
  <2>3. ASSUME NEW g \in G, Straddles(g, c), h = Rest(g) PROVE n \in ReportedIn(G) /\ n > c
    <3>1. n \in c + 1 .. g.to /\ g.open /\ g.from <= c
      BY <1>1, <2>1, <2>3 DEF Straddles
    <3>2. n \in g.from .. g.to /\ n > c
      BY <1>0, <3>1
    <3> QED BY <3>1, <3>2, InReported
  <2> QED BY <1>2, <2>1, <2>2, <2>3
<1>4. ASSUME NEW n \in ReportedIn(G), n > c PROVE n \in ReportedIn(H)
  <2>1. PICK g \in G : g.open /\ n \in g.from .. g.to
    BY InReported
  <2>2. CASE g.from > c
    BY <1>2, <2>1, <2>2, InReported
  <2>3. CASE ~(g.from > c)
    <3>1. Straddles(g, c)
      BY <1>0, <1>4, <2>1, <2>3 DEF Straddles
    <3>2. n \in Rest(g).from .. Rest(g).to
      BY <1>0, <1>1, <1>4, <2>1
    <3> QED BY <1>1, <1>2, <3>1, <3>2, InReported
  <2> QED BY <2>2, <2>3
<1> QED BY <1>3, <1>4

LEMMA AdvanceMisses ==
    ASSUME NEW b \in Nat, NEW c \in Nat, b <= c, NEW S \in SUBSET Sale
    PROVE  MissingIn(c, PruneSeen(S, c)) = {n \in MissingIn(b, S) : n > c}
<1> DEFINE T == PruneSeen(S, c)
<1>0. \A m \in S : m.seq \in Nat
  BY SeqNatural
<1>1. T \subseteq S /\ \A m \in S : m \in T <=> m.seq > c
  BY DEF PruneSeen
<1> HIDE DEF T
<1>2. \A n \in Nat : n > c => (n \in SeqsOf(T) <=> n \in SeqsOf(S))
  BY <1>1 DEF SeqsOf
<1>3. ASSUME NEW n \in MissingIn(c, T) PROVE n \in MissingIn(b, S) /\ n > c
  <2>1. PICK m \in T : n \in c + 1 .. m.seq /\ n \notin SeqsOf(T)
    BY InMissing
  <2>2. m \in S /\ n \in Nat /\ n > c /\ n \in b + 1 .. m.seq
    BY <1>0, <1>1, <2>1
  <2> QED BY <1>2, <2>1, <2>2, InMissing
<1>4. ASSUME NEW n \in MissingIn(b, S), n > c PROVE n \in MissingIn(c, T)
  <2>1. PICK m \in S : n \in b + 1 .. m.seq /\ n \notin SeqsOf(S)
    BY InMissing
  <2>2. n \in Nat /\ m \in T /\ n \in c + 1 .. m.seq
    BY <1>0, <1>1, <1>4, <2>1
  <2> QED BY <1>2, <1>4, <2>1, <2>2, InMissing
<1> QED BY <1>3, <1>4 DEF T

\* A batch adds to what is reported exactly what it shows to be missing.
LEMMA NewGapsReport ==
    ASSUME NEW batch \in SUBSET Sale, NEW base, base.seq \in Nat, base.seen \subseteq Sale,
           base.gaps \subseteq Gap, GapState(base.seq, base.seen, base.gaps)
    PROVE  ReportedIn(base.gaps \cup NewGaps(batch, base)) =
               ReportedIn(base.gaps) \cup MissingIn(base.seq, SeenAfter(batch, base))
<1> DEFINE A == Ahead(batch, base)
           S == SeenAfter(batch, base)
           N == NewGaps(batch, base)
<1>0. /\ S = base.seen \cup A /\ S \in SUBSET Sale /\ N \subseteq Gap
      /\ \A m \in S : m.seq \in Nat
  <2>1. S = base.seen \cup A /\ A \subseteq Sale
    BY DEF SeenAfter, Ahead, Unknown
  <2>2. N \subseteq Gap
    BY NewGapsType
  <2> QED BY <2>1, <2>2, SaleFields
<1>1. MissingIn(base.seq, S) \subseteq ReportedIn(base.gaps \cup N)
  <2>1. GapState(base.seq, S, base.gaps \cup N)
    BY NewGapsKeepGaps
  <2>2. base.gaps \cup N \in SUBSET Gap
    BY <1>0
  <2> HIDE DEF S, N
  <2> QED BY <1>0, <2>1, <2>2, CoverOfState
<1>2. ASSUME NEW g \in N, NEW n \in g.from .. g.to PROVE n \in MissingIn(base.seq, S)
  <2>1. /\ base.seq < g.from /\ \A x \in base.seen : x.seq < g.from
    BY NewGapAbove
  <2>2. PICK m \in A : /\ g.to = m.seq - 1
                       /\ \A x \in A : x.seq < m.seq => x.seq < g.from
    BY NewGapAbove
  <2>3. g.from \in Nat /\ g.to \in Nat
    BY <1>0 DEF Gap
  <2> HIDE DEF A, S, N
  <2>4. n \in base.seq + 1 .. m.seq /\ m \in S
    BY <1>0, <2>1, <2>2, <2>3
  <2>5. \A x \in S : x.seq # n
    BY <1>0, <2>1, <2>2, <2>3
  <2> QED BY <2>4, <2>5, InMissing DEF SeqsOf
<1> HIDE DEF S, N
<1>3. ASSUME NEW n \in ReportedIn(base.gaps \cup N)
      PROVE  n \in ReportedIn(base.gaps) \cup MissingIn(base.seq, S)
  BY <1>2, InReported
<1>4. ReportedIn(base.gaps) \subseteq ReportedIn(base.gaps \cup N)
  BY InReported
<1> QED BY <1>1, <1>3, <1>4 DEF S, N

LEMMA PruneReports ==
    ASSUME NEW G, NEW old
    PROVE  ReportedIn(PruneGaps(G, old)) = ReportedIn(G)
BY InReported DEF PruneGaps

LEMMA AcceptReports ==
    ASSUME IInv, GapInv, NEW c \in Call, NEW batch \in Batches, NEW cp \in Checkpoint,
           SubmitAccepted(c, batch, cp)
    PROVE  ReportedIn(gaps') =
               {n \in ReportedIn(gaps) \cup MissingIn(contiguous', seen') : n > contiguous'}
<1> DEFINE base == Reconciled(cp)
           S == SeenAfter(batch, base)
           G == base.gaps \cup NewGaps(batch, base)
           n == contiguous'
<1>0. TypeOK /\ gaps \in SUBSET Gap
  BY DEF IInv, TypeOK
<1>1. seen' = PruneSeen(S, n) /\ \E old : gaps' = PruneGaps(TrimGaps(G, n), old)
  BY DEF SubmitAccepted
<1>2. /\ base.seq \in Nat /\ base.seen \subseteq Sale /\ base.gaps \in SUBSET Gap
      /\ contiguous <= base.seq
  BY <1>0, ReconciledType DEF TypeOK
<1>3. /\ batch \in SUBSET Sale /\ S \in SUBSET Sale
      /\ n \in Nat /\ base.seq <= n
  BY Accepted DEF Batches
<1>4. Advanced(gaps, base.gaps, base.seq) /\ GapState(base.seq, base.seen, base.gaps)
  BY <1>0, ReconcileAdvances, ReconcileKeepsGaps
<1>5. ReportedIn(base.gaps) = {i \in ReportedIn(gaps) : i > base.seq}
  <2> HIDE DEF base
  <2> QED BY <1>0, <1>2, <1>4, AdvanceReports
<1>6. ReportedIn(G) = ReportedIn(base.gaps) \cup MissingIn(base.seq, S)
  <2> HIDE DEF base
  <2> QED BY <1>2, <1>3, <1>4, NewGapsReport
<1>7. G \in SUBSET Gap /\ GapState(base.seq, S, G)
  <2> HIDE DEF base
  <2> QED BY <1>2, <1>3, <1>4, NewGapsType, NewGapsKeepGaps
<1> HIDE DEF base, S, G, n
<1>8. ReportedIn(TrimGaps(G, n)) = {i \in ReportedIn(G) : i > n}
  <2>1. TrimGaps(G, n) \in SUBSET Gap
    BY <1>3, <1>7, TrimGapsType
  <2>2. Advanced(G, TrimGaps(G, n), n)
    BY <1>2, <1>3, <1>7, TrimAdvances DEF GapState
  <2> QED BY <1>3, <1>7, <2>1, <2>2, AdvanceReports
<1>9. ReportedIn(gaps') = {i \in ReportedIn(G) : i > n}
  BY <1>1, <1>8, PruneReports
<1>10. MissingIn(n, seen') = {i \in MissingIn(base.seq, S) : i > n}
  BY <1>1, <1>2, <1>3, AdvanceMisses
<1>11. \A i \in ReportedIn(gaps) : i \in Nat
  BY <1>0, InReported DEF Gap
<1>12. \A i \in ReportedIn(gaps) : i > n => i > base.seq
  BY <1>2, <1>3, <1>11
<1> QED BY <1>5, <1>6, <1>9, <1>10, <1>12 DEF n

\* Every number below the highest one seen that has not arrived is in an open gap,
\* and the open gaps are ahead of the prefix and apart from one another, in whatever
\* order numbers arrive and however the origin's checkpoint and retention cut the
\* tables.  A gap may still hold numbers that have arrived.
THEOREM MissingNumbersAreReported == Spec => []GapsCoverMissing
<1>1. Init => GapInv
  BY EmptyGaps DEF Init, EmptyStore, GapInv
<1>2. IInv /\ GapInv => GapsCoverMissing
  <2> SUFFICES ASSUME IInv, GapInv PROVE GapsCoverMissing
    OBVIOUS
  <2>1. contiguous \in Nat /\ seen \in SUBSET Sale /\ gaps \in SUBSET Gap
    BY DEF IInv, TypeOK
  <2>2. Missing \subseteq Reported
    BY <2>1, CoverOfState DEF GapInv, Missing, MissingIn, Reported, ReportedIn
  <2> QED BY <2>2 DEF GapInv, GapState, OpenAhead, Apart, GapsCoverMissing
<1> QED BY <1>1, <1>2, Invariance, GapStep, PTL DEF Spec

\* The steps that neither move the prefix nor report or close anything.
LEMMA SameReports ==
    ASSUME IInv', GapInv', contiguous' = contiguous, ReportedIn(gaps') = ReportedIn(gaps)
    PROVE  ReportedIn(gaps') =
               {n \in ReportedIn(gaps) \cup MissingIn(contiguous', seen') : n > contiguous'}
<1>1. contiguous' \in Nat /\ seen' \in SUBSET Sale /\ gaps' \in SUBSET Gap
  BY DEF IInv, TypeOK
<1>2. GapState(contiguous', seen', gaps')
  BY DEF GapInv, GapState, HolesCovered, OpenAhead, OpenBelowSeen, ClosedBehind
<1>3. /\ MissingIn(contiguous', seen') \subseteq ReportedIn(gaps')
      /\ \A n \in ReportedIn(gaps') : n > contiguous'
  BY <1>1, <1>2, CoverOfState
<1> QED BY <1>3

\* In every step but the loss of the storage, what is reported after it is what was
\* reported before and what is missing now, less what the prefix has passed: no gap
\* is lost, widened or opened over a number that is here (idempotency-do.ts,
\* trimResolvedGaps, reconcileOriginCheckpoint, submitBatch and pruneStorage).
THEOREM ReportsFollowArrivals == Spec => GapsFollowArrivals
<1> DEFINE Follows == Recreate \/ Reported' = {n \in Reported \cup Missing' : n > contiguous'}
<1>1. IInv /\ GapInv /\ IInv' /\ GapInv' /\ [Next]_vars => [Follows]_vars
  <2> SUFFICES ASSUME IInv, GapInv, IInv', GapInv', Next, ~Recreate
               PROVE  ReportedIn(gaps') =
                        {n \in ReportedIn(gaps) \cup MissingIn(contiguous', seen') : n > contiguous'}
    BY DEF Reported, Missing, ReportedIn, MissingIn
  <2>1. ASSUME NEW c \in Call, NEW batch \in Batches, NEW cp \in Checkpoint,
               SubmitAccepted(c, batch, cp)
        PROVE  ReportedIn(gaps') =
                 {n \in ReportedIn(gaps) \cup MissingIn(contiguous', seen') : n > contiguous'}
    BY <2>1, AcceptReports
  <2>2. ASSUME ~ \E c \in Call, batch \in Batches, cp \in Checkpoint : SubmitAccepted(c, batch, cp)
        PROVE  contiguous' = contiguous /\ (gaps' = gaps \/ \E old : gaps' = PruneGaps(gaps, old))
    BY <2>2 DEF Next, SubmitBatch, SubmitRefused, Send, Mark, SendFails, Alarm, MarkCommitted,
                MarkFailed, Evict, store
  <2> QED BY <2>1, <2>2, PruneReports, SameReports
<1>2. Init => GapInv
  BY EmptyGaps DEF Init, EmptyStore, GapInv
<1> QED BY <1>1, <1>2, Invariance, GapStep, PTL DEF Spec, GapsFollowArrivals
=============================================================================
