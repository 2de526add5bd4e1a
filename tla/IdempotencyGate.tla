--------------------------- MODULE IdempotencyGate ---------------------------
(***************************************************************************)
(* The Durable Object of one terminal                                      *)
(* (prodx-pos-edge-sync/src/idempotency-do.ts): the receipt and outbox     *)
(* table, the terminal's sequence checkpoint with the numbers seen ahead of *)
(* it and the gaps between them, and the one alarm that sweeps the outbox. *)
(*                                                                         *)
(* A call runs without interruption up to an await of something outside    *)
(* the object's storage.  The only such await is Queue.sendBatch, so a     *)
(* call is: the step up to the first sendBatch, one Send and one Mark for  *)
(* each chunk, and every other call may run in between.                    *)
(*                                                                         *)
(* Time is the choice of the rows it has reached: which QUEUED rows are    *)
(* due for a retry, which rows are past the thirty days of retention.  A   *)
(* sale stands for its payload, its hash and its queue message.            *)
(***************************************************************************)
EXTENDS Integers, FiniteSets

CONSTANTS
    Key,            \* idempotency keys
    SaleId,         \* sale identifiers
    Sale,           \* sales the terminal may submit
    Checkpoint,     \* origin checkpoints that may arrive with a batch
    Call,           \* calls that may be awaiting the queue at one time
    MaxBatch,       \* sales in a batch (50)
    FlushLimit,     \* rows one flush selects (50)
    MaxOutOfOrder,  \* MAX_OUT_OF_ORDER_SEQUENCES (1000)
    MaxAhead,       \* MAX_SEQUENCE_AHEAD (10000)
    MaxFaults,      \* bound: failures of the queue and losses of the object
    CanRecreate     \* whether the object may lose its storage

SaleShape == [key : Key, saleId : SaleId, seq : Nat \ {0}, hlc : Nat]
CheckpointShape == [seq : Nat, hlc : Nat]

ASSUME GateAssumption ==
    /\ IsFiniteSet(Sale)
    /\ \A m \in Sale : /\ m.key \in Key /\ m.saleId \in SaleId
                       /\ m.seq \in Nat \ {0} /\ m.hlc \in Nat
    /\ Checkpoint \subseteq CheckpointShape
    /\ {MaxBatch, FlushLimit, MaxOutOfOrder, MaxAhead} \subseteq Nat \ {0}
    /\ MaxFaults \in Nat
    /\ CanRecreate \in BOOLEAN

VARIABLES
    rows,        \* table idempotency, by key
    contiguous,  \* terminal_sequence_state.last_contiguous_seq_no
    lastHlc,     \* terminal_sequence_state.last_hlc_*
    seen,        \* table terminal_sequence_seen: the sales whose number it holds
    gaps,        \* table terminal_sequence_gaps
    alarm,       \* whether the object's alarm is set
    call,        \* calls that await the queue
    faults       \* how many faults have happened

store == <<rows, contiguous, lastHlc, seen, gaps>>
vars == <<rows, contiguous, lastHlc, seen, gaps, alarm, call, faults>>

Absent == [state |-> "ABSENT"]
Live == {"ENQUEUE_PENDING", "QUEUED"}
RowType == [state : {"ABSENT"}]
             \cup [state : Live \cup {"COMMITTED"}, sale : Sale, failed : BOOLEAN]

Idle == [by |-> "nobody"]
CallType == [by : {"nobody"}]
              \cup [by : {"submit", "alarm"}, todo : SUBSET Sale, sent : SUBSET Sale]

Gap == [from : Nat, to : Nat, open : BOOLEAN]

TypeOK ==
    /\ rows \in [Key -> RowType]
    /\ \A k \in Key : rows[k].state # "ABSENT" => rows[k].sale.key = k
    /\ contiguous \in Nat
    /\ lastHlc \in Nat
    /\ seen \subseteq Sale
    /\ gaps \subseteq Gap
    /\ alarm \in BOOLEAN
    /\ call \in [Call -> CallType]
    /\ faults \in 0 .. MaxFaults

\* A new object, or one recreated with nothing in its storage.
EmptyStore ==
    /\ rows = [k \in Key |-> Absent]
    /\ contiguous = 0
    /\ lastHlc = 0
    /\ seen = {}
    /\ gaps = {}

Init ==
    /\ EmptyStore
    /\ alarm = FALSE
    /\ call = [c \in Call |-> Idle]
    /\ faults = 0

-----------------------------------------------------------------------------
(* Tables *)

Known(k) == rows[k].state # "ABSENT"
IsLive(row) == row.state \in Live /\ ~row.failed
IsPending(row) == row.state = "ENQUEUE_PENDING" /\ ~row.failed

\* Mutant of CommittedKeys: failed receipts expire as well.
FinalizedKeys == {k \in Key : Known(k) /\ ~IsLive(rows[k])}

\* The receipts retention applies to.
CommittedKeys == {k \in Key : rows[k].state = "COMMITTED"}
SeqsOf(S) == {m.seq : m \in S}

\* getStatus
Status(k) ==
    IF ~Known(k) THEN "not_found"
    ELSE IF rows[k].failed THEN "failed"
    ELSE CASE rows[k].state = "COMMITTED" -> "committed"
           [] rows[k].state = "QUEUED" -> "queued"
           [] OTHER -> "pending"

\* The SELECT of flushPending: up to FlushLimit live rows, the pending ones
\* first, the QUEUED ones only once their next_retry_at has come, which is the
\* choice of sel.
Selects(table, sel) ==
    LET pending == {k \in Key : IsPending(table[k])}
    IN  /\ sel \subseteq {k \in Key : IsLive(table[k])}
        /\ Cardinality(sel) <= FlushLimit
        /\ pending \subseteq sel \/ (sel \subseteq pending /\ Cardinality(sel) = FlushLimit)

\* pruneStorage: committed receipts past retention (old, of CommittedKeys),
\* numbers inside the contiguous prefix, closed gaps past retention.
PruneRows(table, old) == [k \in Key |-> IF k \in old THEN Absent ELSE table[k]]
PruneSeen(S, c) == {m \in S : m.seq > c}
PruneGaps(G, old) == {g \in G : g.open \/ g \notin old}

\* INSERT OR IGNORE on the primary key (gap_from_seq_no, gap_to_seq_no).
AddGap(G, f, t) ==
    IF \E g \in G : g.from = f /\ g.to = t THEN {} ELSE {[from |-> f, to |-> t, open |-> TRUE]}

\* trimResolvedGaps
Straddles(g, c) == g.open /\ g.from <= c /\ g.to > c
Resolved(g, c) == g.open /\ g.to <= c

\* Mutant of TrimGaps: only gaps wholly inside the prefix are looked at.
TrimClosesOnly(G, c) ==
    {g \in G : ~Resolved(g, c)} \cup {[g EXCEPT !.open = FALSE] : g \in {h \in G : Resolved(h, c)}}

TrimGaps(G, c) ==
    LET rest == {g \in G : ~Straddles(g, c) /\ ~Resolved(g, c)}
    IN  rest
          \cup {[g EXCEPT !.open = FALSE] : g \in {h \in G : Resolved(h, c)}}
          \cup UNION {AddGap(rest, c + 1, g.to) : g \in {h \in G : Straddles(h, c)}}

-----------------------------------------------------------------------------
(* submitBatch.  The operators follow its transaction: base is the sequence *)
(* state after reconcileOriginCheckpoint, which the rest starts from.       *)

SequenceState == [seq |-> contiguous, hlc |-> lastHlc, seen |-> seen, gaps |-> gaps]

\* Mutant of Reconciled: the checkpoint is taken for the number expected next.
ReconciledOneFar(cp) ==
    IF cp.seq > contiguous
      THEN [seq  |-> cp.seq + 1, hlc |-> cp.hlc, seen |-> PruneSeen(seen, cp.seq + 1),
            gaps |-> {g \in gaps : ~g.open \/ g.from > cp.seq + 1}]
      ELSE SequenceState

\* Mutant of Reconciled: the origin's checkpoint is taken even when it is behind.
ReconciledAlways(cp) ==
    [seq  |-> cp.seq, hlc |-> cp.hlc, seen |-> PruneSeen(seen, cp.seq),
     gaps |-> {g \in gaps : ~g.open \/ g.from > cp.seq}]

\* reconcileOriginCheckpoint
Reconciled(cp) ==
    IF cp.seq > contiguous
      THEN [seq  |-> cp.seq, hlc |-> cp.hlc, seen |-> PruneSeen(seen, cp.seq),
            gaps |-> {g \in gaps : ~g.open \/ g.from > cp.seq}
                       \cup {[g EXCEPT !.open = FALSE] : g \in {h \in gaps : Resolved(h, cp.seq)}}
                       \cup {[g EXCEPT !.from = cp.seq + 1] : g \in {h \in gaps : Straddles(h, cp.seq)}}]
      ELSE IF cp.seq = contiguous THEN [SequenceState EXCEPT !.hlc = cp.hlc]
      ELSE SequenceState

Unknown(batch) == {m \in batch : ~Known(m.key)}
Ahead(batch, base) == {m \in Unknown(batch) : m.seq > base.seq}

\* The numbers recorded for the whole batch, and the gap each new number
\* leaves behind observedHigh, the highest number before it.
SeenAfter(batch, base) == base.seen \cup Ahead(batch, base)
Below(m, batch, base) ==
    {base.seq} \cup SeqsOf(base.seen) \cup {n \in SeqsOf(Ahead(batch, base)) : n < m.seq}
ObservedHigh(m, batch, base) ==
    {h \in Below(m, batch, base) : \A n \in Below(m, batch, base) : n <= h}

\* Mutant of NewGaps: the gap starts one number late.
NewGapsOffByOne(batch, base) ==
    UNION {UNION {AddGap(base.gaps, h + 2, m.seq - 1) :
                      h \in {o \in ObservedHigh(m, batch, base) : m.seq > o + 1}} :
           m \in Ahead(batch, base)}

NewGaps(batch, base) ==
    UNION {UNION {AddGap(base.gaps, h + 1, m.seq - 1) :
                      h \in {o \in ObservedHigh(m, batch, base) : m.seq > o + 1}} :
           m \in Ahead(batch, base)}

\* Mutant of PrefixEnd: one number is looked for, not all that follow.
PrefixEndOne(n, S, base) == n = IF base.seq + 1 \in SeqsOf(S) THEN base.seq + 1 ELSE base.seq

\* Mutant of ClockRegression: clocks are not compared.
ClockUnchecked(S, base) == FALSE

\* The contiguous prefix ends at n, and the clock has run backwards on the way.
PrefixEnd(n, S, base) ==
    /\ \A i \in base.seq + 1 .. n : i \in SeqsOf(S)
    /\ n + 1 \notin SeqsOf(S)
ClockRegression(S, base) ==
    \E m \in S :
        /\ m.seq > base.seq
        /\ \A i \in base.seq + 1 .. m.seq : i \in SeqsOf(S)
        /\ \/ m.seq = base.seq + 1 /\ m.hlc < base.hlc
           \/ \E p \in S : p.seq = m.seq - 1 /\ p.seq > base.seq /\ m.hlc < p.hlc

\* A known key under another payload, or one whose sale failed for good.
KeyRefused(batch) ==
    \E m \in batch : Known(m.key) /\ (rows[m.key].sale # m \/ rows[m.key].failed)

\* Two sales of the batch share a key, or two new ones a sequence number.
BatchClash(batch) ==
    \E m, n \in batch : m # n /\ (m.key = n.key \/ ({m, n} \subseteq Unknown(batch) /\ m.seq = n.seq))

\* Mutant of SequenceReused: the check is missing.
SequenceNeverReused(batch, base) == FALSE

\* A number ahead of the prefix that another accepted sale owns.
SequenceReused(batch, base) == SeqsOf(Ahead(batch, base)) \cap SeqsOf(base.seen) # {}

WindowExceeded(batch, base) ==
    \/ Cardinality(PruneSeen(base.seen, base.seq)) + Cardinality(Ahead(batch, base)) > MaxOutOfOrder
    \/ \E m \in Ahead(batch, base) : m.seq > base.seq + MaxAhead

Refused(batch, cp) ==
    LET base == Reconciled(cp)
    IN  \/ KeyRefused(batch)
        \/ BatchClash(batch)
        \/ WindowExceeded(batch, base)
        \/ SequenceReused(batch, base)
        \/ ClockRegression(SeenAfter(batch, base), base)

\* The receipt of every sale of the batch that has none, once pruneStorage
\* has dropped the old ones.
RowsAfter(batch, old) ==
    LET kept == PruneRows(rows, old)
    IN  [k \in Key |->
            IF kept[k].state = "ABSENT" /\ \E m \in batch : m.key = k
              THEN [state |-> "ENQUEUE_PENDING", failed |-> FALSE,
                    sale |-> CHOOSE m \in batch : m.key = k]
              ELSE kept[k]]

\* flushPending up to its first await: select the rows and take their messages,
\* or return with nothing to do.
StartFlush(c, by, table) ==
    \E sel \in SUBSET Key :
        /\ Selects(table, sel)
        /\ call' = [call EXCEPT ![c] =
               IF sel = {} THEN Idle
               ELSE [by |-> by, todo |-> {table[k].sale : k \in sel}, sent |-> {}]]

\* The alarm is set first, and stays set when the transaction throws.  The
\* clock of a new sale may be too far ahead of the object's own, which only
\* the time of day decides.
SubmitRefused(c, batch, cp) ==
    /\ call[c] = Idle
    /\ Refused(batch, cp) \/ Unknown(batch) # {}
    /\ alarm' = TRUE
    /\ UNCHANGED <<store, call, faults>>

SubmitAccepted(c, batch, cp) ==
    LET base == Reconciled(cp)
        S    == SeenAfter(batch, base)
    IN  /\ call[c] = Idle
        /\ ~Refused(batch, cp)
        /\ \E n \in base.seq .. base.seq + Cardinality(S) :
              /\ PrefixEnd(n, S, base)
              /\ contiguous' = n
              /\ lastHlc' \in IF n = base.seq THEN {base.hlc} ELSE {m.hlc : m \in {x \in S : x.seq = n}}
              /\ seen' = PruneSeen(S, n)
              /\ \E old \in SUBSET gaps :
                    gaps' = PruneGaps(TrimGaps(base.gaps \cup NewGaps(batch, base), n), old)
        /\ \E old \in SUBSET CommittedKeys : rows' = RowsAfter(batch, old)
        /\ alarm' = TRUE
        /\ StartFlush(c, "submit", rows')
        /\ UNCHANGED faults

SubmitBatch(c, batch, cp) == SubmitRefused(c, batch, cp) \/ SubmitAccepted(c, batch, cp)

-----------------------------------------------------------------------------
(* flushPending and alarm *)

\* sendBatch of one chunk has taken the messages.
Send(c, chunk) ==
    /\ call[c] # Idle
    /\ call[c].sent = {}
    /\ chunk # {}
    /\ chunk \subseteq call[c].todo
    /\ call' = [call EXCEPT ![c].sent = chunk, ![c].todo = @ \ chunk]
    /\ UNCHANGED <<store, alarm, faults>>

\* Mutant of MarkQueued: the UPDATE has no guard on the state.
MarkQueuedBlind(table, chunk) ==
    [k \in Key |-> IF table[k].state # "ABSENT" /\ \E m \in chunk : m.key = k
                     THEN [table[k] EXCEPT !.state = "QUEUED", !.failed = FALSE] ELSE table[k]]

\* The rows of the sent chunk become QUEUED, unless they have been finalized
\* while the chunk was on its way.
MarkQueued(table, chunk) ==
    [k \in Key |-> IF IsLive(table[k]) /\ \E m \in chunk : m.key = k
                     THEN [table[k] EXCEPT !.state = "QUEUED"] ELSE table[k]]

\* Mutant of RearmAlarm: only rows that were never sent count.
RearmPending(table) == alarm' = (alarm \/ \E k \in Key : IsPending(table[k]))

\* What alarm() does after its flush: set the alarm again while a row is live,
\* then prune.
RearmAlarm(table) == alarm' = (alarm \/ \E k \in Key : IsLive(table[k]))

\* sendBatch returns: mark the chunk; after the last one the call is over.
Mark(c) ==
    /\ call[c] # Idle
    /\ call[c].sent # {}
    /\ LET table == MarkQueued(rows, call[c].sent)
       IN  IF call[c].todo # {} \/ call[c].by = "submit"
             THEN /\ rows' = table
                  /\ UNCHANGED <<seen, gaps, alarm>>
             ELSE /\ RearmAlarm(table)
                  /\ \E old \in SUBSET CommittedKeys : rows' = PruneRows(table, old)
                  /\ \E old \in SUBSET gaps : gaps' = PruneGaps(gaps, old)
                  /\ seen' = PruneSeen(seen, contiguous)
    /\ call' = [call EXCEPT ![c] = IF @.todo = {} THEN Idle ELSE [@ EXCEPT !.sent = {}]]
    /\ UNCHANGED <<contiguous, lastHlc, faults>>

\* sendBatch throws, with or without the messages taken: the alarm is set and
\* the error leaves submitBatch or alarm().
SendFails(c) ==
    /\ faults < MaxFaults
    /\ call[c] # Idle
    /\ alarm' = TRUE
    /\ call' = [call EXCEPT ![c] = Idle]
    /\ faults' = faults + 1
    /\ UNCHANGED store

\* The alarm fires and is taken off; with nothing to send it only prunes.
Alarm(c) ==
    /\ call[c] = Idle
    /\ alarm
    /\ StartFlush(c, "alarm", rows)
    /\ IF call'[c] # Idle
         THEN /\ alarm' = FALSE
              /\ UNCHANGED store
         ELSE /\ alarm' = (\E k \in Key : IsLive(rows[k]))
              /\ \E old \in SUBSET CommittedKeys : rows' = PruneRows(rows, old)
              /\ \E old \in SUBSET gaps : gaps' = PruneGaps(gaps, old)
              /\ seen' = PruneSeen(seen, contiguous)
              /\ UNCHANGED <<contiguous, lastHlc>>
    /\ UNCHANGED faults

-----------------------------------------------------------------------------
(* Calls of the queue consumers, and what may befall the object *)


\* Mutant of MarkCommitted: the UPDATE is an upsert.
MarkCommittedUpsert(k) ==
    /\ rows' = [rows EXCEPT ![k] =
           IF Known(k) THEN [@ EXCEPT !.state = "COMMITTED", !.failed = FALSE]
                       ELSE [state |-> "COMMITTED", failed |-> FALSE]]
    /\ UNCHANGED <<contiguous, lastHlc, seen, gaps, alarm, call, faults>>

MarkCommitted(k) ==
    /\ rows' = [rows EXCEPT ![k] =
           IF Known(k) THEN [@ EXCEPT !.state = "COMMITTED", !.failed = FALSE] ELSE @]
    /\ UNCHANGED <<contiguous, lastHlc, seen, gaps, alarm, call, faults>>

MarkFailed(k) ==
    /\ rows' = [rows EXCEPT ![k] =
           IF @.state \in Live THEN [@ EXCEPT !.failed = TRUE] ELSE @]
    /\ UNCHANGED <<contiguous, lastHlc, seen, gaps, alarm, call, faults>>

\* The object leaves memory: calls are lost, storage stays, and the runtime
\* delivers an alarm again whose handler did not finish.
Evict ==
    /\ faults < MaxFaults
    /\ alarm' = (alarm \/ \E c \in Call : call[c].by = "alarm")
    /\ call' = [c \in Call |-> Idle]
    /\ faults' = faults + 1
    /\ UNCHANGED store

\* The object is recreated without its storage.
Recreate ==
    /\ CanRecreate
    /\ faults < MaxFaults
    /\ rows' = [k \in Key |-> Absent]
    /\ contiguous' = 0
    /\ lastHlc' = 0
    /\ seen' = {}
    /\ gaps' = {}
    /\ alarm' = FALSE
    /\ call' = [c \in Call |-> Idle]
    /\ faults' = faults + 1

Batches == {b \in SUBSET Sale : b # {} /\ Cardinality(b) <= MaxBatch}

Next ==
    \/ \E c \in Call :
          \/ \E batch \in Batches, cp \in Checkpoint : SubmitBatch(c, batch, cp)
          \/ \E chunk \in SUBSET Sale : Send(c, chunk)
          \/ Mark(c)
          \/ SendFails(c)
          \/ Alarm(c)
    \/ \E k \in Key : MarkCommitted(k) \/ MarkFailed(k)
    \/ Evict
    \/ Recreate

Spec == Init /\ [][Next]_vars

-----------------------------------------------------------------------------
(* Properties *)

\* A receipt that still has to reach PostgreSQL is never forgotten: whenever
\* one is live, the alarm is set or its handler is under way.
AlarmCoversOutbox ==
    (\E k \in Key : IsLive(rows[k])) => alarm \/ \E c \in Call : call[c].by = "alarm"

\* The numbers that the open gaps name, and those below the highest one seen
\* that have not arrived.
Reported == UNION {g.from .. g.to : g \in {h \in gaps : h.open}}
Missing == (UNION {contiguous + 1 .. m.seq : m \in seen}) \ SeqsOf(seen)

\* No missing number goes unreported, and no number is reported twice, nor
\* once the prefix has passed it.  A number that arrives ahead of the prefix stays in
\* its gap: the gaps say what was missed, not what is missing now.
GapsCoverMissing ==
    /\ Missing \subseteq Reported
    /\ \A g \in gaps : g.open =>
          /\ contiguous < g.from /\ g.from <= g.to
          /\ \A h \in gaps : h.open /\ h # g => h.to < g.from \/ g.to < h.from

\* What the gaps report follows from what arrives: a number is reported from the
\* step in which it is found missing until the prefix passes it, however its gap
\* is cut on the way, and no number that is here is added.
GapsFollowArrivals ==
    [][Recreate \/ Reported' = {n \in Reported \cup Missing' : n > contiguous'}]_vars

\* "... a missing earlier sequence from arriving and closing a gap" (line 292): a
\* gap whose numbers have all arrived is not open.  Only the prefix closes a gap.
GapsCloseOnArrival == \A g \in gaps : g.open => ~(g.from .. g.to \subseteq SeqsOf(seen))

\* "at most 1,000 out-of-order sequences [...] are accepted" (README.md:148): the
\* limit is on numbers out of order.  The next number in order, new, under a new
\* key and with its clock in place, is taken however many wait behind it.
NextNumberIsTaken ==
    \A m \in Sale, cp \in Checkpoint :
        LET base == Reconciled(cp) IN
        /\ ~Known(m.key)
        /\ m.seq = base.seq + 1 /\ m.seq \notin SeqsOf(base.seen)
        /\ ~ClockRegression(base.seen \cup {m}, base)
        => ~Refused({m}, cp)

\* "An unseen key cannot claim a sequence already owned by a different
\* accepted sale": ahead of the prefix, the table of numbers remembers every
\* receipt, and no two receipts of one number.
NumbersHaveOneOwner ==
    /\ \A k \in Key :
          Known(k) /\ rows[k].sale.seq > contiguous => rows[k].sale \in seen
    /\ \A m, n \in seen : m.seq = n.seq => m = n

\* A finalized receipt stays so: a committed one is committed until it is
\* pruned, a failed one can only turn out to be committed.  Marks of chunks
\* sent before, and late dead letters, do not undo it.
FinalizedStays ==
    [][\A k \in Key :
          /\ rows[k].state = "COMMITTED" => rows'[k].state \in {"COMMITTED", "ABSENT", "ENQUEUE_PENDING"}
          /\ rows[k].state \in Live /\ rows[k].failed =>
                rows'[k].state \in {"COMMITTED", "ABSENT"} \/ rows'[k] = rows[k]]_vars

\* What a batch that arrives with the checkpoint cp makes of the prefix.  It
\* starts from cp if that is ahead, passes the numbers that are here one by one,
\* each with a clock that is not behind the one before, and stops at the first
\* that is not here.
PrefixTakes(batch, cp) ==
    LET start == IF cp.seq > contiguous THEN cp.seq ELSE contiguous
        clock == IF cp.seq >= contiguous THEN cp.hlc ELSE lastHlc
        here  == seen \cup Unknown(batch)
        taken == {m \in here : start < m.seq /\ m.seq <= contiguous'}
    IN  /\ start <= contiguous'
        /\ start + 1 .. contiguous' \subseteq SeqsOf(taken)
        /\ contiguous' + 1 \notin SeqsOf(here)
        /\ \A m \in taken : m.seq = start + 1 => clock <= m.hlc
        /\ \A m, n \in taken : n.seq = m.seq + 1 => m.hlc <= n.hlc
        /\ \A m \in taken : m.seq = contiguous' => lastHlc' = m.hlc
        /\ taken = {} => lastHlc' = clock

\* Each batch that is accepted moves the prefix as far as what has arrived and
\* the checkpoint of this very request let it, so that an object that has lost its
\* storage is again where the origin was; nothing else but that loss moves it.
PrefixAdvances ==
    [][ /\ contiguous' # contiguous =>
              Recreate \/ \E c \in Call, batch \in Batches, cp \in Checkpoint : SubmitBatch(c, batch, cp)
        /\ \A c \in {d \in Call : call[d] = Idle}, batch \in Batches, cp \in Checkpoint :
              PrefixTakes(batch, cp) \/ ~SubmitAccepted(c, batch, cp) ]_vars

=============================================================================
