---------------------------- MODULE EdgeSyncProofs ----------------------------
(***************************************************************************)
(* What the edge tells a terminal is true of the financial record: for any  *)
(* number of sales, batches, gate calls and consumers, and however often    *)
(* messages are repeated and processes die.                                *)
(*                                                                         *)
(* A receipt is found by its key.  That a mark made for a message falls on  *)
(* the receipt of the message's own sale needs KeysAreOwn: the terminals    *)
(* never use one key for two sales, on which the gate may forget a receipt. *)
(***************************************************************************)
EXTENDS EdgeSync, FiniteSetTheorems, TLAPS

ConsumerType == [at : {"idle"}] \cup [at : {"commit", "mark", "dead", "fail"}, msg : Message]

RequestType == [batch : {{}}] \cup [batch : SUBSET Sale, cp : Checkpoint]

\* The part of TypeOK that the properties rest on.
Types ==
    /\ rows \in [Key -> Gate!RowType]
    /\ contiguous \in Nat /\ seen \subseteq Sale
    /\ call \in [Call -> Gate!CallType]
    /\ idem \subseteq Sale /\ sales \subseteq Sale
    /\ checkpoint \in [Terminal -> [seq : Nat, hlc : Nat]]
    /\ stmt \in [Session -> Origin!StmtType]
    /\ request \in [Request -> RequestType]
    /\ queue \subseteq Message
    /\ consumer \in [Session -> ConsumerType]
    /\ dlq \subseteq Sale

\* Every sale has a key of its own.
KeysAreOwn == \A m, n \in Sale : m.key = n.key => m = n

\* A receipt is of a sale with its key; a committed one is of a committed sale.
Receipts ==
    \A k \in Key : rows[k].state # "ABSENT" =>
        /\ rows[k].sale.key = k
        /\ KeysAreOwn /\ rows[k].state = "COMMITTED" => rows[k].sale \in sales

\* What a statement saw is still there, and a good verdict is about the record.
OriginSound ==
    /\ idem \subseteq sales
    /\ \A s \in Session :
          /\ stmt[s].at = "running" => stmt[s].prior \subseteq idem
          /\ stmt[s].at = "done" /\ stmt[s].verdict \in {"committed", "duplicate"} =>
                stmt[s].sale \in sales

\* A consumer's statement is about its message; it marks what is committed.
Consumers ==
    \A s \in Session :
        /\ consumer[s].at = "commit" =>
              stmt[s].at # "idle" /\ stmt[s].sale = consumer[s].msg.sale
        /\ consumer[s].at = "mark" => consumer[s].msg.sale \in sales

\* The gate has the number of m: in its prefix, or among those ahead of it.
Arrived(m) == m.seq <= contiguous \/ m \in seen
ArrivedNext(m) == m.seq <= contiguous' \/ m \in seen'

\* Every sale on its way to the origin has arrived at the gate, and the next
\* number has not: the origin cannot overtake the prefix.
PrefixCovers ==
    /\ \A k \in Key : rows[k].state # "ABSENT" => Arrived(rows[k].sale)
    /\ \A c \in Call : call[c].by # "nobody" =>
          \A m \in call[c].todo \cup call[c].sent : Arrived(m)
    /\ \A q \in queue : Arrived(q.sale)
    /\ \A s \in Session : consumer[s].at # "idle" => Arrived(consumer[s].msg.sale)
    /\ \A m \in seen : m.seq # contiguous + 1
    /\ checkpoint[TheTerminal].seq <= contiguous

\* The inductive invariant.
IInv ==
    /\ Types
    /\ Receipts
    /\ OriginSound
    /\ Consumers
    /\ ~CanRecreate => PrefixCovers

-----------------------------------------------------------------------------

LEMMA SaleFields ==
    ASSUME NEW m \in Sale
    PROVE  m.key \in Key /\ m.seq \in Nat /\ m.seq > 0 /\ m.terminal \in Terminal
BY EdgeAssumption DEF Origin!SaleShape

LEMMA OneTerminal == TheTerminal \in Terminal
BY EdgeAssumption DEF TheTerminal

\* The gate's own instance of FiniteSets counts as ours does.
LEMMA GateCounts == \A X : Gate!Cardinality(X) = Cardinality(X)
BY Zenon DEF Cardinality, Gate!Cardinality

LEMMA RowFields ==
    ASSUME NEW row \in Gate!RowType, row.state # "ABSENT"
    PROVE  /\ row \in [state : Gate!Live \cup {"COMMITTED"}, sale : Sale, failed : BOOLEAN]
           /\ row.sale \in Sale
BY DEF Gate!RowType

LEMMA InitHolds == Init => IInv
<1> SUFFICES ASSUME Init PROVE IInv
  OBVIOUS
<1> USE DEF Init, Gate!Init, Origin!Init
<1>1. rows = [k \in Key |-> [state |-> "ABSENT"]] /\ contiguous = 0 /\ seen = {}
  BY DEF Gate!EmptyStore, Gate!Absent
<1>2. call = [c \in Call |-> [by |-> "nobody"]]
  BY DEF Gate!Idle
<1>3. stmt = [s \in Session |-> [at |-> "idle"]]
  BY DEF Origin!Idle
<1>4. consumer = [s \in Session |-> [at |-> "idle"]]
  BY DEF Idle
<1>5. checkpoint = [t \in Terminal |-> [seq |-> 0, hlc |-> 0]]
  BY DEF Origin!NoCheckpoint
<1>6. Types
  <2>1. rows \in [Key -> Gate!RowType] /\ call \in [Call -> Gate!CallType]
    BY <1>1, <1>2 DEF Gate!RowType, Gate!CallType
  <2>2. stmt \in [Session -> Origin!StmtType] /\ consumer \in [Session -> ConsumerType]
    BY <1>3, <1>4 DEF Origin!StmtType, ConsumerType
  <2>3. checkpoint \in [Terminal -> [seq : Nat, hlc : Nat]]
    BY <1>5
  <2>4. request \in [Request -> RequestType]
    BY DEF NoRequest, RequestType
  <2> QED BY <1>1, <2>1, <2>2, <2>3, <2>4 DEF Types
<1>7. Receipts /\ OriginSound /\ Consumers
  BY <1>1, <1>3, <1>4 DEF Receipts, OriginSound, Consumers
<1>8. PrefixCovers
  BY <1>1, <1>2, <1>4, <1>5, OneTerminal DEF PrefixCovers
<1> QED BY <1>6, <1>7, <1>8 DEF IInv
-----------------------------------------------------------------------------
(* The steps of the gate *)

\* The origin and the queues stay.
Others == <<idem, sales, checkpoint, stmt, queue, consumer, dlq>>

\* What a step of the gate may do to the receipt of k.
ReceiptStep(k) ==
    \/ rows'[k] = rows[k]
    \/ rows'[k] = Gate!Absent /\ rows[k].state = "COMMITTED"
    \/ /\ rows'[k] \in [state : Gate!Live, sale : Sale, failed : BOOLEAN]
       /\ rows'[k].sale.key = k
       /\ rows[k].state \in {"ABSENT", "COMMITTED"} \/ rows'[k].sale = rows[k].sale
       /\ ~CanRecreate => ArrivedNext(rows'[k].sale)

\* The prefix only grows, and what is ahead of it stays until it is inside.
PrefixStep ==
    /\ contiguous' \in Nat /\ contiguous <= contiguous'
    /\ seen' \subseteq Sale
    /\ \A m \in seen : m \in seen' \/ m.seq <= contiguous'
    /\ \A m \in seen' : m.seq # contiguous' + 1

LEMMA ArrivedStays ==
    ASSUME Types, PrefixStep, NEW m \in Sale, Arrived(m)
    PROVE  ArrivedNext(m)
BY SaleFields DEF Types, PrefixStep, Arrived, ArrivedNext

LEMMA SamePrefix ==
    ASSUME Types, ~CanRecreate => PrefixCovers, contiguous' = contiguous,
           seen' \in {seen, Gate!PruneSeen(seen, contiguous)}
    PROVE  ~CanRecreate => PrefixStep
BY SaleFields DEF Types, PrefixCovers, PrefixStep, Gate!PruneSeen

\* Steps of the gate that keep these bounds keep the invariant.
LEMMA GateStepKeeps ==
    ASSUME IInv, UNCHANGED Others, request' \in [Request -> RequestType],
           contiguous' \in Nat, seen' \subseteq Sale, call' \in [Call -> Gate!CallType],
           rows' = [k \in Key |-> rows'[k]],
           \A k \in Key : ReceiptStep(k),
           ~CanRecreate => PrefixStep,
           \A c \in Call : call'[c].by # "nobody" =>
               \A m \in call'[c].todo \cup call'[c].sent :
                   \/ call[c].by # "nobody" /\ m \in call[c].todo \cup call[c].sent
                   \/ \E k \in Key : rows'[k].state # "ABSENT" /\ m = rows'[k].sale
    PROVE  IInv'
<1>1. UNCHANGED <<idem, sales, checkpoint, stmt, queue, consumer, dlq>>
  BY DEF Others
<1>2. Types
  BY DEF IInv
<1>3. \A k \in Key : rows[k] \in Gate!RowType
  BY <1>2 DEF Types
<1>4. \A k \in Key : rows'[k] \in Gate!RowType
  BY <1>3 DEF ReceiptStep, Gate!RowType, Gate!Absent
<1>5. Types'
  BY <1>1, <1>2, <1>4 DEF Types
<1>6. Receipts'
  <2> SUFFICES ASSUME NEW k \in Key, rows'[k].state # "ABSENT"
               PROVE  /\ rows'[k].sale.key = k
                      /\ KeysAreOwn /\ rows'[k].state = "COMMITTED" => rows'[k].sale \in sales
    BY <1>1 DEF Receipts
  <2>1. CASE rows'[k] = rows[k]
    BY <2>1 DEF IInv, Receipts
  <2>2. CASE rows'[k] = Gate!Absent
    BY <2>2 DEF Gate!Absent
  <2>3. CASE rows'[k] \in [state : Gate!Live, sale : Sale, failed : BOOLEAN] /\ rows'[k].sale.key = k
    BY <2>3 DEF Gate!Live
  <2> QED BY <2>1, <2>2, <2>3 DEF ReceiptStep
<1>7. OriginSound' /\ Consumers'
  BY <1>1 DEF IInv, OriginSound, Consumers
<1>8. ASSUME ~CanRecreate PROVE PrefixCovers'
  <2>1. PrefixStep /\ PrefixCovers
    BY <1>8 DEF IInv
  <2>2. \A m \in Sale : Arrived(m) => ArrivedNext(m)
    BY <1>2, <2>1, ArrivedStays
  <2>3. ASSUME NEW k \in Key, rows'[k].state # "ABSENT" PROVE ArrivedNext(rows'[k].sale)
    <3>1. CASE rows'[k] = rows[k]
      <4>1. rows[k].sale \in Sale /\ Arrived(rows[k].sale)
        BY <1>3, <2>1, <2>3, <3>1, RowFields DEF PrefixCovers
      <4> QED BY <2>2, <3>1, <4>1
    <3>2. CASE rows'[k] = Gate!Absent
      BY <2>3, <3>2 DEF Gate!Absent
    <3> QED BY <1>8, <3>1, <3>2 DEF ReceiptStep
  <2>4. ASSUME NEW c \in Call, call'[c].by # "nobody",
               NEW m \in call'[c].todo \cup call'[c].sent
        PROVE  ArrivedNext(m)
    <3>1. CASE call[c].by # "nobody" /\ m \in call[c].todo \cup call[c].sent
      <4>1. call[c] \in Gate!CallType
        BY <1>2 DEF Types
      <4>2. m \in Sale
        BY <3>1, <4>1 DEF Gate!CallType
      <4> QED BY <2>1, <2>2, <3>1, <4>2 DEF PrefixCovers
    <3> QED BY <2>3, <2>4, <3>1
  <2>5. ASSUME NEW q \in queue PROVE ArrivedNext(q.sale)
    <3>1. q.sale \in Sale
      BY <1>2 DEF Types, Message
    <3> QED BY <2>1, <2>2, <3>1 DEF PrefixCovers
  <2>6. ASSUME NEW s \in Session, consumer[s].at # "idle" PROVE ArrivedNext(consumer[s].msg.sale)
    <3>1. consumer[s].msg.sale \in Sale
      BY <1>2, <2>6 DEF Types, ConsumerType, Message
    <3> QED BY <2>1, <2>2, <2>6, <3>1 DEF PrefixCovers
  <2>7. checkpoint[TheTerminal].seq <= contiguous'
    <3>1. checkpoint[TheTerminal].seq \in Nat
      BY <1>2, OneTerminal DEF Types
    <3> QED BY <1>2, <2>1, <3>1 DEF PrefixCovers, PrefixStep, Types
  <2>8. \A m \in seen' : m.seq # contiguous' + 1
    BY <2>1 DEF PrefixStep
  <2> QED BY <1>1, <2>3, <2>4, <2>5, <2>6, <2>7, <2>8 DEF PrefixCovers, Arrived, ArrivedNext
<1> QED BY <1>5, <1>6, <1>7, <1>8 DEF IInv

LEMMA SelectedRows ==
    ASSUME NEW table, NEW sel \in SUBSET Key, Gate!Selects(table, sel),
           \A k \in Key : table[k] \in Gate!RowType,
           NEW m \in {table[k].sale : k \in sel}
    PROVE  m \in Sale /\ \E k \in Key : table[k].state # "ABSENT" /\ m = table[k].sale
<1>1. PICK k \in sel : m = table[k].sale
  OBVIOUS
<1>2. k \in Key /\ table[k].state # "ABSENT"
  BY DEF Gate!Selects, Gate!IsLive, Gate!Live
<1> QED BY <1>1, <1>2, RowFields

\* The first step of flushPending: a call takes sales of the receipts.
LEMMA FlushTakesSales ==
    ASSUME NEW by \in {"submit", "alarm"}, NEW todo \in SUBSET Sale, NEW x,
           x = Gate!Idle \/ x = [by |-> by, todo |-> todo, sent |-> {}]
    PROVE  x \in Gate!CallType /\ (x.by # "nobody" => x.sent = {} /\ x.todo = todo)
BY DEF Gate!CallType, Gate!Idle

\* What reconcileOriginCheckpoint leaves of the prefix.
LEMMA ReconciledPrefix ==
    ASSUME Types, NEW cp \in Checkpoint
    PROVE  /\ Gate!Reconciled(cp).seq \in Nat /\ contiguous <= Gate!Reconciled(cp).seq
           /\ Gate!Reconciled(cp).seen \subseteq seen
           /\ \A m \in seen : m \in Gate!Reconciled(cp).seen \/ m.seq <= Gate!Reconciled(cp).seq
<1>1. cp.seq \in Nat /\ contiguous \in Nat /\ \A m \in seen : m \in Sale
  BY DEF Checkpoint, Types
<1>2. CASE cp.seq > contiguous
  <2>1. /\ Gate!Reconciled(cp).seq = cp.seq
        /\ Gate!Reconciled(cp).seen = {m \in seen : m.seq > cp.seq}
    BY <1>2 DEF Gate!Reconciled, Gate!PruneSeen
  <2> QED BY <1>1, <1>2, <2>1, SaleFields
<1>3. CASE ~(cp.seq > contiguous)
  <2>1. Gate!Reconciled(cp).seq = contiguous /\ Gate!Reconciled(cp).seen = seen
    BY <1>3 DEF Gate!Reconciled, Gate!SequenceState
  <2> QED BY <1>1, <2>1
<1> QED BY <1>2, <1>3

LEMMA SubmitKeeps ==
    ASSUME IInv, NEW r \in Request, NEW c \in Call, SubmitBatch(r, c)
    PROVE  IInv'
<1> DEFINE batch == request[r].batch
           cp == request[r].cp
           base == Gate!Reconciled(cp)
           S == Gate!SeenAfter(batch, base)
<1>1. Types /\ UNCHANGED Others /\ request' = [request EXCEPT ![r] = NoRequest]
  BY DEF IInv, SubmitBatch, Others, originVars
<1>2. batch \subseteq Sale /\ cp \in Checkpoint
  BY <1>1 DEF SubmitBatch, Types, RequestType, NoRequest
<1>3. request' \in [Request -> RequestType]
  BY <1>1 DEF Types, RequestType, NoRequest
<1>4. CASE Gate!SubmitRefused(c, batch, cp)
  <2>1. UNCHANGED <<rows, contiguous, seen, call>>
    BY <1>4 DEF Gate!SubmitRefused, Gate!store
  <2>2. \A k \in Key : ReceiptStep(k)
    BY <2>1 DEF ReceiptStep
  <2>3. ~CanRecreate => PrefixStep
    BY <1>1, <2>1, SamePrefix DEF IInv
  <2> QED BY <1>1, <1>3, <2>1, <2>2, <2>3, GateStepKeeps DEF Types
<1>5. CASE Gate!SubmitAccepted(c, batch, cp)
  <2>0. PICK oldRows \in SUBSET Gate!CommittedKeys : rows' = Gate!RowsAfter(batch, oldRows)
    BY <1>5 DEF Gate!SubmitAccepted
  <2>1. /\ ~Gate!Refused(batch, cp)
        /\ Gate!StartFlush(c, "submit", rows')
    BY <1>5 DEF Gate!SubmitAccepted
  <2>2. PICK n \in base.seq .. base.seq + Cardinality(S) :
          Gate!PrefixEnd(n, S, base) /\ contiguous' = n /\ seen' = Gate!PruneSeen(S, n)
    BY <1>5, GateCounts DEF Gate!SubmitAccepted
  <2>3. S = base.seen \cup Gate!Ahead(batch, base) /\ Gate!Ahead(batch, base) \subseteq batch
    BY DEF Gate!SeenAfter, Gate!Ahead, Gate!Unknown
  <2>4. /\ base.seq \in Nat /\ contiguous <= base.seq /\ base.seen \subseteq seen
        /\ \A m \in seen : m \in base.seen \/ m.seq <= base.seq
    BY <1>1, <1>2, ReconciledPrefix
  <2>5. S \subseteq Sale
    BY <1>1, <1>2, <2>3, <2>4 DEF Types
  <2>6. n \in Nat /\ base.seq <= n /\ contiguous <= n
    <3>1. IsFiniteSet(S)
      BY <2>5, EdgeAssumption, FS_Subset
    <3>2. Cardinality(S) \in Nat
      BY <3>1, FS_CardinalityType
    <3> HIDE DEF S, base
    <3> QED BY <1>1, <2>2, <2>4, <3>2 DEF Types
  <2>7. PrefixStep
    <3> HIDE DEF S, base
    <3>1. \A m \in S : m.seq # n + 1
      BY <2>2 DEF Gate!PrefixEnd, Gate!SeqsOf
    <3>2. seen' = {m \in S : m.seq > n}
      BY <2>2 DEF Gate!PruneSeen
    <3>3. \A m \in seen : m \in Sale
      BY <1>1 DEF Types
    <3>4. seen' \subseteq Sale
      BY <2>5, <3>2
    <3>5. ASSUME NEW m \in seen PROVE m \in seen' \/ m.seq <= n
      <4>1. m \in Sale /\ m.seq \in Nat
        BY <3>3, SaleFields
      <4>2. CASE m \in base.seen
        BY <2>3, <2>6, <3>2, <4>1, <4>2
      <4>3. CASE m.seq <= base.seq
        BY <2>4, <2>6, <4>1, <4>3
      <4> QED BY <2>4, <4>2, <4>3
    <3> QED BY <2>2, <2>6, <3>1, <3>2, <3>4, <3>5 DEF PrefixStep
  <2>8. ASSUME NEW k \in Key PROVE ReceiptStep(k)
    <3> DEFINE kept == Gate!PruneRows(rows, oldRows)
               fresh == [state |-> "ENQUEUE_PENDING", failed |-> FALSE,
                         sale |-> CHOOSE m \in batch : m.key = k]
               isNew == kept[k].state = "ABSENT" /\ \E m \in batch : m.key = k
    <3>1. rows'[k] = (IF isNew THEN fresh ELSE kept[k])
      BY <2>0 DEF Gate!RowsAfter
    <3>2. kept[k] = IF k \in oldRows THEN Gate!Absent ELSE rows[k]
      BY DEF Gate!PruneRows
    <3>3. k \in oldRows => rows[k].state = "COMMITTED"
      BY DEF Gate!CommittedKeys
    <3>4. CASE ~isNew
      BY <3>1, <3>2, <3>3, <3>4 DEF ReceiptStep
    <3>5. CASE isNew
      <4> DEFINE m == CHOOSE x \in batch : x.key = k
      <4>1. m \in batch /\ m.key = k
        BY <3>5
      <4>2. m \in Sale
        BY <1>2, <4>1
      <4>3. rows[k].state \in {"ABSENT", "COMMITTED"}
        BY <3>2, <3>3, <3>5
      <4>4. fresh \in [state : Gate!Live, sale : Sale, failed : BOOLEAN] /\ fresh.sale = m
        BY <4>2 DEF Gate!Live
      <4>5. ASSUME ~CanRecreate PROVE ArrivedNext(m)
        <5>1. CASE m.seq <= n
          BY <2>2, <5>1 DEF ArrivedNext
        <5>2. CASE m.seq > n /\ ~Gate!Known(m.key)
          <6>1. m \in Gate!Ahead(batch, base)
            BY <2>4, <2>6, <4>1, <4>2, <5>2, SaleFields DEF Gate!Ahead, Gate!Unknown
          <6> QED BY <2>2, <2>3, <5>2, <6>1 DEF ArrivedNext, Gate!PruneSeen
        <5>3. CASE m.seq > n /\ Gate!Known(m.key)
          <6>1. rows[k].sale = m /\ rows[k].state # "ABSENT"
            BY <2>1, <4>1, <5>3 DEF Gate!Refused, Gate!KeyRefused, Gate!Known
          <6>2. Arrived(m)
            BY <4>5, <6>1 DEF IInv, PrefixCovers
          <6>3. m.seq > base.seq /\ m.seq > contiguous
            BY <1>1, <2>4, <2>6, <4>2, <5>3, SaleFields DEF Types
          <6>4. m \in seen
            BY <1>1, <4>2, <6>2, <6>3, SaleFields DEF Arrived, Types
          <6>5. m \in base.seen
            BY <2>4, <4>2, <6>3, <6>4, SaleFields
          <6> QED BY <2>2, <2>3, <5>3, <6>5 DEF ArrivedNext, Gate!PruneSeen
        <5> QED BY <2>6, <4>2, <5>1, <5>2, <5>3, SaleFields
      <4> HIDE DEF m
      <4> QED BY <3>1, <3>5, <4>1, <4>3, <4>4, <4>5 DEF ReceiptStep
    <3> QED BY <3>4, <3>5
  <2>9. \A k \in Key : rows'[k] \in Gate!RowType
    <3>1. \A k \in Key : rows[k] \in Gate!RowType
      BY <1>1 DEF Types
    <3> QED BY <2>8, <3>1 DEF ReceiptStep, Gate!RowType, Gate!Absent
  <2>10. rows' = [k \in Key |-> rows'[k]]
    BY <2>0 DEF Gate!RowsAfter
  <2>11. /\ call' \in [Call -> Gate!CallType]
         /\ \A x \in Call : x # c => call'[x] = call[x]
         /\ call'[c].by # "nobody" => call'[c].sent = {} /\
              \A m \in call'[c].todo : \E k \in Key : rows'[k].state # "ABSENT" /\ m = rows'[k].sale
    <3>1. PICK sel \in SUBSET Key :
            /\ Gate!Selects(rows', sel)
            /\ call' = [call EXCEPT ![c] =
                   IF sel = {} THEN Gate!Idle
                   ELSE [by |-> "submit", todo |-> {rows'[k].sale : k \in sel}, sent |-> {}]]
      BY <2>1 DEF Gate!StartFlush
    <3> DEFINE todo == {rows'[k].sale : k \in sel}
               x == IF sel = {} THEN Gate!Idle ELSE [by |-> "submit", todo |-> todo, sent |-> {}]
    <3>2. \A m \in todo : m \in Sale /\ \E k \in Key : rows'[k].state # "ABSENT" /\ m = rows'[k].sale
      BY <2>9, <3>1, SelectedRows
    <3>3. todo \in SUBSET Sale
      BY <3>2
    <3>4. call' = [call EXCEPT ![c] = x] /\ call \in [Call -> Gate!CallType]
      BY <1>1, <3>1 DEF Types
    <3>5. x \in Gate!CallType /\ (x.by # "nobody" => x.sent = {} /\ x.todo = todo)
      <4> HIDE DEF todo
      <4> QED BY <3>3, FlushTakesSales
    <3> HIDE DEF batch, cp, base, S, todo, x
    <3> QED BY <3>2, <3>4, <3>5
  <2> QED BY <1>1, <1>3, <2>2, <2>7, <2>8, <2>10, <2>11, GateStepKeeps DEF PrefixStep
<1> QED BY <1>4, <1>5 DEF SubmitBatch, Gate!SubmitBatch

\* What arrived stays arrived while the prefix does not move.
LEMMA PruneKeepsArrived ==
    ASSUME Types, contiguous' = contiguous, seen' \in {seen, Gate!PruneSeen(seen, contiguous)},
           NEW m \in Sale, Arrived(m)
    PROVE  ArrivedNext(m)
BY SaleFields DEF Types, Arrived, ArrivedNext, Gate!PruneSeen

LEMMA MarkKeeps ==
    ASSUME IInv, NEW c \in Call, Gate!Mark(c), UNCHANGED <<originVars, request, queue, consumer, dlq>>
    PROVE  IInv'
<1> DEFINE table == Gate!MarkQueued(rows, call[c].sent)
<1>1. Types /\ Receipts /\ UNCHANGED Others /\ request' = request
  BY DEF IInv, Others, originVars
<1>2. contiguous' = contiguous /\ seen' \in {seen, Gate!PruneSeen(seen, contiguous)}
  BY DEF Gate!Mark
<1>3. seen' \subseteq Sale
  BY <1>1, <1>2 DEF Types, Gate!PruneSeen
<1>4. PICK old \in SUBSET Gate!CommittedKeys : rows' = Gate!PruneRows(table, old)
  <2>1. CASE rows' = table
    <3>1. {} \in SUBSET Gate!CommittedKeys /\ Gate!PruneRows(table, {}) = table
      BY DEF Gate!PruneRows, Gate!MarkQueued
    <3> QED BY <2>1, <3>1
  <2>2. CASE \E old \in SUBSET Gate!CommittedKeys : rows' = Gate!PruneRows(table, old)
    BY <2>2
  <2> QED BY <2>1, <2>2 DEF Gate!Mark
<1>5. call' \in [Call -> Gate!CallType]
  <2>1. call[c] \in Gate!CallType /\ call[c].by # "nobody"
    BY <1>1 DEF Types, Gate!Mark, Gate!Idle, Gate!CallType
  <2>2. (IF call[c].todo = {} THEN Gate!Idle ELSE [call[c] EXCEPT !.sent = {}]) \in Gate!CallType
    BY <2>1 DEF Gate!CallType, Gate!Idle
  <2> QED BY <1>1, <2>2 DEF Types, Gate!Mark
<1>6. ASSUME NEW x \in Call, call'[x].by # "nobody"
      PROVE  call[x].by # "nobody" /\ call'[x].todo \cup call'[x].sent \subseteq call[x].todo \cup call[x].sent
  <2>1. call[c] \in Gate!CallType /\ call[c].by # "nobody"
    BY <1>1 DEF Types, Gate!Mark, Gate!Idle, Gate!CallType
  <2>2. CASE x # c
    BY <1>1, <1>6, <2>2 DEF Gate!Mark, Types
  <2>3. CASE x = c
    <3>1. call'[c] = IF call[c].todo = {} THEN Gate!Idle ELSE [call[c] EXCEPT !.sent = {}]
      BY <1>1 DEF Gate!Mark, Types
    <3>2. call'[c] = [call[c] EXCEPT !.sent = {}]
      BY <1>6, <2>3, <3>1 DEF Gate!Idle
    <3> QED BY <2>1, <2>3, <3>2 DEF Gate!CallType
  <2> QED BY <2>2, <2>3
<1>7. ASSUME NEW k \in Key PROVE ReceiptStep(k)
  <2>1. rows'[k] = IF k \in old THEN Gate!Absent ELSE table[k]
    BY <1>4 DEF Gate!PruneRows
  <2>2. k \in old => rows[k].state = "COMMITTED"
    BY DEF Gate!CommittedKeys
  <2>3. CASE table[k] = rows[k]
    BY <2>1, <2>2, <2>3 DEF ReceiptStep
  <2>4. CASE k \notin old /\ Gate!IsLive(rows[k]) /\ table[k] = [rows[k] EXCEPT !.state = "QUEUED"]
    <3>1. rows[k] \in Gate!RowType /\ rows[k].state \in Gate!Live
      BY <1>1, <2>4 DEF Types, Gate!IsLive
    <3>2. rows[k].state # "ABSENT" /\ rows[k].sale \in Sale /\ rows[k].failed \in BOOLEAN
      BY <3>1, RowFields DEF Gate!Live
    <3>3. /\ rows'[k] \in [state : Gate!Live, sale : Sale, failed : BOOLEAN]
          /\ rows'[k].sale = rows[k].sale
      BY <2>1, <2>4, <3>1, <3>2, RowFields DEF Gate!Live
    <3>4. rows'[k].sale.key = k
      BY <1>1, <3>2, <3>3 DEF Receipts
    <3>5. ~CanRecreate => ArrivedNext(rows'[k].sale)
      <4>1. ~CanRecreate => Arrived(rows[k].sale)
        BY <3>2 DEF IInv, PrefixCovers
      <4> QED BY <1>1, <1>2, <3>2, <3>3, <4>1, PruneKeepsArrived
    <3> QED BY <3>3, <3>4, <3>5 DEF ReceiptStep
  <2>5. table[k] \in {rows[k], [rows[k] EXCEPT !.state = "QUEUED"]} /\ (table[k] # rows[k] => Gate!IsLive(rows[k]))
    BY DEF Gate!MarkQueued
  <2>6. CASE k \in old
    BY <2>1, <2>2, <2>6 DEF ReceiptStep
  <2> QED BY <2>3, <2>4, <2>5, <2>6
<1>8. ~CanRecreate => PrefixStep
  BY <1>1, <1>2, SamePrefix DEF IInv
<1>9. rows' = [k \in Key |-> rows'[k]]
  BY <1>4 DEF Gate!PruneRows
<1> HIDE DEF table
<1>10. contiguous' \in Nat /\ request' \in [Request -> RequestType]
  BY <1>1, <1>2 DEF Types
<1> QED BY <1>1, <1>3, <1>5, <1>6, <1>7, <1>8, <1>9, <1>10, GateStepKeeps

LEMMA AlarmKeeps ==
    ASSUME IInv, NEW c \in Call, Gate!Alarm(c), UNCHANGED <<originVars, request, queue, consumer, dlq>>
    PROVE  IInv'
<1>1. Types /\ UNCHANGED Others /\ request' = request
  BY DEF IInv, Others, originVars
<1>2. Gate!StartFlush(c, "alarm", rows)
  BY DEF Gate!Alarm
<1>3. PICK sel \in SUBSET Key :
        /\ Gate!Selects(rows, sel)
        /\ call' = [call EXCEPT ![c] =
               IF sel = {} THEN Gate!Idle
               ELSE [by |-> "alarm", todo |-> {rows[k].sale : k \in sel}, sent |-> {}]]
  BY <1>2 DEF Gate!StartFlush
<1> DEFINE todo == {rows[k].sale : k \in sel}
           x == IF sel = {} THEN Gate!Idle ELSE [by |-> "alarm", todo |-> todo, sent |-> {}]
<1>4. \A m \in todo : m \in Sale /\ \E k \in Key : rows[k].state # "ABSENT" /\ m = rows[k].sale
  <2>1. \A k \in Key : rows[k] \in Gate!RowType
    BY <1>1 DEF Types
  <2> QED BY <1>3, <2>1, SelectedRows
<1>5. x \in Gate!CallType /\ (x.by # "nobody" => x.sent = {} /\ x.todo = todo)
  <2>1. todo \in SUBSET Sale
    BY <1>4
  <2> HIDE DEF todo
  <2> QED BY <2>1, FlushTakesSales
<1>6. call' = [call EXCEPT ![c] = x] /\ call \in [Call -> Gate!CallType]
  BY <1>1, <1>3 DEF Types
<1> HIDE DEF todo, x
<1>7. call' \in [Call -> Gate!CallType] /\ call'[c] = x /\ \A y \in Call : y # c => call'[y] = call[y]
  BY <1>5, <1>6
<1>8. contiguous' = contiguous /\ seen' \in {seen, Gate!PruneSeen(seen, contiguous)}
  BY DEF Gate!Alarm, Gate!store
<1>9. seen' \subseteq Sale /\ contiguous' \in Nat /\ request' \in [Request -> RequestType]
  BY <1>1, <1>8 DEF Types, Gate!PruneSeen
<1>10. \/ rows' = rows
       \/ call'[c] = Gate!Idle /\ \E old \in SUBSET Gate!CommittedKeys : rows' = Gate!PruneRows(rows, old)
  BY DEF Gate!Alarm, Gate!store
<1>11. \A k \in Key : ReceiptStep(k)
  BY <1>10 DEF Gate!CommittedKeys, Gate!PruneRows, ReceiptStep
<1>12. ~CanRecreate => PrefixStep
  BY <1>1, <1>8, SamePrefix DEF IInv
<1>13. rows' = [k \in Key |-> rows'[k]]
  BY <1>1, <1>10 DEF Gate!PruneRows, Types
<1>14. ASSUME NEW y \in Call, call'[y].by # "nobody", NEW m \in call'[y].todo \cup call'[y].sent
       PROVE  \/ call[y].by # "nobody" /\ m \in call[y].todo \cup call[y].sent
              \/ \E k \in Key : rows'[k].state # "ABSENT" /\ m = rows'[k].sale
  <2>1. CASE y # c
    BY <1>7, <1>14, <2>1
  <2>2. CASE y = c
    <3>1. m \in todo
      BY <1>5, <1>7, <1>14, <2>2
    <3>2. rows' = rows
      BY <1>10, <1>14, <2>2 DEF Gate!Idle
    <3> QED BY <1>4, <3>1, <3>2
  <2> QED BY <2>1, <2>2
<1> QED BY <1>1, <1>7, <1>9, <1>11, <1>12, <1>13, <1>14, GateStepKeeps

LEMMA GateRunsKeeps ==
    ASSUME IInv, NEW c \in Call, GateRuns(c)
    PROVE  IInv'
<1>1. CASE Gate!Mark(c)
  BY <1>1, MarkKeeps DEF GateRuns
<1>2. CASE Gate!Alarm(c)
  BY <1>2, AlarmKeeps DEF GateRuns
<1>3. CASE Gate!SendFails(c)
  <2>1. Types /\ UNCHANGED Others /\ request' = request
    BY DEF IInv, Others, originVars, GateRuns
  <2>2. UNCHANGED <<rows, contiguous, seen>> /\ call' = [call EXCEPT ![c] = Gate!Idle]
    BY <1>3 DEF Gate!SendFails, Gate!store
  <2>3. \A k \in Key : ReceiptStep(k)
    BY <2>2 DEF ReceiptStep
  <2>4. ~CanRecreate => PrefixStep
    BY <2>1, <2>2, SamePrefix DEF IInv
  <2>5. call' \in [Call -> Gate!CallType]
    BY <2>1, <2>2 DEF Types, Gate!CallType, Gate!Idle
  <2>6. \A y \in Call : call'[y].by # "nobody" => call'[y] = call[y]
    BY <2>1, <2>2 DEF Types, Gate!Idle
  <2>7. rows' = [k \in Key |-> rows'[k]] /\ contiguous' \in Nat /\ seen' \subseteq Sale
        /\ request' \in [Request -> RequestType]
    BY <2>1, <2>2 DEF Types
  <2> QED BY <2>1, <2>3, <2>4, <2>5, <2>6, <2>7, GateStepKeeps
<1> QED BY <1>1, <1>2, <1>3 DEF GateRuns

LEMMA GateLostKeeps ==
    ASSUME IInv, GateLost
    PROVE  IInv'
<1>1. Types /\ UNCHANGED Others /\ request' = request
  BY DEF IInv, Others, originVars, GateLost
<1>2. call' = [c \in Call |-> Gate!Idle]
  BY DEF GateLost, Gate!Evict, Gate!Recreate
<1>3. call' \in [Call -> Gate!CallType] /\ \A c \in Call : call'[c].by = "nobody"
  BY <1>2 DEF Gate!CallType, Gate!Idle
<1>4. CASE Gate!Evict
  <2>1. UNCHANGED <<rows, contiguous, seen>>
    BY <1>4 DEF Gate!Evict, Gate!store
  <2>2. \A k \in Key : ReceiptStep(k)
    BY <2>1 DEF ReceiptStep
  <2>3. ~CanRecreate => PrefixStep
    BY <1>1, <2>1, SamePrefix DEF IInv
  <2>4. rows' = [k \in Key |-> rows'[k]] /\ contiguous' \in Nat /\ seen' \subseteq Sale
        /\ request' \in [Request -> RequestType]
    BY <1>1, <2>1 DEF Types
  <2> QED BY <1>1, <1>3, <2>2, <2>3, <2>4, GateStepKeeps
<1>5. CASE Gate!Recreate
  <2>1. CanRecreate /\ rows' = [k \in Key |-> Gate!Absent] /\ contiguous' = 0 /\ seen' = {}
    BY <1>5 DEF Gate!Recreate
  <2>2. Types'
    BY <1>1, <1>3, <2>1 DEF Types, Others, Gate!RowType, Gate!Absent
  <2>3. Receipts'
    BY <2>1 DEF Receipts, Gate!Absent
  <2>4. OriginSound' /\ Consumers'
    BY <1>1 DEF IInv, OriginSound, Consumers, Others
  <2> QED BY <2>1, <2>2, <2>3, <2>4 DEF IInv
<1> QED BY <1>4, <1>5 DEF GateLost
-----------------------------------------------------------------------------
(* The steps of everything else.  They leave the prefix alone, and of the   *)
(* receipts they change at most the status.                                *)

LEMMA RestKeeps ==
    ASSUME IInv, UNCHANGED <<contiguous, seen, call>>, Types', Receipts', OriginSound', Consumers',
           \A k \in Key : rows'[k].state # "ABSENT" =>
               rows[k].state # "ABSENT" /\ rows'[k].sale = rows[k].sale,
           ~CanRecreate =>
               /\ \A q \in queue' : Arrived(q.sale)
               /\ \A s \in Session : consumer'[s].at # "idle" => Arrived(consumer'[s].msg.sale)
               /\ checkpoint'[TheTerminal].seq <= contiguous
    PROVE  IInv'
<1> SUFFICES ASSUME ~CanRecreate PROVE PrefixCovers'
  BY DEF IInv
<1>1. PrefixCovers
  BY DEF IInv
<1>2. \A k \in Key : rows'[k].state # "ABSENT" => Arrived(rows'[k].sale)
  BY <1>1 DEF PrefixCovers
<1> QED BY <1>1, <1>2 DEF PrefixCovers, Arrived

LEMMA ReceiptsStay ==
    ASSUME Receipts, rows' = rows, sales \subseteq sales'
    PROVE  Receipts'
BY DEF Receipts

\* A message in a consumer's hands.
LEMMA HeldMessage ==
    ASSUME IInv, NEW s \in Session, consumer[s].at # "idle"
    PROVE  /\ consumer[s] \in [at : {"commit", "mark", "dead", "fail"}, msg : Message]
           /\ consumer[s].msg \in Message /\ consumer[s].msg.sale \in Sale
           /\ ~CanRecreate => Arrived(consumer[s].msg.sale)
BY DEF IInv, Types, ConsumerType, Message, PrefixCovers

LEMMA RedeliverStep ==
    ASSUME IInv, NEW s \in Session, consumer[s].at # "idle", Redeliver(consumer[s].msg)
    PROVE  /\ queue' \subseteq Message /\ dlq' \subseteq Sale
           /\ \A q \in queue' : q \in queue \/ q.sale = consumer[s].msg.sale
<1> DEFINE msg == consumer[s].msg
<1>1. msg \in Message /\ msg.sale \in Sale /\ queue \subseteq Message /\ dlq \subseteq Sale
  BY HeldMessage DEF IInv, Types
<1>2. CASE msg.attempts < MaxDeliveries
  <2>1. queue' = queue \cup {[msg EXCEPT !.attempts = @ + 1]} /\ dlq' = dlq
    BY <1>2 DEF Redeliver
  <2>2. msg.attempts + 1 \in 1 .. MaxDeliveries
    BY <1>1, <1>2, EdgeAssumption DEF Message
  <2> DEFINE again == [msg EXCEPT !.attempts = @ + 1]
  <2>3. again \in Message /\ again.sale = msg.sale
    BY <1>1, <2>2 DEF Message
  <2>4. queue' = queue \cup {again}
    BY <2>1
  <2> HIDE DEF again
  <2> QED BY <1>1, <2>1, <2>3, <2>4
<1>3. CASE ~(msg.attempts < MaxDeliveries)
  BY <1>1, <1>3 DEF Redeliver
<1> QED BY <1>2, <1>3

\* A consumer lets its message go, with the record as it is.
LEMMA FreeKeeps ==
    ASSUME IInv, NEW s \in Session, consumer[s].at # "idle", Redeliver(consumer[s].msg), Free(s),
           UNCHANGED <<rows, contiguous, seen, call, idem, sales, checkpoint, request>>,
           stmt' \in [Session -> Origin!StmtType],
           \A x \in Session : stmt'[x] = stmt[x] \/ (x = s /\ stmt'[x].at = "idle")
    PROVE  IInv'
<1>1. Types /\ consumer' = [consumer EXCEPT ![s] = Idle]
  BY DEF IInv, Free
<1>2. consumer'[s].at = "idle" /\ \A x \in Session : x # s => consumer'[x] = consumer[x]
  BY <1>1 DEF Types, Idle
<1>3. consumer' \in [Session -> ConsumerType]
  BY <1>1 DEF Types, Idle, ConsumerType
<1>4. Types'
  BY <1>1, <1>3, RedeliverStep DEF Types
<1>5. Receipts'
  BY ReceiptsStay DEF IInv
<1>6. OriginSound'
  BY DEF IInv, OriginSound
<1>7. Consumers'
  BY <1>2 DEF IInv, Consumers
<1>8. ASSUME ~CanRecreate
      PROVE  /\ \A q \in queue' : Arrived(q.sale)
             /\ \A x \in Session : consumer'[x].at # "idle" => Arrived(consumer'[x].msg.sale)
             /\ checkpoint'[TheTerminal].seq <= contiguous
  <2>1. PrefixCovers /\ Arrived(consumer[s].msg.sale)
    BY <1>8, HeldMessage DEF IInv
  <2> QED BY <1>2, <2>1, RedeliverStep DEF PrefixCovers
<1> QED BY <1>4, <1>5, <1>6, <1>7, <1>8, RestKeeps

\* A consumer goes on with its message, with the record as it is.
LEMMA GoToKeeps ==
    ASSUME IInv, NEW s \in Session, consumer[s].at # "idle", NEW phase \in {"mark", "dead", "fail"},
           GoTo(s, phase), phase = "mark" => consumer[s].msg.sale \in sales,
           UNCHANGED <<rows, contiguous, seen, call, idem, sales, checkpoint, request, queue>>,
           dlq' \subseteq Sale, stmt' \in [Session -> Origin!StmtType],
           \A x \in Session : stmt'[x] = stmt[x] \/ (x = s /\ stmt'[x].at = "idle")
    PROVE  IInv'
<1>1. Types /\ consumer' = [consumer EXCEPT ![s] = [@ EXCEPT !.at = phase]]
  BY DEF IInv, GoTo
<1>2. consumer[s] \in [at : {"commit", "mark", "dead", "fail"}, msg : Message]
  BY HeldMessage
<1>3. /\ [consumer[s] EXCEPT !.at = phase] \in ConsumerType
      /\ [consumer[s] EXCEPT !.at = phase].at = phase
      /\ [consumer[s] EXCEPT !.at = phase].msg = consumer[s].msg
  BY <1>2 DEF ConsumerType
<1>4. /\ consumer' \in [Session -> ConsumerType]
      /\ consumer'[s].at = phase /\ consumer'[s].msg = consumer[s].msg
      /\ \A x \in Session : x # s => consumer'[x] = consumer[x]
  BY <1>1, <1>3 DEF Types
<1>5. Types'
  BY <1>1, <1>4 DEF Types
<1>6. Receipts' /\ OriginSound'
  BY ReceiptsStay DEF IInv, OriginSound
<1>7. Consumers'
  BY <1>4 DEF IInv, Consumers
<1>8. ASSUME ~CanRecreate
      PROVE  /\ \A q \in queue' : Arrived(q.sale)
             /\ \A x \in Session : consumer'[x].at # "idle" => Arrived(consumer'[x].msg.sale)
             /\ checkpoint'[TheTerminal].seq <= contiguous
  <2>1. PrefixCovers /\ Arrived(consumer[s].msg.sale)
    BY <1>8, HeldMessage DEF IInv
  <2> QED BY <1>4, <2>1 DEF PrefixCovers
<1> QED BY <1>5, <1>6, <1>7, <1>8, RestKeeps

-----------------------------------------------------------------------------
(* Worker, enqueue, delivery *)

LEMMA WorkerKeeps ==
    ASSUME IInv, NEW r \in Request,
           (\E batch \in Gate!Batches : ReceiveBatch(r, batch)) \/ DropRequest(r)
    PROVE  IInv'
<1>1. /\ Types /\ request' \in [Request -> RequestType]
      /\ UNCHANGED <<rows, contiguous, seen, call, originVars, queue, consumer, dlq>>
  <2>1. Types /\ checkpoint[TheTerminal] \in Checkpoint
    BY OneTerminal DEF IInv, Types, Checkpoint
  <2>2. CASE DropRequest(r)
    BY <2>1, <2>2 DEF DropRequest, Types, NoRequest, RequestType, gateTables
  <2>3. CASE \E batch \in Gate!Batches : ReceiveBatch(r, batch)
    <3>1. PICK batch \in Gate!Batches : ReceiveBatch(r, batch)
      BY <2>3
    <3>2. batch \subseteq Sale
      BY DEF Gate!Batches
    <3>3. [batch |-> batch, cp |-> checkpoint[TheTerminal]] \in RequestType
      BY <2>1, <3>2 DEF RequestType
    <3> QED BY <2>1, <3>1, <3>3 DEF ReceiveBatch, Types, gateVars
  <2> QED BY <2>2, <2>3
<1>2. UNCHANGED <<idem, sales, checkpoint, stmt>>
  BY <1>1 DEF originVars
<1>3. Types'
  BY <1>1, <1>2 DEF Types
<1>4. Receipts' /\ OriginSound' /\ Consumers'
  BY <1>1, <1>2, ReceiptsStay DEF IInv, OriginSound, Consumers
<1>5. ~CanRecreate => PrefixCovers
  BY DEF IInv
<1> QED BY <1>1, <1>2, <1>3, <1>4, <1>5, RestKeeps DEF PrefixCovers

LEMMA EnqueueKeeps ==
    ASSUME IInv, NEW c \in Call, NEW chunk \in SUBSET Sale, Enqueue(c, chunk)
    PROVE  IInv'
<1>1. Types /\ UNCHANGED <<idem, sales, checkpoint, stmt, request, consumer, dlq>>
  BY DEF IInv, Enqueue, originVars
<1>2. /\ UNCHANGED <<rows, contiguous, seen>>
      /\ chunk \subseteq call[c].todo
      /\ call[c].sent = {} /\ call[c] # Gate!Idle
      /\ call' = [call EXCEPT ![c].sent = chunk, ![c].todo = @ \ chunk]
  BY DEF Enqueue, Gate!Send, Gate!store
<1>3. call[c] \in Gate!CallType /\ call[c].by # "nobody"
  BY <1>1, <1>2 DEF Types, Gate!CallType, Gate!Idle
<1>4. /\ call'[c] \in Gate!CallType /\ call'[c].todo \cup call'[c].sent \subseteq call[c].todo
      /\ call' \in [Call -> Gate!CallType]
      /\ \A y \in Call : y # c => call'[y] = call[y]
  <2> DEFINE x == [call[c] EXCEPT !.sent = chunk, !.todo = @ \ chunk]
  <2>1. x \in Gate!CallType /\ x.todo \cup x.sent \subseteq call[c].todo
    BY <1>2, <1>3 DEF Gate!CallType
  <2>2. call' = [call EXCEPT ![c] = x]
    BY <1>1, <1>2 DEF Types
  <2> HIDE DEF x
  <2> QED BY <1>1, <2>1, <2>2 DEF Types
<1>5. \A q \in queue' : q \in queue \/ (q \in Message /\ q.sale \in chunk)
  <2> SUFFICES ASSUME NEW m \in chunk PROVE NewMessage(m) \in Message /\ NewMessage(m).sale \in chunk
    BY DEF Enqueue
  <2>1. FreeCopies(m) # {}
    BY DEF Enqueue
  <2>2. (CHOOSE n \in FreeCopies(m) : TRUE) \in 1 .. MaxCopies
    BY <2>1 DEF FreeCopies
  <2>3. 1 \in 1 .. MaxDeliveries
    BY EdgeAssumption
  <2> QED BY <2>2, <2>3 DEF NewMessage, Message
<1>6. queue' \subseteq Message
  BY <1>1, <1>5 DEF Types
<1>7. Types'
  BY <1>1, <1>2, <1>4, <1>6 DEF Types
<1>8. Receipts' /\ OriginSound' /\ Consumers'
  BY <1>1, <1>2, ReceiptsStay DEF IInv, OriginSound, Consumers
<1>9. ASSUME ~CanRecreate PROVE PrefixCovers'
  <2>1. PrefixCovers
    BY <1>9 DEF IInv
  <2>2. \A q \in queue' : Arrived(q.sale)
    BY <1>2, <1>3, <1>5, <2>1 DEF PrefixCovers
  <2>3. \A y \in Call : call'[y].by # "nobody" =>
          \A m \in call'[y].todo \cup call'[y].sent : Arrived(m)
    BY <1>2, <1>3, <1>4, <2>1 DEF PrefixCovers
  <2> QED BY <1>1, <1>2, <2>1, <2>2, <2>3 DEF PrefixCovers, Arrived
<1> QED BY <1>7, <1>8, <1>9 DEF IInv

LEMMA DeliverKeeps ==
    ASSUME IInv, NEW s \in Session, NEW msg \in queue, Deliver(s, msg)
    PROVE  IInv'
<1>1. /\ Types /\ msg \in Message /\ msg.sale \in Sale
      /\ UNCHANGED <<rows, contiguous, seen, call, request, dlq>>
      /\ queue' = queue \ {msg}
  BY DEF IInv, Types, Deliver, gateVars, Message
<1>2. /\ UNCHANGED <<idem, sales, checkpoint>>
      /\ stmt' \in [Session -> Origin!StmtType]
      /\ consumer' \in [Session -> ConsumerType]
      /\ \A x \in Session : x # s => stmt'[x] = stmt[x] /\ consumer'[x] = consumer[x]
      /\ consumer'[s].at \in {"commit", "dead"} /\ consumer'[s].msg = msg
      /\ consumer'[s].at = "commit" =>
            stmt'[s].at = "running" /\ stmt'[s].sale = msg.sale /\ stmt'[s].prior \subseteq idem
      /\ consumer'[s].at = "dead" => stmt'[s] = stmt[s]
  <2>1. CASE EdgeHash = "envelope"
    <3> DEFINE st == [at         |-> "running",
                      sale       |-> msg.sale,
                      prior      |-> {r \in idem : r.key = msg.sale.key},
                      priorSeq   |-> {r \in sales : r.terminal = msg.sale.terminal /\ r.seq = msg.sale.seq},
                      rowVisible |-> checkpoint[msg.sale.terminal].seq > 0]
    <3>1. /\ consumer' = [consumer EXCEPT ![s] = [at |-> "commit", msg |-> msg]]
          /\ stmt' = [stmt EXCEPT ![s] = st]
          /\ UNCHANGED <<idem, sales, checkpoint>>
      BY <2>1 DEF Deliver, Origin!Begin
    <3>2. st \in Origin!StmtType /\ st.at = "running" /\ st.sale = msg.sale /\ st.prior \subseteq idem
      BY <1>1 DEF Types, Origin!StmtType
    <3>3. [at |-> "commit", msg |-> msg] \in ConsumerType
      BY <1>1 DEF ConsumerType
    <3> HIDE DEF st
    <3> QED BY <1>1, <3>1, <3>2, <3>3 DEF Types
  <2>2. CASE EdgeHash # "envelope"
    <3>1. /\ consumer' = [consumer EXCEPT ![s] = [at |-> "dead", msg |-> msg]]
          /\ UNCHANGED originVars
      BY <2>2 DEF Deliver
    <3>2. [at |-> "dead", msg |-> msg] \in ConsumerType
      BY <1>1 DEF ConsumerType
    <3> QED BY <1>1, <3>1, <3>2 DEF Types, originVars
  <2> QED BY <2>1, <2>2
<1>3. Types'
  BY <1>1, <1>2 DEF Types
<1>4. Receipts'
  BY <1>1, <1>2, ReceiptsStay DEF IInv
<1>5. OriginSound'
  BY <1>2 DEF IInv, OriginSound
<1>6. Consumers'
  BY <1>2 DEF IInv, Consumers
<1>7. ~CanRecreate => PrefixCovers
  BY DEF IInv
<1> QED BY <1>1, <1>2, <1>3, <1>4, <1>5, <1>6, <1>7, RestKeeps DEF PrefixCovers
-----------------------------------------------------------------------------
(* The statement of a consumer, and what it makes of the answer *)

\* The answer to a statement that wrote nothing.
LEMMA AnswerKeeps ==
    ASSUME IInv, NEW s \in Session, consumer[s].at = "commit", stmt[s].at = "running",
           NEW v \in Origin!Verdict, Origin!Answer(s, v),
           v \in {"committed", "duplicate"} => stmt[s].sale \in sales',
           idem \subseteq idem', sales \subseteq sales', idem' \subseteq sales', sales' \subseteq Sale,
           checkpoint' \in [Terminal -> [seq : Nat, hlc : Nat]],
           ~CanRecreate => checkpoint'[TheTerminal].seq <= contiguous,
           UNCHANGED <<rows, contiguous, seen, call, request, queue, consumer, dlq>>
    PROVE  IInv'
<1> DEFINE done == [at |-> "done", sale |-> stmt[s].sale, verdict |-> v]
<1>1. Types /\ stmt' = [stmt EXCEPT ![s] = done]
  BY DEF IInv, Origin!Answer
<1>2. stmt[s].sale \in Sale
  BY <1>1 DEF Types, Origin!StmtType
<1>3. done \in Origin!StmtType /\ done.at = "done" /\ done.sale = stmt[s].sale /\ done.verdict = v
  BY <1>2 DEF Origin!StmtType
<1> HIDE DEF done
<1>4. /\ stmt' \in [Session -> Origin!StmtType]
      /\ stmt'[s] = done /\ \A x \in Session : x # s => stmt'[x] = stmt[x]
  BY <1>1, <1>3 DEF Types
<1>5. Types'
  BY <1>1, <1>4 DEF Types
<1>6. Receipts'
  BY ReceiptsStay DEF IInv
<1>7. OriginSound'
  BY <1>3, <1>4 DEF IInv, OriginSound
<1>8. Consumers'
  BY <1>3, <1>4 DEF IInv, Consumers
<1>9. ~CanRecreate => PrefixCovers
  BY DEF IInv
<1> QED BY <1>5, <1>6, <1>7, <1>8, <1>9, RestKeeps DEF PrefixCovers

\* The origin never overtakes the prefix.
LEMMA NextNumberHasArrived ==
    ASSUME IInv, ~CanRecreate, NEW s \in Session, consumer[s].at = "commit",
           stmt[s].at = "running", Origin!CheckpointGuard(s)
    PROVE  stmt[s].sale.terminal = TheTerminal => stmt[s].sale.seq <= contiguous
<1> DEFINE m == stmt[s].sale
<1>1. /\ contiguous \in Nat /\ m \in Sale /\ checkpoint[TheTerminal].seq \in Nat
  BY OneTerminal DEF IInv, Types, Origin!StmtType
<1>2. PrefixCovers /\ Arrived(m)
  BY HeldMessage DEF IInv, Consumers
<1>3. m.terminal = TheTerminal => m.seq <= contiguous + 1
  <2>1. Origin!LockedCheckpoint(s).seq + 1 = m.seq
    BY DEF Origin!CheckpointGuard
  <2>2. m.terminal = TheTerminal =>
          Origin!LockedCheckpoint(s).seq \in {0, checkpoint[TheTerminal].seq}
    BY DEF Origin!LockedCheckpoint, Origin!NoCheckpoint
  <2> QED BY <1>1, <1>2, <2>1, <2>2 DEF PrefixCovers
<1>4. m.seq # contiguous + 1 \/ m.seq <= contiguous
  BY <1>2 DEF PrefixCovers, Arrived
<1> QED BY <1>1, <1>3, <1>4, SaleFields

LEMMA StatementKeeps ==
    ASSUME IInv, NEW s \in Session, RunStatement(s)
    PROVE  IInv'
<1>1. /\ Types /\ consumer[s].at = "commit"
      /\ UNCHANGED <<rows, contiguous, seen, call, request, queue, consumer, dlq>>
  BY DEF IInv, RunStatement, gateTables
<1>2. ~CanRecreate => checkpoint[TheTerminal].seq <= contiguous
  BY DEF IInv, PrefixCovers
<1>3. ASSUME NEW v \in {"committed", "retry"}, Origin!CommitAs(s, v) PROVE IInv'
  <2> DEFINE m == stmt[s].sale
  <2>1. /\ stmt[s].at = "running" /\ Origin!CheckpointGuard(s) /\ Origin!Answer(s, v)
        /\ idem' = idem \cup {m} /\ sales' = sales \cup {m}
        /\ checkpoint' = [checkpoint EXCEPT ![m.terminal] = [seq |-> m.seq, hlc |-> m.hlc]]
    BY <1>3 DEF Origin!CommitAs, Origin!Claimed
  <2>2. m \in Sale /\ m.seq \in Nat /\ m.hlc \in Nat /\ m.terminal \in Terminal
    BY <1>1, <2>1, EdgeAssumption DEF Types, Origin!StmtType, Origin!SaleShape
  <2>3. checkpoint' \in [Terminal -> [seq : Nat, hlc : Nat]]
    BY <1>1, <2>1, <2>2 DEF Types
  <2>4. ~CanRecreate => checkpoint'[TheTerminal].seq <= contiguous
    <3>1. CASE m.terminal = TheTerminal
      <4>1. checkpoint'[TheTerminal].seq = m.seq
        BY <1>1, <2>1, <3>1, OneTerminal DEF Types
      <4> QED BY <1>1, <2>1, <3>1, <4>1, NextNumberHasArrived
    <3>2. CASE m.terminal # TheTerminal
      <4>1. checkpoint'[TheTerminal] = checkpoint[TheTerminal]
        BY <1>1, <2>1, <3>2, OneTerminal DEF Types
      <4> QED BY <1>2, <4>1
    <3> QED BY <3>1, <3>2
  <2>5. idem \subseteq sales /\ sales \subseteq Sale /\ v \in Origin!Verdict
    BY <1>1 DEF IInv, OriginSound, Types, Origin!Verdict
  <2> QED BY <1>1, <2>1, <2>2, <2>3, <2>4, <2>5, AnswerKeeps
<1>4. ASSUME NEW v \in Origin!Verdict, stmt[s].at = "running", Origin!Answer(s, v),
             v # "committed", v = "duplicate" => stmt[s].sale \in stmt[s].prior,
             UNCHANGED <<idem, sales, checkpoint>>
      PROVE  IInv'
  <2>1. idem \subseteq sales /\ sales \subseteq Sale /\ stmt[s].prior \subseteq idem
    BY <1>1, <1>4 DEF IInv, OriginSound, Types
  <2>2. checkpoint' \in [Terminal -> [seq : Nat, hlc : Nat]]
    BY <1>1, <1>4 DEF Types
  <2> QED BY <1>1, <1>2, <1>4, <2>1, <2>2, AnswerKeeps
<1>5. CASE Origin!Commit(s) \/ Origin!CommitAnswerLost(s)
  BY <1>3, <1>5 DEF Origin!Commit, Origin!CommitAnswerLost
<1>6. CASE Origin!Refuse(s)
  <2>1. /\ stmt[s].at = "running" /\ Origin!Answer(s, Origin!Refusal(s))
        /\ UNCHANGED <<idem, sales, checkpoint>>
    BY <1>6 DEF Origin!Refuse
  <2>2. /\ Origin!Refusal(s) \in Origin!Verdict /\ Origin!Refusal(s) # "committed"
        /\ Origin!Refusal(s) = "duplicate" => stmt[s].sale \in stmt[s].prior
    BY DEF Origin!Refusal, Origin!Verdict
  <2> QED BY <1>4, <2>1, <2>2
<1>7. CASE Origin!RollBack(s)
  <2>1. "retry" \in Origin!Verdict
    BY DEF Origin!Verdict
  <2> QED BY <1>4, <1>7, <2>1 DEF Origin!RollBack
<1> QED BY <1>5, <1>6, <1>7 DEF RunStatement

LEMMA ReadVerdictKeeps ==
    ASSUME IInv, NEW s \in Session, ReadVerdict(s)
    PROVE  IInv'
<1>1. /\ Types /\ consumer[s].at = "commit" /\ stmt[s].at = "done"
      /\ UNCHANGED <<rows, contiguous, seen, call, request, idem, sales, checkpoint>>
      /\ stmt' = [stmt EXCEPT ![s] = Origin!Idle]
  BY DEF IInv, ReadVerdict, Origin!Return, gateVars
<1>2. /\ stmt' \in [Session -> Origin!StmtType]
      /\ \A x \in Session : stmt'[x] = stmt[x] \/ (x = s /\ stmt'[x].at = "idle")
  BY <1>1 DEF Types, Origin!StmtType, Origin!Idle
<1>3. CASE stmt[s].verdict \in {"committed", "duplicate"}
  <2>1. GoTo(s, "mark") /\ UNCHANGED <<queue, dlq>>
    BY <1>3 DEF ReadVerdict
  <2>2. consumer[s].msg.sale \in sales
    BY <1>1, <1>3 DEF IInv, OriginSound, Consumers
  <2>3. dlq' \subseteq Sale
    BY <1>1, <2>1 DEF Types
  <2> QED BY <1>1, <1>2, <2>1, <2>2, <2>3, GoToKeeps
<1>4. CASE HandleError(s, stmt[s].verdict = "permanent")
  <2>1. CASE GoTo(s, "dead") /\ UNCHANGED <<queue, dlq>>
    <3>1. dlq' \subseteq Sale
      BY <1>1, <2>1 DEF Types
    <3> QED BY <1>1, <1>2, <2>1, <3>1, GoToKeeps
  <2>2. CASE Free(s) /\ Redeliver(consumer[s].msg)
    BY <1>1, <1>2, <2>2, FreeKeeps
  <2> QED BY <1>4, <2>1, <2>2 DEF HandleError
<1> QED BY <1>3, <1>4 DEF ReadVerdict

LEMMA HandKeeps ==
    ASSUME IInv, NEW s \in Session, MarkCommittedThrows(s) \/ DeadLetter(s) \/ LoseConsumer(s)
    PROVE  IInv'
<1>1. /\ Types /\ consumer[s].at # "idle"
      /\ UNCHANGED <<rows, contiguous, seen, call, request, idem, sales, checkpoint, stmt>>
  BY DEF IInv, MarkCommittedThrows, DeadLetter, LoseConsumer, gateTables, gateVars, originVars
<1>2. stmt' \in [Session -> Origin!StmtType] /\ \A x \in Session : stmt'[x] = stmt[x]
  BY <1>1 DEF Types
<1>3. CASE Free(s) /\ Redeliver(consumer[s].msg)
  BY <1>1, <1>2, <1>3, FreeKeeps
<1>4. CASE GoTo(s, "dead") /\ UNCHANGED <<queue, dlq>>
  <2>1. dlq' \subseteq Sale
    BY <1>1, <1>4 DEF Types
  <2> QED BY <1>1, <1>2, <1>4, <2>1, GoToKeeps
<1>5. CASE DeadLetter(s)
  <2>1. dlq' \subseteq Sale
    BY <1>1, <1>5, HeldMessage DEF Types, DeadLetter
  <2>2. GoTo(s, "fail") /\ queue' = queue
    BY <1>5 DEF DeadLetter
  <2> QED BY <1>1, <1>2, <2>1, <2>2, GoToKeeps
<1> QED BY <1>3, <1>4, <1>5 DEF MarkCommittedThrows, LoseConsumer, HandleError
-----------------------------------------------------------------------------
(* The marks of receipts *)

LEMMA MarksKeep ==
    ASSUME IInv, NEW m \in Sale,
           \/ Gate!MarkCommitted(m.key) /\ m \in sales
           \/ Gate!MarkFailed(m.key),
           UNCHANGED <<idem, sales, checkpoint, stmt, request, queue>>,
           dlq' \subseteq Sale, consumer' \in [Session -> ConsumerType],
           \A x \in Session : consumer'[x] = consumer[x] \/ consumer'[x].at = "idle"
    PROVE  IInv'
<1>1. Types /\ Receipts /\ m.key \in Key
  BY SaleFields DEF IInv
<1>2. UNCHANGED <<contiguous, seen, call>>
  BY DEF Gate!MarkCommitted, Gate!MarkFailed
<1>3. /\ rows' \in [Key -> Gate!RowType]
      /\ \A k \in Key : rows'[k].state # "ABSENT" =>
            rows[k].state # "ABSENT" /\ rows'[k].sale = rows[k].sale
      /\ \A k \in Key : k # m.key => rows'[k] = rows[k]
      /\ rows'[m.key].state = "COMMITTED" => rows[m.key].state = "COMMITTED" \/ m \in sales
  <2>1. CASE rows' = rows
    BY <1>1, <2>1 DEF Types
  <2>2. CASE Gate!MarkCommitted(m.key) /\ m \in sales /\ rows[m.key].state # "ABSENT"
    <3> DEFINE x == [rows[m.key] EXCEPT !.state = "COMMITTED", !.failed = FALSE]
    <3>1. rows' = [rows EXCEPT ![m.key] = x]
      BY <2>2 DEF Gate!MarkCommitted, Gate!Known
    <3>2. x \in Gate!RowType /\ x.sale = rows[m.key].sale
      <4>1. rows[m.key] \in [state : Gate!Live \cup {"COMMITTED"}, sale : Sale, failed : BOOLEAN]
        BY <1>1, <2>2, RowFields DEF Types
      <4> QED BY <4>1 DEF Gate!RowType
    <3> HIDE DEF x
    <3> QED BY <1>1, <2>2, <3>1, <3>2 DEF Types
  <2>3. CASE Gate!MarkFailed(m.key) /\ rows[m.key].state \in Gate!Live
    <3> DEFINE x == [rows[m.key] EXCEPT !.failed = TRUE]
    <3>1. rows' = [rows EXCEPT ![m.key] = x]
      BY <2>3 DEF Gate!MarkFailed
    <3>2. x \in Gate!RowType /\ x.sale = rows[m.key].sale /\ x.state = rows[m.key].state
      <4>1. rows[m.key] \in [state : Gate!Live \cup {"COMMITTED"}, sale : Sale, failed : BOOLEAN]
        BY <1>1, <2>3, RowFields DEF Types, Gate!Live
      <4> QED BY <4>1 DEF Gate!RowType
    <3>3. rows[m.key].state # "ABSENT"
      BY <2>3 DEF Gate!Live
    <3> HIDE DEF x
    <3> QED BY <1>1, <2>3, <3>1, <3>2, <3>3 DEF Types
  <2> QED BY <1>1, <2>1, <2>2, <2>3 DEF Gate!MarkCommitted, Gate!MarkFailed, Gate!Known, Types
<1>4. Types'
  BY <1>1, <1>2, <1>3 DEF Types
<1>5. Receipts'
  <2> SUFFICES ASSUME NEW k \in Key, rows'[k].state # "ABSENT"
               PROVE  /\ rows'[k].sale.key = k
                      /\ KeysAreOwn /\ rows'[k].state = "COMMITTED" => rows'[k].sale \in sales
    BY DEF Receipts
  <2>1. rows[k].state # "ABSENT" /\ rows'[k].sale = rows[k].sale /\ rows[k].sale.key = k
    BY <1>1, <1>3 DEF Receipts
  <2>2. rows[k].sale \in Sale
    BY <1>1, <2>1, RowFields DEF Types
  <2>3. KeysAreOwn /\ k = m.key => rows[k].sale = m
    BY <2>1, <2>2 DEF KeysAreOwn
  <2> QED BY <1>1, <1>3, <2>1, <2>3 DEF Receipts
<1>6. OriginSound' /\ Consumers'
  BY DEF IInv, OriginSound, Consumers
<1>7. ~CanRecreate => PrefixCovers
  BY DEF IInv
<1> QED BY <1>2, <1>3, <1>4, <1>5, <1>6, <1>7, RestKeeps DEF PrefixCovers

LEMMA FinalizeKeeps ==
    ASSUME IInv, NEW s \in Session, FinalizeCommitted(s) \/ FinalizeFailed(s)
    PROVE  IInv'
<1>1. /\ Types /\ consumer[s].at # "idle"
      /\ consumer' = [consumer EXCEPT ![s] = Idle]
      /\ UNCHANGED <<idem, sales, checkpoint, stmt, request, queue, dlq>>
  BY DEF IInv, FinalizeCommitted, FinalizeFailed, Free, originVars
<1>2. /\ consumer' \in [Session -> ConsumerType]
      /\ \A x \in Session : consumer'[x] = consumer[x] \/ consumer'[x].at = "idle"
      /\ dlq' \subseteq Sale
  BY <1>1 DEF Types, Idle, ConsumerType
<1> DEFINE m == consumer[s].msg.sale
<1>3. m \in Sale
  BY <1>1, HeldMessage
<1>4. (Gate!MarkCommitted(m.key) /\ m \in sales) \/ Gate!MarkFailed(m.key)
  BY DEF FinalizeCommitted, FinalizeFailed, IInv, Consumers
<1> HIDE DEF m
<1> QED BY <1>1, <1>2, <1>3, <1>4, MarksKeep

LEMMA DlqKeeps ==
    ASSUME IInv, NEW m \in Sale, DlqFinalize(m)
    PROVE  IInv'
<1>1. /\ Types /\ Gate!MarkFailed(m.key) /\ dlq' = dlq \ {m}
      /\ UNCHANGED <<idem, sales, checkpoint, stmt, request, queue, consumer>>
  BY DEF IInv, DlqFinalize, originVars
<1> QED BY <1>1, MarksKeep DEF Types

-----------------------------------------------------------------------------

LEMMA StepHolds == IInv /\ [Next]_vars => IInv'
<1> SUFFICES ASSUME IInv, [Next]_vars PROVE IInv'
  OBVIOUS
<1>1. CASE UNCHANGED vars
  <2>1. UNCHANGED <<rows, contiguous, seen, call, idem, sales, checkpoint, stmt, request, queue, consumer, dlq>>
    BY <1>1 DEF vars, gateVars, originVars
  <2>2. Types' /\ Receipts' /\ OriginSound' /\ Consumers' /\ (~CanRecreate => PrefixCovers')
    BY <2>1 DEF IInv, Types, Receipts, OriginSound, Consumers, PrefixCovers, Arrived
  <2> QED BY <2>2 DEF IInv
<1>2. CASE Next
  <2>1. ASSUME NEW r \in Request, (\E batch \in Gate!Batches : ReceiveBatch(r, batch)) \/ DropRequest(r)
        PROVE  IInv'
    BY <2>1, WorkerKeeps
  <2>2. ASSUME NEW r \in Request, NEW c \in Call, SubmitBatch(r, c) PROVE IInv'
    BY <2>2, SubmitKeeps
  <2>3. ASSUME NEW c \in Call, NEW chunk \in SUBSET Sale, Enqueue(c, chunk) PROVE IInv'
    BY <2>3, EnqueueKeeps
  <2>4. ASSUME NEW c \in Call, GateRuns(c) PROVE IInv'
    BY <2>4, GateRunsKeeps
  <2>5. ASSUME GateLost PROVE IInv'
    BY <2>5, GateLostKeeps
  <2>6. ASSUME NEW s \in Session, NEW msg \in queue, Deliver(s, msg) PROVE IInv'
    BY <2>6, DeliverKeeps
  <2>7. ASSUME NEW s \in Session, RunStatement(s) PROVE IInv'
    BY <2>7, StatementKeeps
  <2>8. ASSUME NEW s \in Session, ReadVerdict(s) PROVE IInv'
    BY <2>8, ReadVerdictKeeps
  <2>9. ASSUME NEW s \in Session, MarkCommittedThrows(s) \/ DeadLetter(s) \/ LoseConsumer(s) PROVE IInv'
    BY <2>9, HandKeeps
  <2>10. ASSUME NEW s \in Session, FinalizeCommitted(s) \/ FinalizeFailed(s) PROVE IInv'
    BY <2>10, FinalizeKeeps
  <2>11. ASSUME NEW m \in Sale, DlqFinalize(m) PROVE IInv'
    BY <2>11, DlqKeeps
  <2> QED BY <1>2, <2>1, <2>2, <2>3, <2>4, <2>5, <2>6, <2>7, <2>8, <2>9, <2>10, <2>11 DEF Next
<1> QED BY <1>1, <1>2

LEMMA Invariance == Spec => []IInv
BY InitHolds, StepHolds, PTL DEF Spec

\* The receipt of k is forgotten only once it is committed.
LEMMA OnlyCommittedForgotten ==
    ASSUME IInv, Next, ~CanRecreate, NEW k \in Key,
           rows[k].state # "ABSENT", rows'[k].state = "ABSENT"
    PROVE  rows[k].state = "COMMITTED"
<1>0. Types
  BY DEF IInv
<1>1. rows[k].state \in Gate!Live \cup {"COMMITTED"}
  BY <1>0 DEF Types, Gate!RowType
<1>2. ASSUME NEW r \in Request, NEW c \in Call, SubmitBatch(r, c) PROVE rows[k].state = "COMMITTED"
  <2>1. PICK old \in SUBSET Gate!CommittedKeys : rows' = Gate!RowsAfter(request[r].batch, old)
    BY <1>2 DEF SubmitBatch, Gate!SubmitBatch, Gate!SubmitRefused, Gate!SubmitAccepted, Gate!store
  <2> QED BY <2>1 DEF Gate!RowsAfter, Gate!PruneRows, Gate!CommittedKeys
<1>3. ASSUME NEW c \in Call, GateRuns(c) PROVE rows[k].state = "COMMITTED"
  <2> DEFINE table == Gate!MarkQueued(rows, call[c].sent)
  <2>1. PICK old \in SUBSET Gate!CommittedKeys :
          (rows'[k] = Gate!Absent /\ k \in old) \/ rows'[k] = table[k] \/ rows'[k] = rows[k]
    BY <1>3 DEF GateRuns, Gate!Mark, Gate!Alarm, Gate!SendFails, Gate!store, Gate!PruneRows
  <2>2. table[k].state # "ABSENT"
    BY <1>0 DEF Gate!MarkQueued, Types, Gate!RowType, Gate!IsLive
  <2> QED BY <2>1, <2>2 DEF Gate!CommittedKeys
<1>4. ASSUME NEW m \in Sale, Gate!MarkCommitted(m.key) \/ Gate!MarkFailed(m.key)
      PROVE  rows'[k].state # "ABSENT"
  <2>1. rows[k] \in [state : Gate!Live \cup {"COMMITTED"}, sale : Sale, failed : BOOLEAN]
    BY <1>0, RowFields DEF Types
  <2>2. \/ rows'[k] = rows[k]
        \/ rows'[k] = [rows[k] EXCEPT !.state = "COMMITTED", !.failed = FALSE]
        \/ rows'[k] = [rows[k] EXCEPT !.failed = TRUE]
    BY <1>0, <1>4 DEF Gate!MarkCommitted, Gate!MarkFailed, Types
  <2>3. [rows[k] EXCEPT !.state = "COMMITTED", !.failed = FALSE].state = "COMMITTED"
    BY <2>1
  <2>4. [rows[k] EXCEPT !.failed = TRUE].state = rows[k].state
    BY <2>1
  <2> QED BY <2>2, <2>3, <2>4
<1>5. ASSUME NEW s \in Session, FinalizeCommitted(s) \/ FinalizeFailed(s) PROVE FALSE
  <2>1. consumer[s].msg.sale \in Sale
    BY <1>5, HeldMessage DEF FinalizeCommitted, FinalizeFailed
  <2> QED BY <1>4, <1>5, <2>1 DEF FinalizeCommitted, FinalizeFailed
<1>6. ASSUME NEW m \in Sale, DlqFinalize(m) PROVE FALSE
  BY <1>4, <1>6 DEF DlqFinalize
<1>7. ASSUME GateLost PROVE FALSE
  BY <1>7 DEF GateLost, Gate!Recreate, Gate!Evict, Gate!store
<1>8. ASSUME NEW r \in Request, (\E batch \in Gate!Batches : ReceiveBatch(r, batch)) \/ DropRequest(r)
      PROVE  rows' = rows
  BY <1>8 DEF ReceiveBatch, DropRequest, gateVars, gateTables
<1>9. ASSUME NEW c \in Call, NEW chunk \in SUBSET Sale, Enqueue(c, chunk) PROVE rows' = rows
  BY <1>9 DEF Enqueue, Gate!Send, Gate!store
<1>10. ASSUME NEW s \in Session,
              \/ \E msg \in queue : Deliver(s, msg)
              \/ RunStatement(s) \/ ReadVerdict(s) \/ MarkCommittedThrows(s)
              \/ DeadLetter(s) \/ LoseConsumer(s)
       PROVE  rows' = rows
  BY <1>10 DEF Deliver, RunStatement, ReadVerdict, MarkCommittedThrows, DeadLetter, LoseConsumer,
               gateVars, gateTables
<1> QED BY <1>2, <1>3, <1>5, <1>6, <1>7, <1>8, <1>9, <1>10 DEF Next

-----------------------------------------------------------------------------

\* A receipt says COMMITTED only of a sale the origin has (markCommitted is
\* called after commitSale), provided every sale has a key of its own.
THEOREM ReceiptsAreTrue ==
    ASSUME KeysAreOwn
    PROVE  Spec => []CommittedReceiptIsTrue
<1>1. KeysAreOwn
  OBVIOUS
<1>2. IInv => CommittedReceiptIsTrue
  BY <1>1 DEF IInv, Receipts, CommittedReceiptIsTrue, Gate!Status, Gate!Known
<1> QED BY <1>2, Invariance, PTL

\* While the object keeps its storage, its prefix covers the checkpoint of the
\* origin: submitBatch never has a number still to come that is committed.
THEOREM EdgeIsAhead == Spec => []EdgeCoversOrigin
<1>1. IInv => EdgeCoversOrigin
  BY DEF IInv, PrefixCovers, EdgeCoversOrigin
<1> QED BY <1>1, Invariance, PTL

\* pruneStorage forgets a receipt only of a sale that is in the record.
THEOREM ReceiptsAreKept ==
    ASSUME KeysAreOwn
    PROVE  Spec => ReceiptOutlivesDelivery
<1>1. KeysAreOwn
  OBVIOUS
<1>2. IInv /\ [Next]_vars =>
        [\A k \in Key : ~CanRecreate /\ Gate!Known(k) /\ ~Gate!Known(k)' => rows[k].sale \in sales]_vars
  <2> SUFFICES ASSUME IInv, Next, NEW k \in Key, ~CanRecreate, Gate!Known(k), ~Gate!Known(k)'
               PROVE  rows[k].sale \in sales
    OBVIOUS
  <2>1. rows[k].state # "ABSENT" /\ rows'[k].state = "ABSENT"
    BY DEF Gate!Known
  <2>2. rows[k].state = "COMMITTED"
    BY <2>1, OnlyCommittedForgotten
  <2> QED BY <1>1, <2>2 DEF IInv, Receipts
<1> QED BY <1>2, Invariance, PTL DEF Spec, ReceiptOutlivesDelivery

-----------------------------------------------------------------------------
(* The rest of TypeOK: what the properties above do not look at. *)

FullRequest == [batch : {{}}] \cup [batch : Gate!Batches, cp : Checkpoint]
LedgerRow == [sale : Sale, product : Product, delta : Int]

GateRest ==
    /\ lastHlc \in Nat
    /\ gaps \subseteq Gate!Gap
    /\ alarm \in BOOLEAN
    /\ faults \in 0 .. MaxFaults
OriginRest == ledger \subseteq LedgerRow /\ balance \in [Product -> Int]
RequestRest == request \in [Request -> FullRequest]

LEMMA ChangedGaps ==
    ASSUME NEW g \in Gate!Gap, NEW n \in Nat
    PROVE  [g EXCEPT !.open = FALSE] \in Gate!Gap /\ [g EXCEPT !.from = n] \in Gate!Gap
BY DEF Gate!Gap

LEMMA AddGapType ==
    ASSUME NEW G, NEW f \in Nat, NEW t \in Nat
    PROVE  Gate!AddGap(G, f, t) \subseteq Gate!Gap
<1>1. [from |-> f, to |-> t, open |-> TRUE] \in Gate!Gap
  BY DEF Gate!Gap
<1> QED BY <1>1 DEF Gate!AddGap

LEMMA NewGapsType ==
    ASSUME NEW batch \in SUBSET Sale, NEW base, base.seq \in Nat, base.seen \subseteq Sale
    PROVE  Gate!NewGaps(batch, base) \subseteq Gate!Gap
<1>1. \A n \in Gate!SeqsOf(base.seen) : n \in Nat
  BY SaleFields DEF Gate!SeqsOf
<1>2. \A m \in Gate!Ahead(batch, base) : m \in Sale
  BY DEF Gate!Ahead, Gate!Unknown
<1>3. ASSUME NEW m \in Gate!Ahead(batch, base), NEW h \in Gate!ObservedHigh(m, batch, base), m.seq > h + 1
      PROVE  Gate!AddGap(base.gaps, h + 1, m.seq - 1) \subseteq Gate!Gap
  <2>1. m.seq \in Nat /\ m.seq > 0
    BY <1>2, SaleFields
  <2>2. h \in Nat
    BY <1>1, <1>2, SaleFields DEF Gate!ObservedHigh, Gate!Below, Gate!SeqsOf
  <2> QED BY <2>1, <2>2, AddGapType
<1> QED BY <1>3 DEF Gate!NewGaps

LEMMA TrimGapsType ==
    ASSUME NEW G \in SUBSET Gate!Gap, NEW n \in Nat
    PROVE  Gate!TrimGaps(G, n) \subseteq Gate!Gap
<1> DEFINE rest == {g \in G : ~Gate!Straddles(g, n) /\ ~Gate!Resolved(g, n)}
<1>1. \A g \in G : Gate!AddGap(rest, n + 1, g.to) \subseteq Gate!Gap
  BY AddGapType DEF Gate!Gap
<1>2. \A g \in G : [g EXCEPT !.open = FALSE] \in Gate!Gap
  BY ChangedGaps
<1> QED BY <1>1, <1>2 DEF Gate!TrimGaps

LEMMA ReconciledRest ==
    ASSUME Types, GateRest, NEW cp \in Checkpoint
    PROVE  Gate!Reconciled(cp).hlc \in Nat /\ Gate!Reconciled(cp).gaps \subseteq Gate!Gap
<1>1. cp.seq \in Nat /\ cp.hlc \in Nat /\ contiguous \in Nat /\ lastHlc \in Nat /\ gaps \subseteq Gate!Gap
  BY DEF Checkpoint, Types, GateRest
<1>2. CASE cp.seq > contiguous
  <2> DEFINE G == {g \in gaps : ~g.open \/ g.from > cp.seq}
                   \cup {[g EXCEPT !.open = FALSE] : g \in {h \in gaps : Gate!Resolved(h, cp.seq)}}
                   \cup {[g EXCEPT !.from = cp.seq + 1] : g \in {h \in gaps : Gate!Straddles(h, cp.seq)}}
  <2>1. Gate!Reconciled(cp).hlc = cp.hlc /\ Gate!Reconciled(cp).gaps = G
    BY <1>2 DEF Gate!Reconciled
  <2>2. \A g \in gaps : [g EXCEPT !.open = FALSE] \in Gate!Gap /\ [g EXCEPT !.from = cp.seq + 1] \in Gate!Gap
    BY <1>1, ChangedGaps
  <2>3. G \subseteq Gate!Gap
    BY <1>1, <2>2
  <2> HIDE DEF G
  <2> QED BY <1>1, <2>1, <2>3
<1>3. CASE ~(cp.seq > contiguous)
  <2>1. Gate!Reconciled(cp).hlc \in {cp.hlc, lastHlc} /\ Gate!Reconciled(cp).gaps = gaps
    BY <1>3 DEF Gate!Reconciled, Gate!SequenceState
  <2> QED BY <1>1, <2>1
<1> QED BY <1>2, <1>3

LEMMA SubmitKeepsRest ==
    ASSUME IInv, GateRest, NEW r \in Request, NEW c \in Call, SubmitBatch(r, c)
    PROVE  GateRest'
<1> DEFINE batch == request[r].batch
           cp == request[r].cp
           base == Gate!Reconciled(cp)
           S == Gate!SeenAfter(batch, base)
<1>1. Types
  BY DEF IInv
<1>2. batch \subseteq Sale /\ cp \in Checkpoint
  BY <1>1 DEF SubmitBatch, Types, RequestType, NoRequest
<1>3. CASE Gate!SubmitRefused(c, batch, cp)
  BY <1>3 DEF Gate!SubmitRefused, Gate!store, GateRest
<1>4. CASE Gate!SubmitAccepted(c, batch, cp)
  <2>1. /\ base.seq \in Nat /\ base.hlc \in Nat /\ base.gaps \subseteq Gate!Gap
        /\ base.seen \subseteq Sale
    BY <1>1, <1>2, ReconciledPrefix, ReconciledRest DEF Types
  <2>2. S \subseteq Sale
    BY <1>2, <2>1 DEF Gate!SeenAfter, Gate!Ahead, Gate!Unknown
  <2>3. PICK n \in base.seq .. base.seq + Cardinality(S) :
          /\ lastHlc' \in IF n = base.seq THEN {base.hlc} ELSE {m.hlc : m \in {x \in S : x.seq = n}}
          /\ \E old \in SUBSET gaps : gaps' =
                 Gate!PruneGaps(Gate!TrimGaps(base.gaps \cup Gate!NewGaps(batch, base), n), old)
    BY <1>4, GateCounts DEF Gate!SubmitAccepted
  <2>4. alarm' = TRUE /\ faults' = faults
    BY <1>4 DEF Gate!SubmitAccepted
  <2> HIDE DEF S, base
  <2>5. n \in Nat
    <3>1. Cardinality(S) \in Nat
      BY <2>2, EdgeAssumption, FS_Subset, FS_CardinalityType
    <3> QED BY <2>1, <3>1
  <2>6. lastHlc' \in Nat
    <3>1. \A m \in S : m.hlc \in Nat
      BY <2>2, EdgeAssumption DEF Origin!SaleShape
    <3> QED BY <2>1, <2>3, <3>1
  <2>7. gaps' \subseteq Gate!Gap
    <3>1. Gate!NewGaps(batch, base) \subseteq Gate!Gap
      BY <1>2, <2>1, NewGapsType
    <3>2. Gate!TrimGaps(base.gaps \cup Gate!NewGaps(batch, base), n) \subseteq Gate!Gap
      BY <2>1, <2>5, <3>1, TrimGapsType
    <3> QED BY <2>3, <3>2 DEF Gate!PruneGaps
  <2> QED BY <2>4, <2>6, <2>7 DEF GateRest
<1> QED BY <1>3, <1>4 DEF SubmitBatch, Gate!SubmitBatch

LEMMA FaultCounts ==
    ASSUME faults \in 0 .. MaxFaults, faults < MaxFaults, faults' = faults + 1
    PROVE  faults' \in 0 .. MaxFaults
BY EdgeAssumption

LEMMA GateStepsKeepRest ==
    ASSUME GateRest, NEW c \in Call, GateRuns(c) \/ GateLost
    PROVE  GateRest'
<1>1. CASE Gate!Mark(c)
  BY <1>1 DEF Gate!Mark, Gate!RearmAlarm, Gate!PruneGaps, GateRest
<1>2. CASE Gate!SendFails(c)
  BY <1>2, FaultCounts DEF Gate!SendFails, Gate!store, GateRest
<1>3. CASE Gate!Alarm(c)
  BY <1>3 DEF Gate!Alarm, Gate!PruneGaps, Gate!store, GateRest
<1>4. CASE Gate!Evict
  BY <1>4, FaultCounts DEF Gate!Evict, Gate!store, GateRest
<1>5. CASE Gate!Recreate
  BY <1>5, FaultCounts DEF Gate!Recreate, GateRest
<1> QED BY <1>1, <1>2, <1>3, <1>4, <1>5 DEF GateRuns, GateLost

LEMMA GateRestHolds ==
    ASSUME IInv, GateRest, [Next]_vars
    PROVE  GateRest'
<1>1. CASE UNCHANGED gateVars
  BY <1>1 DEF gateVars, GateRest
<1>2. CASE UNCHANGED gateTables /\ Fault
  BY <1>2, FaultCounts DEF gateTables, Fault, GateRest
<1>3. CASE UNCHANGED gateTables /\ UNCHANGED faults
  BY <1>3 DEF gateTables, GateRest
<1>4. ASSUME NEW r \in Request, NEW c \in Call, SubmitBatch(r, c) PROVE GateRest'
  BY <1>4, SubmitKeepsRest
<1>5. ASSUME NEW c \in Call, NEW chunk \in SUBSET Sale, Enqueue(c, chunk) PROVE GateRest'
  BY <1>5 DEF Enqueue, Gate!Send, Gate!store, GateRest
<1>6. ASSUME NEW c \in Call, GateRuns(c) PROVE GateRest'
  BY <1>6, GateStepsKeepRest
<1>7. CASE GateLost
  <2>1. CASE Gate!Evict
    BY <2>1, FaultCounts DEF Gate!Evict, Gate!store, GateRest
  <2>2. CASE Gate!Recreate
    BY <2>2, FaultCounts DEF Gate!Recreate, GateRest
  <2> QED BY <1>7, <2>1, <2>2 DEF GateLost
<1>8. ASSUME NEW k, Gate!MarkCommitted(k) \/ Gate!MarkFailed(k) PROVE GateRest'
  BY <1>8 DEF Gate!MarkCommitted, Gate!MarkFailed, GateRest
<1>9. ASSUME NEW s \in Session, RunStatement(s) PROVE GateRest'
  BY <1>2, <1>3, <1>9 DEF RunStatement
<1>10. ASSUME NEW s \in Session, MarkCommittedThrows(s) \/ LoseConsumer(s) PROVE GateRest'
  BY <1>2, <1>10 DEF MarkCommittedThrows, LoseConsumer
<1>11. ASSUME NEW s \in Session, FinalizeCommitted(s) \/ FinalizeFailed(s) PROVE GateRest'
  BY <1>8, <1>11 DEF FinalizeCommitted, FinalizeFailed
<1>12. ASSUME NEW m \in Sale, DlqFinalize(m) PROVE GateRest'
  BY <1>8, <1>12 DEF DlqFinalize
<1>13. ASSUME NEW s \in Session, (\E msg \in queue : Deliver(s, msg)) \/ ReadVerdict(s) \/ DeadLetter(s)
       PROVE  GateRest'
  BY <1>1, <1>13 DEF Deliver, ReadVerdict, DeadLetter
<1>14. ASSUME NEW r \in Request, (\E batch \in Gate!Batches : ReceiveBatch(r, batch)) \/ DropRequest(r)
       PROVE  GateRest'
  BY <1>1, <1>2, <1>14 DEF ReceiveBatch, DropRequest
<1>15. CASE UNCHANGED vars
  BY <1>1, <1>15 DEF vars
<1> QED BY <1>4, <1>5, <1>6, <1>7, <1>9, <1>10, <1>11, <1>12, <1>13, <1>14, <1>15 DEF Next

\* Only a commit of the origin writes its ledger and balances.
LEMMA OriginRestHolds ==
    ASSUME IInv, OriginRest, [Next]_vars
    PROVE  OriginRest'
<1>1. CASE UNCHANGED <<ledger, balance>>
  BY <1>1 DEF OriginRest
<1>2. ASSUME NEW s \in Session, NEW v, Origin!CommitAs(s, v) PROVE OriginRest'
  <2> DEFINE m == stmt[s].sale
  <2>1. /\ stmt[s].at = "running"
        /\ ledger' = ledger \cup Origin!LedgerRows(m) /\ balance' = Origin!BalanceAfter(m)
    BY <1>2 DEF Origin!CommitAs
  <2>2. m \in Sale
    BY <2>1 DEF IInv, Types, Origin!StmtType
  <2>3. m.qty \in [Product -> Nat]
    BY <2>2, EdgeAssumption DEF Origin!SaleShape
  <2> HIDE DEF m
  <2>4. Origin!LedgerRows(m) \subseteq LedgerRow
    BY <2>2, <2>3 DEF Origin!LedgerRows, LedgerRow
  <2>5. Origin!BalanceAfter(m) \in [Product -> Int]
    BY <2>3 DEF Origin!BalanceAfter, OriginRest
  <2> QED BY <2>1, <2>4, <2>5 DEF OriginRest
<1>3. ASSUME NEW s \in Session, RunStatement(s) PROVE OriginRest'
  <2>1. CASE Origin!Commit(s) \/ Origin!CommitAnswerLost(s)
    BY <1>2, <2>1 DEF Origin!Commit, Origin!CommitAnswerLost
  <2>2. CASE Origin!Refuse(s) \/ Origin!RollBack(s)
    BY <1>1, <2>2 DEF Origin!Refuse, Origin!RollBack
  <2> QED BY <1>3, <2>1, <2>2 DEF RunStatement
<1>4. ASSUME NEW s \in Session, \E msg \in queue : Deliver(s, msg) PROVE OriginRest'
  BY <1>1, <1>4 DEF Deliver, Origin!Begin, originVars
<1>5. ASSUME NEW s \in Session, ReadVerdict(s) PROVE OriginRest'
  BY <1>1, <1>5 DEF ReadVerdict, Origin!Return
<1>6. CASE UNCHANGED originVars
  BY <1>1, <1>6 DEF originVars
<1>7. ASSUME NEW r \in Request, NEW c \in Call, SubmitBatch(r, c) PROVE OriginRest'
  BY <1>6, <1>7 DEF SubmitBatch
<1>8. ASSUME NEW r \in Request, (\E batch \in Gate!Batches : ReceiveBatch(r, batch)) \/ DropRequest(r)
      PROVE  OriginRest'
  BY <1>6, <1>8 DEF ReceiveBatch, DropRequest
<1>9. ASSUME NEW c \in Call, (\E chunk \in SUBSET Sale : Enqueue(c, chunk)) \/ GateRuns(c)
      PROVE  OriginRest'
  BY <1>6, <1>9 DEF Enqueue, GateRuns
<1>10. CASE GateLost
  BY <1>6, <1>10 DEF GateLost
<1>11. ASSUME NEW s \in Session,
              FinalizeCommitted(s) \/ MarkCommittedThrows(s) \/ DeadLetter(s) \/ FinalizeFailed(s) \/ LoseConsumer(s)
       PROVE  OriginRest'
  BY <1>6, <1>11 DEF FinalizeCommitted, MarkCommittedThrows, DeadLetter, FinalizeFailed, LoseConsumer
<1>12. ASSUME NEW m \in Sale, DlqFinalize(m) PROVE OriginRest'
  BY <1>6, <1>12 DEF DlqFinalize
<1>13. CASE UNCHANGED vars
  BY <1>6, <1>13 DEF vars
<1> QED BY <1>3, <1>4, <1>5, <1>7, <1>8, <1>9, <1>10, <1>11, <1>12, <1>13 DEF Next

LEMMA RequestRestHolds ==
    ASSUME IInv, RequestRest, [Next]_vars
    PROVE  RequestRest'
<1>1. CASE UNCHANGED request
  BY <1>1 DEF RequestRest
<1>2. ASSUME NEW r \in Request, request' = [request EXCEPT ![r] = NoRequest] PROVE RequestRest'
  BY <1>2 DEF RequestRest, NoRequest, FullRequest
<1>3. ASSUME NEW r \in Request, NEW batch \in Gate!Batches, ReceiveBatch(r, batch) PROVE RequestRest'
  <2>1. checkpoint[TheTerminal] \in Checkpoint
    BY OneTerminal DEF IInv, Types, Checkpoint
  <2>2. [batch |-> batch, cp |-> checkpoint[TheTerminal]] \in FullRequest
    BY <2>1 DEF FullRequest
  <2> QED BY <1>3, <2>2 DEF ReceiveBatch, RequestRest
<1>4. ASSUME NEW r \in Request, (\E c \in Call : SubmitBatch(r, c)) \/ DropRequest(r) PROVE RequestRest'
  BY <1>2, <1>4 DEF SubmitBatch, DropRequest
<1>5. ASSUME NEW c \in Call, (\E chunk \in SUBSET Sale : Enqueue(c, chunk)) \/ GateRuns(c)
      PROVE  RequestRest'
  BY <1>1, <1>5 DEF Enqueue, GateRuns
<1>6. CASE GateLost
  BY <1>1, <1>6 DEF GateLost
<1>7. ASSUME NEW s \in Session,
             \/ \E msg \in queue : Deliver(s, msg)
             \/ RunStatement(s) \/ ReadVerdict(s) \/ FinalizeCommitted(s) \/ MarkCommittedThrows(s)
             \/ DeadLetter(s) \/ FinalizeFailed(s) \/ LoseConsumer(s)
      PROVE  RequestRest'
  BY <1>1, <1>7 DEF Deliver, RunStatement, ReadVerdict, FinalizeCommitted, MarkCommittedThrows,
                    DeadLetter, FinalizeFailed, LoseConsumer
<1>8. ASSUME NEW m \in Sale, DlqFinalize(m) PROVE RequestRest'
  BY <1>1, <1>8 DEF DlqFinalize
<1>9. CASE UNCHANGED vars
  BY <1>1, <1>9 DEF vars
<1> QED BY <1>3, <1>4, <1>5, <1>6, <1>7, <1>8, <1>9 DEF Next

LEMMA InitRest == Init => GateRest /\ OriginRest /\ RequestRest
<1> SUFFICES ASSUME Init PROVE GateRest /\ OriginRest /\ RequestRest
  OBVIOUS
<1>1. GateRest
  <2>1. lastHlc = 0 /\ gaps = {} /\ alarm = FALSE /\ faults = 0
    BY DEF Init, Gate!Init, Gate!EmptyStore
  <2>2. 0 \in 0 .. MaxFaults
    BY EdgeAssumption
  <2> QED BY <2>1, <2>2 DEF GateRest
<1>2. OriginRest
  BY DEF Init, Origin!Init, OriginRest
<1>3. RequestRest
  BY DEF Init, RequestRest, NoRequest, FullRequest
<1> QED BY <1>1, <1>2, <1>3

\* Requests, messages, consumers, the tables of the object and those of the
\* origin keep their types, whatever the tiers do to one another: a message's
\* attempts stay within what the platform delivers, a receipt is under the key
\* of its sale, a request carries a batch the Worker takes.
THEOREM EdgeTypes == Spec => []TypeOK
<1>1. IInv /\ GateRest /\ OriginRest /\ RequestRest => TypeOK
  <2> SUFFICES ASSUME IInv, GateRest, OriginRest, RequestRest PROVE TypeOK
    OBVIOUS
  <2>1. Types /\ Receipts
    BY DEF IInv
  <2>2. Gate!TypeOK
    BY <2>1 DEF Gate!TypeOK, Types, Receipts, GateRest
  <2>3. Origin!TypeOK
    BY <2>1 DEF Origin!TypeOK, Types, OriginRest, LedgerRow
  <2> QED BY <2>1, <2>2, <2>3 DEF TypeOK, Types, ConsumerType, RequestRest, FullRequest
<1>2. IInv /\ GateRest /\ OriginRest /\ RequestRest /\ [Next]_vars
        => (IInv /\ GateRest /\ OriginRest /\ RequestRest)'
  BY StepHolds, GateRestHolds, OriginRestHolds, RequestRestHolds
<1> QED BY <1>1, <1>2, InitHolds, InitRest, PTL DEF Spec

-----------------------------------------------------------------------------
(* The origin inside the composition *)

LEMMA OriginSteps ==
    ASSUME Types, [Next]_vars
    PROVE  [Origin!Next]_Origin!vars
<1> SUFFICES ASSUME ~(UNCHANGED originVars) PROVE Origin!Next
  BY DEF originVars, Origin!vars
<1>1. ASSUME NEW s \in Session, NEW msg \in queue, Deliver(s, msg) PROVE Origin!Next
  <2>1. msg.sale \in Sale
    BY <1>1 DEF Types, Message
  <2>2. Origin!Begin(s, msg.sale)
    BY <1>1 DEF Deliver
  <2> QED BY <2>1, <2>2 DEF Origin!Next
<1>2. ASSUME NEW s \in Session, RunStatement(s) PROVE Origin!Next
  BY <1>2 DEF RunStatement, Origin!Next
<1>3. ASSUME NEW s \in Session, ReadVerdict(s) PROVE Origin!Next
  BY <1>3 DEF ReadVerdict, Origin!Next
<1>4. ASSUME NEW s \in Session,
             FinalizeCommitted(s) \/ MarkCommittedThrows(s) \/ DeadLetter(s) \/ FinalizeFailed(s) \/ LoseConsumer(s)
      PROVE  FALSE
  BY <1>4 DEF FinalizeCommitted, MarkCommittedThrows, DeadLetter, FinalizeFailed, LoseConsumer
<1>5. ASSUME NEW r \in Request,
             \/ \E batch \in Gate!Batches : ReceiveBatch(r, batch)
             \/ \E c \in Call : SubmitBatch(r, c)
             \/ DropRequest(r)
      PROVE  FALSE
  BY <1>5 DEF ReceiveBatch, SubmitBatch, DropRequest
<1>6. ASSUME NEW c \in Call, (\E chunk \in SUBSET Sale : Enqueue(c, chunk)) \/ GateRuns(c)
      PROVE  FALSE
  BY <1>6 DEF Enqueue, GateRuns
<1>7. ASSUME GateLost \/ \E m \in Sale : DlqFinalize(m) PROVE FALSE
  BY <1>7 DEF GateLost, DlqFinalize
<1>8. ~(UNCHANGED vars)
  BY DEF vars
<1> QED BY <1>1, <1>2, <1>3, <1>4, <1>5, <1>6, <1>7, <1>8 DEF Next

\* Consumers use the origin as PosOrigin says it is used: each of their steps is
\* a statement's begin, its end or its return, or leaves the ledger alone.  What
\* is proved of PosOrigin therefore holds of the origin behind the queues.
THEOREM ConsumersUseOrigin == Spec => Origin!Spec
<1>1. Init => Origin!Init
  BY DEF Init
<1>2. IInv /\ [Next]_vars => [Origin!Next]_Origin!vars
  BY OriginSteps DEF IInv
<1> QED BY <1>1, <1>2, Invariance, PTL DEF Spec, Origin!Spec

LEMMA GateSteps ==
    ASSUME IInv, RequestRest, Next
    PROVE  Gate!Next \/ UNCHANGED gateTables
<1>1. ASSUME NEW r \in Request, NEW c \in Call, SubmitBatch(r, c) PROVE Gate!Next
  <2>1. request[r].batch \in Gate!Batches /\ request[r].cp \in Checkpoint
    BY <1>1 DEF SubmitBatch, RequestRest, FullRequest, NoRequest
  <2>2. Gate!SubmitBatch(c, request[r].batch, request[r].cp)
    BY <1>1 DEF SubmitBatch
  <2> QED BY <2>1, <2>2 DEF Gate!Next
<1>2. ASSUME NEW c \in Call, NEW chunk \in SUBSET Sale, Enqueue(c, chunk) PROVE Gate!Next
  BY <1>2 DEF Enqueue, Gate!Next
<1>3. ASSUME NEW c \in Call, GateRuns(c) PROVE Gate!Next
  BY <1>3 DEF GateRuns, Gate!Next
<1>4. CASE GateLost
  BY <1>4 DEF GateLost, Gate!Next
<1>5. ASSUME NEW m \in Sale, Gate!MarkCommitted(m.key) \/ Gate!MarkFailed(m.key) PROVE Gate!Next
  BY <1>5, SaleFields DEF Gate!Next
<1>6. ASSUME NEW s \in Session, FinalizeCommitted(s) \/ FinalizeFailed(s) PROVE Gate!Next
  <2>1. consumer[s].msg.sale \in Sale
    BY <1>6, HeldMessage DEF FinalizeCommitted, FinalizeFailed
  <2> QED BY <1>5, <1>6, <2>1 DEF FinalizeCommitted, FinalizeFailed
<1>7. ASSUME NEW m \in Sale, DlqFinalize(m) PROVE Gate!Next
  BY <1>5, <1>7 DEF DlqFinalize
<1>8. ASSUME NEW r \in Request, (\E batch \in Gate!Batches : ReceiveBatch(r, batch)) \/ DropRequest(r)
      PROVE  UNCHANGED gateTables
  BY <1>8 DEF ReceiveBatch, DropRequest, gateVars, gateTables
<1>9. ASSUME NEW s \in Session,
             \/ \E msg \in queue : Deliver(s, msg)
             \/ RunStatement(s) \/ ReadVerdict(s) \/ MarkCommittedThrows(s) \/ DeadLetter(s) \/ LoseConsumer(s)
      PROVE  UNCHANGED gateTables
  BY <1>9 DEF Deliver, RunStatement, ReadVerdict, MarkCommittedThrows, DeadLetter, LoseConsumer,
              gateVars, gateTables
<1> QED BY <1>1, <1>2, <1>3, <1>4, <1>6, <1>7, <1>8, <1>9 DEF Next

\* The Worker and the consumers use the object as IdempotencyGate says it is
\* used: a step of the composition is a call of the object, with a batch and a
\* checkpoint it allows for, or leaves its tables, its alarm and its calls alone.
THEOREM WorkersUseGate == Spec => Gate!Init /\ [][Gate!Next \/ UNCHANGED gateTables]_vars
<1>1. Init => Gate!Init
  BY DEF Init
<1>2. IInv /\ RequestRest /\ [Next]_vars => [Gate!Next \/ UNCHANGED gateTables]_vars
  BY GateSteps
<1>3. IInv /\ RequestRest /\ [Next]_vars => (IInv /\ RequestRest)'
  BY StepHolds, RequestRestHolds
<1> QED BY <1>1, <1>2, <1>3, InitHolds, InitRest, PTL DEF Spec
=============================================================================
