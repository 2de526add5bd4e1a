------------------------------ MODULE EdgeSync ------------------------------
(***************************************************************************)
(* The edge tier from end to end (prodx-pos-edge-sync/src/index.ts):        *)
(* a terminal posts batches, the Worker passes them to the terminal's       *)
(* IdempotencyGate with the origin checkpoint it read first, the gate puts  *)
(* them on the ingest queue, consumers commit them at the origin and        *)
(* finalize the receipt, and what fails for good goes through the dead      *)
(* letter queue.                                                           *)
(*                                                                         *)
(* The queues deliver at least once and in any order.  A message in a       *)
(* consumer's hands comes back when the consumer asks for a retry or dies.  *)
(***************************************************************************)
EXTENDS Integers, FiniteSets

CONSTANTS
    Key, SaleId, Sale, Terminal, Product,   \* as in PosOrigin; one terminal
    Call,          \* gate calls that may await the queue at one time
    Request,       \* requests the Worker may be serving at one time
    Session,       \* consumer invocations (max_concurrency)
    EdgeHash,      \* what handleSync hashes: "bare" in the code
    MinBatch,      \* fewest sales the Worker takes in a batch (10)
    MaxBatch, FlushLimit, MaxOutOfOrder, MaxAhead,   \* as in IdempotencyGate
    DeadLetterAt,  \* delivery attempt from which any error dead-letters (90)
    MaxDeliveries, \* attempt after which the platform dead-letters (100)
    MaxCopies,     \* bound: copies of a sale in the queue at one time
    MaxFaults,     \* bound: failures of any service, crashes of any process
    CanRecreate

VARIABLES
    rows, contiguous, lastHlc, seen, gaps, alarm, call, faults,  \* the gate
    idem, sales, ledger, balance, checkpoint, stmt,              \* the origin
    request,    \* batches between the certificate check and the gate
    queue,      \* messages of the ingest queue that wait for delivery
    consumer,   \* what each consumer is doing with the message it holds
    dlq         \* sales in the dead letter queue

gateVars == <<rows, contiguous, lastHlc, seen, gaps, alarm, call, faults>>
gateTables == <<rows, contiguous, lastHlc, seen, gaps, alarm, call>>
originVars == <<idem, sales, ledger, balance, checkpoint, stmt>>
vars == <<gateVars, originVars, request, queue, consumer, dlq>>

TheTerminal == CHOOSE t \in Terminal : TRUE
Checkpoint == [seq : Nat, hlc : Nat]

Gate == INSTANCE IdempotencyGate
Origin == INSTANCE PosOrigin

ASSUME EdgeAssumption ==
    /\ Sale \subseteq Origin!SaleShape /\ IsFiniteSet(Sale)
    /\ Terminal # {}
    /\ {MaxCopies, MaxDeliveries} \subseteq Nat \ {0}
    /\ MaxFaults \in Nat

Message == [sale : Sale, copy : 1 .. MaxCopies, attempts : 1 .. MaxDeliveries]
NoRequest == [batch |-> {}]
Idle == [at |-> "idle"]

TypeOK ==
    /\ Gate!TypeOK
    /\ Origin!TypeOK
    /\ request \in [Request -> [batch : {{}}] \cup [batch : Gate!Batches, cp : Checkpoint]]
    /\ queue \subseteq Message
    /\ consumer \in [Session -> [at : {"idle"}]
                       \cup [at : {"commit", "mark", "dead", "fail"}, msg : Message]]
    /\ dlq \subseteq Sale

Init ==
    /\ Gate!Init
    /\ Origin!Init
    /\ request = [r \in Request |-> NoRequest]
    /\ queue = {}
    /\ consumer = [s \in Session |-> Idle]
    /\ dlq = {}

Fault == faults < MaxFaults /\ faults' = faults + 1

-----------------------------------------------------------------------------
(* The Worker *)

\* verifyTerminalCertificate reads the origin checkpoint before the body is
\* read.  Every sale of the batch passes the checks of its own (shape, hash over
\* what the Worker hashes, signed prices); a batch that does not is answered
\* 4xx and touches nothing.  A terminal may send a batch again at any time.
ReceiveBatch(r, batch) ==
    /\ request[r] = NoRequest
    /\ Cardinality(batch) >= MinBatch
    /\ request' = [request EXCEPT ![r] = [batch |-> batch, cp |-> checkpoint[TheTerminal]]]
    /\ UNCHANGED <<gateVars, originVars, queue, consumer, dlq>>

\* The one RPC of the request.  Its answer, or the error the gate throws, goes
\* to a terminal that may send the batch again whatever it says.
SubmitBatch(r, c) ==
    /\ request[r] # NoRequest
    /\ Gate!SubmitBatch(c, request[r].batch, request[r].cp)
    /\ request' = [request EXCEPT ![r] = NoRequest]
    /\ UNCHANGED <<originVars, queue, consumer, dlq>>

\* The Worker dies, or does not reach the gate.
DropRequest(r) ==
    /\ request[r] # NoRequest
    /\ request' = [request EXCEPT ![r] = NoRequest]
    /\ Fault
    /\ UNCHANGED <<gateTables, originVars, queue, consumer, dlq>>

-----------------------------------------------------------------------------
(* The gate's side of the queue *)

Held == {consumer[s].msg : s \in {x \in Session : consumer[x].at # "idle"}}
FreeCopies(m) == (1 .. MaxCopies) \ {x.copy : x \in {y \in queue \cup Held : y.sale = m}}

\* sendBatch adds one message for each sale of the chunk.
NewMessage(m) ==
    [sale |-> m, attempts |-> 1,
     copy |-> CHOOSE n \in FreeCopies(m) : TRUE]

Enqueue(c, chunk) ==
    /\ Gate!Send(c, chunk)
    /\ \A m \in chunk : FreeCopies(m) # {}
    /\ queue' = queue \cup {NewMessage(m) : m \in chunk}
    /\ UNCHANGED <<originVars, request, consumer, dlq>>

GateRuns(c) ==
    /\ Gate!Mark(c) \/ Gate!SendFails(c) \/ Gate!Alarm(c)
    /\ UNCHANGED <<originVars, request, queue, consumer, dlq>>

\* The object is evicted, or recreated without its storage.
GateLost ==
    /\ Gate!Evict \/ Gate!Recreate
    /\ UNCHANGED <<originVars, request, queue, consumer, dlq>>

-----------------------------------------------------------------------------
(* The consumer of the ingest queue *)

\* Mutant of Redeliver: one delivery too many.
RedeliverOnceMore(msg) ==
    IF msg.attempts <= MaxDeliveries
      THEN /\ queue' = queue \cup {[msg EXCEPT !.attempts = @ + 1]}
           /\ UNCHANGED dlq
      ELSE /\ dlq' = dlq \cup {msg.sale}
           /\ UNCHANGED queue

\* Where a message goes that its consumer does not acknowledge: back for
\* another attempt, or, its deliveries used up, to the dead letter queue.
Redeliver(msg) ==
    IF msg.attempts < MaxDeliveries
      THEN /\ queue' = queue \cup {[msg EXCEPT !.attempts = @ + 1]}
           /\ UNCHANGED dlq
      ELSE /\ dlq' = dlq \cup {msg.sale}
           /\ UNCHANGED queue

GoTo(s, phase) == consumer' = [consumer EXCEPT ![s] = [@ EXCEPT !.at = phase]]
Free(s) == consumer' = [consumer EXCEPT ![s] = Idle]

\* commitSale recomputes the hash over {tenant_id, terminal_id, sale}: a sale
\* the Worker hashed otherwise is refused before any statement is sent.
Deliver(s, msg) ==
    /\ consumer[s] = Idle
    /\ stmt[s].at = "idle"
    /\ queue' = queue \ {msg}
    /\ IF EdgeHash = "envelope"
         THEN /\ consumer' = [consumer EXCEPT ![s] = [at |-> "commit", msg |-> msg]]
              /\ Origin!Begin(s, msg.sale)
         ELSE /\ consumer' = [consumer EXCEPT ![s] = [at |-> "dead", msg |-> msg]]
              /\ UNCHANGED originVars
    /\ UNCHANGED <<gateVars, request, dlq>>

\* The statement runs; it is lost only to a unique index or to a fault.
RunStatement(s) ==
    /\ consumer[s].at = "commit"
    /\ \/ (Origin!Commit(s) \/ Origin!Refuse(s)) /\ UNCHANGED faults
       \/ Origin!RollBack(s) /\ Origin!UniqueViolation(stmt[s].sale) /\ UNCHANGED faults
       \/ (Origin!CommitAnswerLost(s) \/ Origin!RollBack(s)) /\ Fault
    /\ UNCHANGED <<gateTables, request, queue, consumer, dlq>>

\* The catch of the consumer: a permanent error, or one on a late attempt,
\* dead-letters the message; any other asks for a retry.
HandleError(s, permanent) ==
    IF permanent \/ consumer[s].msg.attempts >= DeadLetterAt
      THEN GoTo(s, "dead") /\ UNCHANGED <<queue, dlq>>
      ELSE Free(s) /\ Redeliver(consumer[s].msg)

\* Mutants of ReadVerdict: whatever is not refused for good is finalized as
\* committed; a duplicate is acknowledged without finalizing the receipt.
ReadVerdictOptimistic(s) ==
    /\ consumer[s].at = "commit"
    /\ Origin!Return(s)
    /\ IF stmt[s].verdict # "permanent"
         THEN GoTo(s, "mark") /\ UNCHANGED <<queue, dlq>>
         ELSE HandleError(s, TRUE)
    /\ UNCHANGED <<gateVars, request>>
ReadVerdictSkipsDuplicate(s) ==
    /\ consumer[s].at = "commit"
    /\ Origin!Return(s)
    /\ IF stmt[s].verdict = "committed"
         THEN GoTo(s, "mark") /\ UNCHANGED <<queue, dlq>>
         ELSE IF stmt[s].verdict = "duplicate"
         THEN Free(s) /\ UNCHANGED <<queue, dlq>>
         ELSE HandleError(s, stmt[s].verdict = "permanent")
    /\ UNCHANGED <<gateVars, request>>

\* commitSale's answer: finalize the receipt, or the consumer's catch.
ReadVerdict(s) ==
    /\ consumer[s].at = "commit"
    /\ Origin!Return(s)
    /\ IF stmt[s].verdict \in {"committed", "duplicate"}
         THEN GoTo(s, "mark") /\ UNCHANGED <<queue, dlq>>
         ELSE HandleError(s, stmt[s].verdict = "permanent")
    /\ UNCHANGED <<gateVars, request>>

\* markCommitted, then ack.
FinalizeCommitted(s) ==
    /\ consumer[s].at = "mark"
    /\ Gate!MarkCommitted(consumer[s].msg.sale.key)
    /\ Free(s)
    /\ UNCHANGED <<originVars, request, queue, dlq>>

\* markCommitted throws inside the same try as commitSale.
MarkCommittedThrows(s) ==
    /\ consumer[s].at = "mark"
    /\ HandleError(s, FALSE)
    /\ Fault
    /\ UNCHANGED <<gateTables, originVars, request>>

DeadLetter(s) ==
    /\ consumer[s].at = "dead"
    /\ dlq' = dlq \cup {consumer[s].msg.sale}
    /\ GoTo(s, "fail")
    /\ UNCHANGED <<gateVars, originVars, request, queue>>

\* markFailed, then ack.
FinalizeFailed(s) ==
    /\ consumer[s].at = "fail"
    /\ Gate!MarkFailed(consumer[s].msg.sale.key)
    /\ Free(s)
    /\ UNCHANGED <<originVars, request, queue, dlq>>

\* The consumer dies, or a call of its catch block throws and it asks for a
\* retry.  (While it waits for the origin a crash is a lost answer.)
LoseConsumer(s) ==
    /\ consumer[s].at \in {"mark", "dead", "fail"}
    /\ Redeliver(consumer[s].msg)
    /\ Free(s)
    /\ Fault
    /\ UNCHANGED <<gateTables, originVars, request>>

\* The consumer of the dead letter queue.
DlqFinalize(m) ==
    /\ m \in dlq
    /\ Gate!MarkFailed(m.key)
    /\ dlq' = dlq \ {m}
    /\ UNCHANGED <<originVars, request, queue, consumer>>

Next ==
    \/ \E r \in Request :
          \/ \E batch \in Gate!Batches : ReceiveBatch(r, batch)
          \/ \E c \in Call : SubmitBatch(r, c)
          \/ DropRequest(r)
    \/ \E c \in Call :
          \/ \E chunk \in SUBSET Sale : Enqueue(c, chunk)
          \/ GateRuns(c)
    \/ GateLost
    \/ \E s \in Session :
          \/ \E msg \in queue : Deliver(s, msg)
          \/ RunStatement(s)
          \/ ReadVerdict(s)
          \/ FinalizeCommitted(s)
          \/ MarkCommittedThrows(s)
          \/ DeadLetter(s)
          \/ FinalizeFailed(s)
          \/ LoseConsumer(s)
    \/ \E m \in Sale : DlqFinalize(m)

\* Every process that can go on does, the queues deliver what they hold, and
\* the alarm fires once it is due.  The terminal is under no obligation.
Fairness ==
    /\ \A c \in Call :
          /\ WF_vars(\E chunk \in SUBSET Sale : Enqueue(c, chunk))
          /\ WF_vars(Gate!Mark(c) /\ UNCHANGED <<originVars, request, queue, consumer, dlq>>)
          /\ WF_vars(Gate!Alarm(c) /\ UNCHANGED <<originVars, request, queue, consumer, dlq>>)
    /\ \A s \in Session :
          /\ SF_vars(\E msg \in queue : Deliver(s, msg))
          /\ WF_vars(RunStatement(s))
          /\ WF_vars(ReadVerdict(s))
          /\ WF_vars(FinalizeCommitted(s))
          /\ WF_vars(DeadLetter(s))
          /\ WF_vars(FinalizeFailed(s))
    /\ \A m \in Sale : WF_vars(DlqFinalize(m))

Spec == Init /\ [][Next]_vars
FairSpec == Spec /\ Fairness

-----------------------------------------------------------------------------
(* Properties *)

\* A receipt says COMMITTED only of a sale that is in the financial record:
\* the terminal may drop its copy.
CommittedReceiptIsTrue ==
    \A k \in Key : Gate!Status(k) = "committed" => rows[k].sale \in sales

\* The edge prefix covers what the origin has committed, unless the object was
\* recreated: a terminal is never told to resend a committed number.
EdgeCoversOrigin ==
    ~CanRecreate => checkpoint[TheTerminal].seq <= contiguous

\* Until it is committed the edge does not forget a sale it accepted.
ReceiptOutlivesDelivery ==
    [][\A k \in Key :
          ~CanRecreate /\ Gate!Known(k) /\ ~Gate!Known(k)' => rows[k].sale \in sales]_vars

\* Every accepted sale is finalized: committed, or failed for the operators.
ReceiptsSettle ==
    \A k \in Key : Gate!IsLive(rows[k]) ~> ~Gate!IsLive(rows[k])

\* A sale that passed the Worker's checks is not dead-lettered while every
\* service answers: the origin checks again what the edge has checked.
AcceptedSaleIsNotDeadLettered == faults = 0 => dlq = {}
=============================================================================
