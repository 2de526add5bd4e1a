------------------------------ MODULE PosOrigin ------------------------------
(***************************************************************************)
(* The PostgreSQL origin of the POS edge tier: the one statement           *)
(* COMMIT_SALE_CTE that commits an offline sale, the tables it writes and  *)
(* commitSale's reading of its answer (prodx-pos-edge-sync/src/postgres.ts, *)
(* migrations/001_pos_ledger.sql).                                         *)
(*                                                                         *)
(* A statement is two steps, because PostgreSQL takes its snapshot before  *)
(* it waits for the terminal's checkpoint row: Begin records what the      *)
(* snapshot shows of the rows the statement looks up, Finish runs with the *)
(* checkpoint row as it is once the lock is granted (READ COMMITTED reads  *)
(* the row again) and with the unique indexes as they are then.  The lock  *)
(* is held to the end of the statement, so the rest of it is one step.     *)
(*                                                                         *)
(* A sale stands for its canonical payload, and for the payload's hash.    *)
(* A hybrid logical clock pair (physical_ms, logical) is one number: the   *)
(* code only compares it.  The tenant is fixed: every table is keyed by it.*)
(***************************************************************************)
EXTENDS Integers, FiniteSets, FiniteSetsExt, Sequences

CONSTANTS
    Terminal,   \* enrolled terminals of the tenant
    Product,    \* the tenant's products
    Session,    \* database sessions that may run the statement at one time
    Key,        \* idempotency keys
    SaleId,     \* sale identifiers
    Sale        \* sales the terminals may send

\* What assertSaleShape lets through: positive sequence numbers, a clock that
\* is not negative, and for each product the summed quantity of its lines
\* (inventory_totals), zero for a product the sale does not name.
SaleShape == [terminal : Terminal, key : Key, saleId : SaleId,
              seq : Nat \ {0}, hlc : Nat, qty : [Product -> Nat]]

ASSUME SaleAssumption ==
    /\ Sale \subseteq SaleShape
    /\ \A m \in Sale : \E p \in Product : m.qty[p] > 0   \* at least one line

VARIABLES
    idem,        \* pos_idempotency: the sale whose key, hash and id the row holds
    sales,       \* sales and their sale_lines, append-only
    ledger,      \* inventory_ledger rows of reason POS_SALE
    balance,     \* inventory_balances
    checkpoint,  \* terminal_sync_state; seq = 0 stands for "no row"
    stmt         \* what each session is doing

vars == <<idem, sales, ledger, balance, checkpoint, stmt>>

Verdict == {"committed", "duplicate", "retry", "gap", "permanent"}
NoCheckpoint == [seq |-> 0, hlc |-> 0]
Idle == [at |-> "idle"]

StmtType ==
    [at : {"idle"}]
      \cup [at : {"running"}, sale : Sale, prior : SUBSET Sale,
            priorSeq : SUBSET Sale, rowVisible : BOOLEAN]
      \cup [at : {"done"}, sale : Sale, verdict : Verdict]

TypeOK ==
    /\ idem \subseteq Sale
    /\ sales \subseteq Sale
    /\ ledger \subseteq [sale : Sale, product : Product, delta : Int]
    /\ balance \in [Product -> Int]
    /\ checkpoint \in [Terminal -> [seq : Nat, hlc : Nat]]
    /\ stmt \in [Session -> StmtType]

Init ==
    /\ idem = {}
    /\ sales = {}
    /\ ledger = {}
    /\ balance = [p \in Product |-> 0]
    /\ checkpoint = [t \in Terminal |-> NoCheckpoint]
    /\ stmt = [s \in Session |-> Idle]

-----------------------------------------------------------------------------
(* The statement *)

\* Mutant of Begin: prior_idempotency selects the key alone.
BeginKeyOnly(s, m) ==
    /\ stmt[s].at = "idle"
    /\ stmt' = [stmt EXCEPT ![s] =
           [at         |-> "running",
            sale       |-> m,
            prior      |-> {r.key : r \in {x \in idem : x.key = m.key}},
            priorSeq   |-> {r \in sales : r.terminal = m.terminal /\ r.seq = m.seq},
            rowVisible |-> checkpoint[m.terminal].seq > 0]]
    /\ UNCHANGED <<idem, sales, ledger, balance, checkpoint>>

\* The snapshot: prior_idempotency and prior_sequence_sale read it, and it
\* decides whether checkpoint_lock finds a row to lock.
Begin(s, m) ==
    /\ stmt[s].at = "idle"
    /\ stmt' = [stmt EXCEPT ![s] =
           [at         |-> "running",
            sale       |-> m,
            prior      |-> {r \in idem : r.key = m.key},
            priorSeq   |-> {r \in sales : r.terminal = m.terminal /\ r.seq = m.seq},
            rowVisible |-> checkpoint[m.terminal].seq > 0]]
    /\ UNCHANGED <<idem, sales, ledger, balance, checkpoint>>

\* checkpoint_lock and checkpoint_state: the row after the wait for its lock,
\* or zeroes when the snapshot had no row to lock.
LockedCheckpoint(s) ==
    IF stmt[s].rowVisible THEN checkpoint[stmt[s].sale.terminal] ELSE NoCheckpoint

\* Mutants of CheckpointGuard: any later number passes; the clock is not compared.
CheckpointGuardAnyLater(s) ==
    /\ LockedCheckpoint(s).seq < stmt[s].sale.seq
    /\ stmt[s].sale.hlc >= LockedCheckpoint(s).hlc
CheckpointGuardNoClock(s) == LockedCheckpoint(s).seq + 1 = stmt[s].sale.seq

\* checkpoint_guard: the next number, with a clock that is not behind.
CheckpointGuard(s) ==
    /\ LockedCheckpoint(s).seq + 1 = stmt[s].sale.seq
    /\ stmt[s].sale.hlc >= LockedCheckpoint(s).hlc

\* idempotency_claim, with its ON CONFLICT DO NOTHING.
Claimed(s) == CheckpointGuard(s) /\ \A r \in idem : r.key # stmt[s].sale.key

\* Mutant of UniqueViolation: the unique index on the sale id is missing.
UniqueSeqOnly(m) == \E r \in sales : r.terminal = m.terminal /\ r.seq = m.seq

\* A unique index of sales (or the one on inventory_ledger, which a repeated
\* sale_id would hit as well) rejects the insert, and the statement with it.
UniqueViolation(m) ==
    \E r \in sales : r.saleId = m.saleId \/ (r.terminal = m.terminal /\ r.seq = m.seq)

LedgerRows(m) ==
    {[sale |-> m, product |-> p, delta |-> -m.qty[p]] : p \in {q \in Product : m.qty[q] > 0}}

Answer(s, v) == stmt' = [stmt EXCEPT ![s] = [at |-> "done", sale |-> stmt[s].sale, verdict |-> v]]

\* Mutant of Refusal: a key that is taken is a duplicate, whatever its payload.
RefusalByKey(s) == IF stmt[s].prior # {} THEN "duplicate" ELSE "retry"

\* commitSale's classification of a statement that claimed nothing.
Refusal(s) ==
    LET m  == stmt[s].sale
        cp == LockedCheckpoint(s)
    IN  IF stmt[s].prior # {}
          THEN IF m \in stmt[s].prior THEN "duplicate" ELSE "permanent"
          ELSE IF m.seq > cp.seq + 1 THEN "gap"
          ELSE IF m.seq <= cp.seq /\ stmt[s].priorSeq # {} THEN "permanent"
          ELSE IF m.hlc < cp.hlc THEN "permanent"
          ELSE "retry"

\* Mutant of BalanceAfter: ON CONFLICT DO NOTHING leaves an existing row alone.
BalanceFirstWins(m) == [p \in Product |-> IF balance[p] = 0 THEN -m.qty[p] ELSE balance[p]]

\* The upsert of inventory_balances.
BalanceAfter(m) == [p \in Product |-> balance[p] - m.qty[p]]

\* Everything the CTE writes.  The caller reads "committed", or a transport
\* error when the connection drops between the commit and the answer.
CommitAs(s, v) ==
    LET m == stmt[s].sale
    IN  /\ stmt[s].at = "running"
        /\ Claimed(s)
        /\ ~UniqueViolation(m)
        /\ idem' = idem \cup {m}
        /\ sales' = sales \cup {m}
        /\ ledger' = ledger \cup LedgerRows(m)
        /\ balance' = BalanceAfter(m)
        /\ checkpoint' = [checkpoint EXCEPT ![m.terminal] = [seq |-> m.seq, hlc |-> m.hlc]]
        /\ Answer(s, v)

Commit(s) == CommitAs(s, "committed")
CommitAnswerLost(s) == CommitAs(s, "retry")

\* The statement writes nothing and its answer is classified.
Refuse(s) ==
    /\ stmt[s].at = "running"
    /\ ~Claimed(s)
    /\ Answer(s, Refusal(s))
    /\ UNCHANGED <<idem, sales, ledger, balance, checkpoint>>

\* The statement is rolled back: a unique index rejects the insert, or the
\* connection, a deadlock or a timeout aborts it.  commitSale rethrows the
\* driver's error, which is not a PermanentDataError.
RollBack(s) ==
    /\ stmt[s].at = "running"
    /\ Answer(s, "retry")
    /\ UNCHANGED <<idem, sales, ledger, balance, checkpoint>>

\* commitSale has returned (or thrown) to its caller.
Return(s) ==
    /\ stmt[s].at = "done"
    /\ stmt' = [stmt EXCEPT ![s] = Idle]
    /\ UNCHANGED <<idem, sales, ledger, balance, checkpoint>>

Next ==
    \E s \in Session :
        \/ \E m \in Sale : Begin(s, m)
        \/ Commit(s)
        \/ CommitAnswerLost(s)
        \/ Refuse(s)
        \/ RollBack(s)
        \/ Return(s)

Spec == Init /\ [][Next]_vars

-----------------------------------------------------------------------------
(* What scripts/reconcile.sql expects of the database, and what the caller  *)
(* may conclude from an answer.                                             *)

CommittedSeqs(t) == {r.seq : r \in {x \in sales : x.terminal = t}}

\* Queries 5 and 5b: the committed sequence numbers of a terminal are exactly
\* 1 to its checkpoint, although two statements may both find no checkpoint
\* row to lock.
CommittedPrefix ==
    \A t \in Terminal : CommittedSeqs(t) = 1 .. checkpoint[t].seq

\* Queries 3 and 4: one idempotency row for each sale and one sale for each
\* row, no key, sale id or terminal sequence number used twice.
NoSaleTwice ==
    /\ idem = sales
    /\ \A x, y \in sales :
          \/ x.key = y.key
          \/ x.saleId = y.saleId
          \/ x.terminal = y.terminal /\ x.seq = y.seq
          => x = y

\* Clocks never run backwards along a terminal's committed sales, and the
\* checkpoint holds the clock of the last one: what checkpoint_guard is for.
ClockFollowsSequence ==
    /\ \A x, y \in sales : x.terminal = y.terminal /\ x.seq <= y.seq => x.hlc <= y.hlc
    /\ \A x \in sales : x.hlc <= checkpoint[x.terminal].hlc
    /\ \A t \in Terminal : checkpoint[t].seq > 0 =>
          \E x \in sales : x.terminal = t /\ x.seq = checkpoint[t].seq /\ x.hlc = checkpoint[t].hlc

\* Queries 2 and 2b: a balance is the sum of the ledger, and each committed
\* sale has one row for each product it sold and no other row.
BalanceIsLedgerSum ==
    /\ \A p \in Product :
          balance[p] = SumFunctionOnSet([r \in ledger |-> r.delta], {r \in ledger : r.product = p})
    /\ ledger = UNION {LedgerRows(x) : x \in sales}

\* A worker that reads "committed" or "duplicate" may finalize the receipt:
\* this very sale is in the ledger.
AnswerIsTrue ==
    \A s \in Session :
        stmt[s].at = "done" /\ stmt[s].verdict \in {"committed", "duplicate"}
            => stmt[s].sale \in sales

\* postgres.ts:48-49: when a concurrent insert committed after the statement's
\* snapshot "the caller receives a retryable result".  A permanent answer
\* about a sale that is in the ledger contradicts it.
RefusedSaleIsNotCommitted ==
    \A s \in Session :
        stmt[s].at = "done" /\ stmt[s].verdict = "permanent" => stmt[s].sale \notin sales

\* The append-only triggers and the checkpoint upsert together: no step takes
\* a row away, and a step that moves a checkpoint moves it by one sale.
HistoryOnlyGrows ==
    [][ /\ sales \subseteq sales'
        /\ idem \subseteq idem'
        /\ ledger \subseteq ledger'
        /\ \A t \in Terminal :
              \/ checkpoint'[t] = checkpoint[t]
              \/ /\ checkpoint'[t].seq = checkpoint[t].seq + 1
                 /\ checkpoint'[t].hlc >= checkpoint[t].hlc ]_vars

-----------------------------------------------------------------------------
(* Refinement: the committed sales, read in the order of their numbers, are *)
(* the journals of SaleJournal.                                             *)

JournalOf == [t \in Terminal |-> [n \in 1 .. checkpoint[t].seq |->
                 CHOOSE r \in sales : r.terminal = t /\ r.seq = n]]

Journal == INSTANCE SaleJournal WITH journal <- JournalOf

\* Whatever the sessions do, the tables move as the journal of SaleJournal
\* does: one sale at a time, at the end, under a fresh key and sale id.
ImplementsJournal == Journal!Spec
=============================================================================
