--------------------------- MODULE PosOriginProofs ---------------------------
(***************************************************************************)
(* The statement of PosOrigin keeps the database in the state that         *)
(* scripts/reconcile.sql expects, for every set of terminals, sessions and *)
(* sales.  The argument turns on the first sale of a terminal: its          *)
(* statements lock nothing, and only the unique index on the terminal's    *)
(* sequence numbers orders them.                                           *)
(***************************************************************************)
EXTENDS PosOrigin, Sums, FiniteSetTheorems, SequenceTheorems, TLAPS

\* What a session holds is what it saw: rows of the tables, which only grow.
StmtSound ==
    \A s \in Session :
        /\ stmt[s].at = "running" =>
              /\ stmt[s].prior \subseteq idem
              /\ stmt[s].rowVisible => checkpoint[stmt[s].sale.terminal].seq > 0
        /\ stmt[s].at = "done" /\ stmt[s].verdict \in {"committed", "duplicate"} =>
              stmt[s].sale \in sales

\* A checkpoint without a row reads as zeroes.
NoRowIsZero == \A t \in Terminal : checkpoint[t].seq = 0 => checkpoint[t].hlc = 0

LedgerIsSales == ledger = UNION {LedgerRows(x) : x \in sales}

\* Each number a terminal has committed names a sale, and no number beyond.
PrefixOf == \A t \in Terminal :
    /\ \A n \in 1 .. checkpoint[t].seq : \E x \in sales : x.terminal = t /\ x.seq = n
    /\ \A x \in sales : x.terminal = t => x.seq \in 1 .. checkpoint[t].seq

ClockOrder ==
    \A x, y \in sales : x.terminal = y.terminal /\ x.seq <= y.seq => x.hlc <= y.hlc

ClockBound == \A x \in sales : x.hlc <= checkpoint[x.terminal].hlc

ClockTop == \A t \in Terminal : checkpoint[t].seq > 0 =>
    \E x \in sales : x.terminal = t /\ x.seq = checkpoint[t].seq /\ x.hlc = checkpoint[t].hlc

\* The inductive invariant.
IInv ==
    /\ TypeOK
    /\ PrefixOf
    /\ NoSaleTwice
    /\ ClockOrder
    /\ ClockBound
    /\ ClockTop
    /\ NoRowIsZero
    /\ LedgerIsSales
    /\ StmtSound

-----------------------------------------------------------------------------
(* Facts about one sale *)

LEMMA SaleFields ==
    ASSUME NEW m \in Sale
    PROVE  /\ m.terminal \in Terminal
           /\ m.key \in Key
           /\ m.saleId \in SaleId
           /\ m.seq \in Nat /\ m.seq > 0
           /\ m.hlc \in Nat
           /\ m.qty \in [Product -> Nat]
  BY SaleAssumption DEF SaleShape

LEMMA LedgerRowsType ==
    ASSUME NEW m \in Sale
    PROVE  LedgerRows(m) \subseteq [sale : Sale, product : Product, delta : Int]
  BY SaleFields DEF LedgerRows

LEMMA PrefixIsCommittedPrefix == TypeOK /\ PrefixOf => CommittedPrefix
<1> SUFFICES ASSUME TypeOK, PrefixOf, NEW t \in Terminal
             PROVE  CommittedSeqs(t) = 1 .. checkpoint[t].seq
  BY DEF CommittedPrefix
<1>1. \A n : n \in CommittedSeqs(t) <=> \E x \in sales : x.terminal = t /\ x.seq = n
  BY DEF CommittedSeqs
<1>2. checkpoint[t].seq \in Nat
  BY DEF TypeOK
<1>3. CommittedSeqs(t) \subseteq 1 .. checkpoint[t].seq
  BY <1>1 DEF PrefixOf
<1>4. 1 .. checkpoint[t].seq \subseteq CommittedSeqs(t)
  BY <1>1 DEF PrefixOf
<1> QED BY <1>3, <1>4

-----------------------------------------------------------------------------
(* The inductive invariant *)

LEMMA InitIInv == Init => IInv
<1> SUFFICES ASSUME Init PROVE IInv
  OBVIOUS
<1>1. TypeOK
  BY DEF Init, TypeOK, NoCheckpoint, Idle, StmtType
<1>2. PrefixOf /\ NoRowIsZero /\ ClockTop
  BY DEF Init, PrefixOf, NoRowIsZero, ClockTop, NoCheckpoint
<1>3. NoSaleTwice /\ ClockOrder /\ ClockBound
  BY DEF Init, NoSaleTwice, ClockOrder, ClockBound
<1>4. LedgerIsSales
  BY DEF Init, LedgerIsSales
<1>5. StmtSound
  BY DEF Init, StmtSound, Idle
<1> QED BY <1>1, <1>2, <1>3, <1>4, <1>5 DEF IInv

\* A statement that claims its key and meets no unique violation is the next
\* sale of its terminal, whether or not it found a checkpoint row to lock.
LEMMA ClaimedIsNext ==
    ASSUME IInv, NEW s \in Session, stmt[s].at = "running",
           Claimed(s), ~UniqueViolation(stmt[s].sale)
    PROVE  /\ stmt[s].sale \in Sale
           /\ stmt[s].sale.seq = checkpoint[stmt[s].sale.terminal].seq + 1
           /\ stmt[s].sale.hlc >= checkpoint[stmt[s].sale.terminal].hlc
<1> DEFINE m == stmt[s].sale
           t == m.terminal
<1>1. m \in Sale /\ stmt[s].rowVisible \in BOOLEAN
  BY DEF IInv, TypeOK, StmtType
<1>2. t \in Terminal /\ m.seq \in Nat /\ m.hlc \in Nat
  BY <1>1, SaleFields
<1>3. checkpoint[t].seq \in Nat /\ checkpoint[t].hlc \in Nat
  BY <1>2 DEF IInv, TypeOK
<1>4. CASE stmt[s].rowVisible
  BY <1>1, <1>2, <1>3, <1>4 DEF Claimed, CheckpointGuard, LockedCheckpoint
<1>5. CASE ~stmt[s].rowVisible
  <2>1. m.seq = 1
    BY <1>2, <1>5 DEF Claimed, CheckpointGuard, LockedCheckpoint, NoCheckpoint
  <2>2. checkpoint[t].seq = 0
    <3>1. ASSUME checkpoint[t].seq > 0 PROVE FALSE
      <4>1. 1 \in 1 .. checkpoint[t].seq
        BY <1>3, <3>1
      <4>2. PICK x \in sales : x.terminal = t /\ x.seq = 1
        BY <4>1, <1>2 DEF IInv, PrefixOf
      <4> QED BY <4>2, <2>1 DEF UniqueViolation
    <3> QED BY <3>1, <1>3
  <2>3. checkpoint[t].hlc = 0
    BY <2>2, <1>2 DEF IInv, NoRowIsZero
  <2> QED BY <1>1, <1>2, <2>1, <2>2, <2>3
<1> QED BY <1>1, <1>4, <1>5

\* The step that writes: the sale enters every table together.
LEMMA CommitKeepsIInv ==
    ASSUME IInv, NEW s \in Session, NEW v \in {"committed", "retry"}, CommitAs(s, v)
    PROVE  IInv'
<1> DEFINE m == stmt[s].sale
           t == m.terminal
<1>0. stmt[s].at = "running" /\ Claimed(s) /\ ~UniqueViolation(m)
  BY DEF CommitAs
<1>1. m \in Sale /\ m.seq = checkpoint[t].seq + 1 /\ m.hlc >= checkpoint[t].hlc
  BY <1>0, ClaimedIsNext
<1>2. t \in Terminal /\ m.seq \in Nat /\ m.seq > 0 /\ m.hlc \in Nat /\ m.qty \in [Product -> Nat]
  BY <1>1, SaleFields
<1>3. TypeOK
  BY DEF IInv
<1>4. /\ idem' = idem \cup {m}
      /\ sales' = sales \cup {m}
      /\ ledger' = ledger \cup LedgerRows(m)
      /\ balance' = [p \in Product |-> balance[p] - m.qty[p]]
      /\ checkpoint' = [checkpoint EXCEPT ![t] = [seq |-> m.seq, hlc |-> m.hlc]]
      /\ stmt' = [stmt EXCEPT ![s] = [at |-> "done", sale |-> m, verdict |-> v]]
  BY DEF CommitAs, Answer, BalanceAfter
<1>5. /\ checkpoint'[t] = [seq |-> m.seq, hlc |-> m.hlc]
      /\ \A u \in Terminal : u # t => checkpoint'[u] = checkpoint[u]
  BY <1>2, <1>3, <1>4 DEF TypeOK
<1>6. \A u \in Terminal : checkpoint[u].seq \in Nat /\ checkpoint[u].hlc \in Nat
  BY <1>3 DEF TypeOK
<1>7. \A x \in sales : /\ x \in Sale /\ x.terminal \in Terminal
                       /\ x.seq \in Nat /\ x.seq > 0 /\ x.hlc \in Nat
  BY <1>3, SaleFields DEF TypeOK
<1>8. TypeOK'
  <2>1. idem' \subseteq Sale /\ sales' \subseteq Sale
    BY <1>1, <1>3, <1>4 DEF TypeOK
  <2>2. ledger' \subseteq [sale : Sale, product : Product, delta : Int]
    BY <1>1, <1>3, <1>4, LedgerRowsType DEF TypeOK
  <2>3. balance' \in [Product -> Int]
    BY <1>2, <1>3, <1>4 DEF TypeOK
  <2>4. checkpoint' \in [Terminal -> [seq : Nat, hlc : Nat]]
    BY <1>2, <1>3, <1>4 DEF TypeOK
  <2>5. stmt' \in [Session -> StmtType]
    BY <1>1, <1>3, <1>4 DEF TypeOK, StmtType, Verdict
  <2> QED BY <2>1, <2>2, <2>3, <2>4, <2>5 DEF TypeOK
<1>9. PrefixOf'
  <2> SUFFICES ASSUME NEW u \in Terminal
               PROVE  /\ \A n \in 1 .. checkpoint'[u].seq :
                              \E x \in sales' : x.terminal = u /\ x.seq = n
                      /\ \A x \in sales' : x.terminal = u => x.seq \in 1 .. checkpoint'[u].seq
    BY DEF PrefixOf
  <2>1. /\ \A n \in 1 .. checkpoint[u].seq : \E x \in sales : x.terminal = u /\ x.seq = n
        /\ \A x \in sales : x.terminal = u => x.seq \in 1 .. checkpoint[u].seq
    BY DEF IInv, PrefixOf
  <2>2. CASE u # t
    BY <1>4, <1>5, <2>1, <2>2
  <2>3. CASE u = t
    <3>1. checkpoint'[u].seq = checkpoint[u].seq + 1 /\ checkpoint'[u].seq = m.seq
      BY <1>1, <1>5, <2>3
    <3>2. \A n \in 1 .. checkpoint'[u].seq : n \in 1 .. checkpoint[u].seq \/ n = m.seq
      BY <3>1, <1>1, <1>6, <2>3
    <3>3. \A n \in 1 .. checkpoint'[u].seq : \E x \in sales' : x.terminal = u /\ x.seq = n
      BY <2>1, <2>3, <3>2, <1>4
    <3>4. \A x \in sales' : x.terminal = u => x.seq \in 1 .. checkpoint'[u].seq
      BY <2>1, <2>3, <3>1, <1>2, <1>4, <1>6, <1>7
    <3> QED BY <3>3, <3>4
  <2> QED BY <2>2, <2>3
<1>10. NoSaleTwice'
  <2>1. idem' = sales'
    BY <1>4 DEF IInv, NoSaleTwice
  <2>2. \A x \in sales : /\ x.key # m.key /\ x.saleId # m.saleId
                         /\ ~(x.terminal = m.terminal /\ x.seq = m.seq)
    BY <1>0 DEF Claimed, UniqueViolation, IInv, NoSaleTwice
  <2> QED BY <2>1, <2>2, <1>4 DEF IInv, NoSaleTwice
<1>11. ClockBound'
  <2>1. \A x \in sales : x.hlc <= checkpoint[x.terminal].hlc
    BY DEF IInv, ClockBound
  <2> SUFFICES ASSUME NEW x \in sales' PROVE x.hlc <= checkpoint'[x.terminal].hlc
    BY DEF ClockBound
  <2>2. CASE x = m
    BY <2>2, <1>2, <1>5
  <2>3. CASE x \in sales /\ x.terminal = t
    BY <2>1, <2>3, <1>1, <1>2, <1>5, <1>6, <1>7
  <2>4. CASE x \in sales /\ x.terminal # t
    BY <2>1, <2>4, <1>5, <1>7
  <2> QED BY <2>2, <2>3, <2>4, <1>4
<1>12. ClockOrder'
  <2> SUFFICES ASSUME NEW x \in sales', NEW y \in sales', x.terminal = y.terminal, x.seq <= y.seq
               PROVE  x.hlc <= y.hlc
    BY DEF ClockOrder
  <2>1. CASE x \in sales /\ y \in sales
    BY <2>1 DEF IInv, ClockOrder
  <2>2. CASE y = m /\ x \in sales
    BY <2>2, <1>1, <1>2, <1>6, <1>7 DEF IInv, ClockBound
  <2>3. CASE x = m /\ y \in sales
    <3>1. y.seq <= checkpoint[t].seq
      BY <2>3, <1>2, <1>6, <1>7 DEF IInv, PrefixOf
    <3> QED BY <3>1, <2>3, <1>1, <1>6, <1>7, <1>2
  <2>4. CASE x = m /\ y = m
    BY <2>4, <1>2
  <2> QED BY <2>1, <2>2, <2>3, <2>4, <1>4
<1>13. ClockTop'
  <2> SUFFICES ASSUME NEW u \in Terminal, checkpoint'[u].seq > 0
               PROVE  \E x \in sales' : /\ x.terminal = u /\ x.seq = checkpoint'[u].seq
                                        /\ x.hlc = checkpoint'[u].hlc
    BY DEF ClockTop
  <2>1. CASE u = t
    BY <2>1, <1>4, <1>5
  <2>2. CASE u # t
    BY <2>2, <1>4, <1>5 DEF IInv, ClockTop
  <2> QED BY <2>1, <2>2
<1>14. NoRowIsZero'
  BY <1>2, <1>5 DEF IInv, NoRowIsZero
<1>15. LedgerIsSales'
  <2>1. \A x : LedgerRows(x)' = LedgerRows(x)
    BY DEF LedgerRows
  <2> QED BY <1>4, <2>1 DEF IInv, LedgerIsSales, LedgerRows
<1>16. StmtSound'
  <2> SUFFICES ASSUME NEW r \in Session
               PROVE  /\ stmt'[r].at = "running" =>
                            /\ stmt'[r].prior \subseteq idem'
                            /\ stmt'[r].rowVisible => checkpoint'[stmt'[r].sale.terminal].seq > 0
                      /\ stmt'[r].at = "done" /\ stmt'[r].verdict \in {"committed", "duplicate"} =>
                            stmt'[r].sale \in sales'
    BY DEF StmtSound
  <2>1. CASE r = s
    BY <2>1, <1>3, <1>4 DEF TypeOK
  <2>2. CASE r # s
    <3>1. stmt'[r] = stmt[r]
      BY <2>2, <1>3, <1>4 DEF TypeOK
    <3>2. ASSUME stmt[r].at = "running" PROVE stmt[r].sale.terminal \in Terminal
      BY <3>2, <1>3, SaleFields DEF TypeOK, StmtType
    <3>3. \A u \in Terminal : checkpoint[u].seq > 0 => checkpoint'[u].seq > 0
      BY <1>2, <1>5
    <3> QED BY <3>1, <3>2, <3>3, <1>4 DEF IInv, StmtSound
  <2> QED BY <2>1, <2>2
<1> QED BY <1>8, <1>9, <1>10, <1>11, <1>12, <1>13, <1>14, <1>15, <1>16 DEF IInv

\* The steps that leave the tables alone touch only StmtSound and the type of
\* stmt: it is enough that the session that moved is still right.
LEMMA TablesUnchanged ==
    ASSUME IInv, UNCHANGED <<idem, sales, ledger, balance, checkpoint>>,
           NEW s \in Session, NEW e \in StmtType, stmt' = [stmt EXCEPT ![s] = e],
           e.at = "running" =>
              /\ e.prior \subseteq idem
              /\ e.rowVisible => checkpoint[e.sale.terminal].seq > 0,
           e.at = "done" /\ e.verdict \in {"committed", "duplicate"} => e.sale \in sales
    PROVE  IInv'
<1>1. TypeOK'
  BY DEF IInv, TypeOK
<1>2. PrefixOf' /\ NoSaleTwice' /\ ClockOrder' /\ ClockBound' /\ ClockTop' /\ NoRowIsZero'
  BY DEF IInv, PrefixOf, NoSaleTwice, ClockOrder, ClockBound, ClockTop, NoRowIsZero
<1>3. LedgerIsSales'
  BY DEF IInv, LedgerIsSales, LedgerRows
<1>4. StmtSound'
  <2>1. \A r \in Session : stmt'[r] = e \/ stmt'[r] = stmt[r]
    BY DEF IInv, TypeOK
  <2> QED BY <2>1 DEF IInv, StmtSound
<1> QED BY <1>1, <1>2, <1>3, <1>4 DEF IInv

LEMMA BeginKeepsIInv ==
    ASSUME IInv, NEW s \in Session, NEW m \in Sale, Begin(s, m)
    PROVE  IInv'
<1> DEFINE e == [at         |-> "running",
                 sale       |-> m,
                 prior      |-> {r \in idem : r.key = m.key},
                 priorSeq   |-> {r \in sales : r.terminal = m.terminal /\ r.seq = m.seq},
                 rowVisible |-> checkpoint[m.terminal].seq > 0]
<1>1. stmt' = [stmt EXCEPT ![s] = e] /\ UNCHANGED <<idem, sales, ledger, balance, checkpoint>>
  BY DEF Begin
<1>2. e \in StmtType
  <2>1. idem \subseteq Sale /\ sales \subseteq Sale
    BY DEF IInv, TypeOK
  <2>2. e.prior \subseteq Sale /\ e.priorSeq \subseteq Sale /\ e.rowVisible \in BOOLEAN
    BY <2>1
  <2>3. e \in [at : {"running"}, sale : Sale, prior : SUBSET Sale,
               priorSeq : SUBSET Sale, rowVisible : BOOLEAN]
    BY <2>2
  <2> QED BY <2>3 DEF StmtType
<1>3. e.at = "running" /\ e.prior \subseteq idem
      /\ (e.rowVisible => checkpoint[e.sale.terminal].seq > 0)
  OBVIOUS
<1> HIDE DEF e
<1> QED BY <1>1, <1>2, <1>3, TablesUnchanged

\* A refusal answers "duplicate" only when the snapshot showed this very sale.
LEMMA RefuseKeepsIInv ==
    ASSUME IInv, NEW s \in Session, Refuse(s)
    PROVE  IInv'
<1> DEFINE e == [at |-> "done", sale |-> stmt[s].sale, verdict |-> Refusal(s)]
<1>1. stmt' = [stmt EXCEPT ![s] = e] /\ UNCHANGED <<idem, sales, ledger, balance, checkpoint>>
  BY DEF Refuse, Answer
<1>2. stmt[s].at = "running" /\ stmt[s].sale \in Sale
  BY DEF Refuse, IInv, TypeOK, StmtType
<1>3. Refusal(s) \in {"duplicate", "gap", "permanent", "retry"}
  BY DEF Refusal
<1>4. Refusal(s) = "duplicate" => stmt[s].sale \in stmt[s].prior
  BY DEF Refusal
<1>5. e \in StmtType
  BY <1>2, <1>3 DEF StmtType, Verdict
<1>6. Refusal(s) = "duplicate" => stmt[s].sale \in sales
  BY <1>2, <1>4 DEF IInv, StmtSound, NoSaleTwice
<1>7. e.at = "done" /\ e.sale = stmt[s].sale /\ e.verdict = Refusal(s)
  OBVIOUS
<1> HIDE DEF e
<1> QED BY <1>1, <1>3, <1>5, <1>6, <1>7, TablesUnchanged

LEMMA RollBackKeepsIInv ==
    ASSUME IInv, NEW s \in Session, RollBack(s)
    PROVE  IInv'
<1> DEFINE e == [at |-> "done", sale |-> stmt[s].sale, verdict |-> "retry"]
<1>1. stmt' = [stmt EXCEPT ![s] = e] /\ UNCHANGED <<idem, sales, ledger, balance, checkpoint>>
  BY DEF RollBack, Answer
<1>2. stmt[s].sale \in Sale
  BY DEF RollBack, IInv, TypeOK, StmtType
<1>3. e \in StmtType
  BY <1>2 DEF StmtType, Verdict
<1>4. e.at = "done" /\ e.verdict = "retry"
  OBVIOUS
<1> HIDE DEF e
<1> QED BY <1>1, <1>3, <1>4, TablesUnchanged

LEMMA ReturnKeepsIInv ==
    ASSUME IInv, NEW s \in Session, Return(s)
    PROVE  IInv'
<1>1. Idle \in StmtType /\ Idle.at = "idle"
  BY DEF Idle, StmtType
<1>2. stmt' = [stmt EXCEPT ![s] = Idle] /\ UNCHANGED <<idem, sales, ledger, balance, checkpoint>>
  BY DEF Return
<1> QED BY <1>1, <1>2, TablesUnchanged

LEMMA NextKeepsIInv == IInv /\ [Next]_vars => IInv'
<1> SUFFICES ASSUME IInv, [Next]_vars PROVE IInv'
  OBVIOUS
<1>1. ASSUME NEW s \in Session, NEW m \in Sale, Begin(s, m) PROVE IInv'
  BY <1>1, BeginKeepsIInv
<1>2. ASSUME NEW s \in Session, Commit(s) PROVE IInv'
  BY <1>2, CommitKeepsIInv DEF Commit
<1>3. ASSUME NEW s \in Session, CommitAnswerLost(s) PROVE IInv'
  BY <1>3, CommitKeepsIInv DEF CommitAnswerLost
<1>4. ASSUME NEW s \in Session, Refuse(s) PROVE IInv'
  BY <1>4, RefuseKeepsIInv
<1>5. ASSUME NEW s \in Session, RollBack(s) PROVE IInv'
  BY <1>5, RollBackKeepsIInv
<1>6. ASSUME NEW s \in Session, Return(s) PROVE IInv'
  BY <1>6, ReturnKeepsIInv
<1>7. CASE UNCHANGED vars
  BY <1>7 DEF vars, IInv, TypeOK, PrefixOf, NoSaleTwice, ClockOrder, ClockBound,
              ClockTop, NoRowIsZero, LedgerIsSales, LedgerRows, StmtSound
<1> QED BY <1>1, <1>2, <1>3, <1>4, <1>5, <1>6, <1>7 DEF Next

\* The inductive invariant holds in every reachable state.
THEOREM Inductive == Spec => []IInv
<1>1. Init => IInv
  BY InitIInv
<1>2. IInv /\ [Next]_vars => IInv'
  BY NextKeepsIInv
<1> QED BY <1>1, <1>2, PTL DEF Spec

-----------------------------------------------------------------------------
(* The properties that follow *)

\* Every variable keeps its type.
THEOREM TypeCorrect == Spec => []TypeOK
<1>1. IInv => TypeOK
  BY DEF IInv
<1> QED BY <1>1, Inductive, PTL

\* reconcile.sql, queries 5 and 5b: the committed sequence numbers of every
\* terminal are 1 to its checkpoint.
THEOREM PrefixCommitted == Spec => []CommittedPrefix
<1>1. IInv => CommittedPrefix
  BY PrefixIsCommittedPrefix DEF IInv
<1> QED BY <1>1, Inductive, PTL

\* reconcile.sql, queries 3 and 4: no key, sale id or sequence number of a
\* terminal is committed twice, and keys and sales correspond.
THEOREM EverySaleOnce == Spec => []NoSaleTwice
<1>1. IInv => NoSaleTwice
  BY DEF IInv
<1> QED BY <1>1, Inductive, PTL

\* The hybrid clock never runs backwards along a terminal's committed sales.
THEOREM ClocksInOrder == Spec => []ClockFollowsSequence
<1>1. IInv => ClockFollowsSequence
  BY DEF IInv, ClockOrder, ClockBound, ClockTop, ClockFollowsSequence
<1> QED BY <1>1, Inductive, PTL

\* "committed" and "duplicate" are said only of a sale that is in the ledger.
THEOREM AnswersAreTrue == Spec => []AnswerIsTrue
<1>1. IInv => AnswerIsTrue
  BY DEF IInv, StmtSound, AnswerIsTrue
<1> QED BY <1>1, Inductive, PTL

\* No step rewrites the financial history, and a checkpoint moves one sale
\* at a time.
THEOREM HistoryIsAppendOnly == Spec => HistoryOnlyGrows
<1> DEFINE Grows ==
        /\ sales \subseteq sales'
        /\ idem \subseteq idem'
        /\ ledger \subseteq ledger'
        /\ \A t \in Terminal :
              \/ checkpoint'[t] = checkpoint[t]
              \/ /\ checkpoint'[t].seq = checkpoint[t].seq + 1
                 /\ checkpoint'[t].hlc >= checkpoint[t].hlc
<1>1. ASSUME IInv, NEW s \in Session, NEW v \in {"committed", "retry"}, CommitAs(s, v)
      PROVE  Grows
  <2>1. /\ stmt[s].at = "running" /\ Claimed(s) /\ ~UniqueViolation(stmt[s].sale)
        /\ idem' = idem \cup {stmt[s].sale} /\ sales' = sales \cup {stmt[s].sale}
        /\ ledger' = ledger \cup LedgerRows(stmt[s].sale)
        /\ checkpoint' = [checkpoint EXCEPT ![stmt[s].sale.terminal] =
                             [seq |-> stmt[s].sale.seq, hlc |-> stmt[s].sale.hlc]]
    BY <1>1 DEF CommitAs
  <2>2. /\ stmt[s].sale \in Sale
        /\ stmt[s].sale.seq = checkpoint[stmt[s].sale.terminal].seq + 1
        /\ stmt[s].sale.hlc >= checkpoint[stmt[s].sale.terminal].hlc
    BY <1>1, <2>1, ClaimedIsNext
  <2>3. checkpoint \in [Terminal -> [seq : Nat, hlc : Nat]]
    BY <1>1 DEF IInv, TypeOK
  <2> QED BY <2>1, <2>2, <2>3
<1>2. IInv /\ [Next]_vars => [Grows]_vars
  <2> SUFFICES ASSUME IInv, [Next]_vars PROVE [Grows]_vars
    OBVIOUS
  <2>1. ASSUME NEW s \in Session, Commit(s) \/ CommitAnswerLost(s) PROVE Grows
    BY <1>1, <2>1 DEF Commit, CommitAnswerLost
  <2>2. ASSUME UNCHANGED <<idem, sales, ledger, balance, checkpoint>> PROVE Grows
    BY <2>2
  <2>3. ASSUME NEW s \in Session,
               (\E m \in Sale : Begin(s, m)) \/ Refuse(s) \/ RollBack(s) \/ Return(s)
        PROVE  UNCHANGED <<idem, sales, ledger, balance, checkpoint>>
    BY <2>3 DEF Begin, Refuse, RollBack, Return
  <2> QED BY <2>1, <2>2, <2>3 DEF Next
<1>3. Spec => [][Grows]_vars
  BY <1>2, Inductive, PTL DEF Spec
<1> QED BY <1>3 DEF HistoryOnlyGrows

-----------------------------------------------------------------------------
(* The balances *)

RowsOf(p) == {r \in ledger : r.product = p}

LedgerSum(p) == SumFunctionOnSet([r \in ledger |-> r.delta], RowsOf(p))

\* The sum is over finitely many rows, although the ledger of a tenant with
\* infinitely many products would not be finite.
BalanceInv == \A p \in Product : IsFiniteSet(RowsOf(p)) /\ balance[p] = LedgerSum(p)

\* A sale of a product is one new row of its ledger, with the quantity that
\* leaves the balance.
LEMMA CommitKeepsBalance ==
    ASSUME IInv, IInv', BalanceInv, NEW s \in Session, NEW v \in {"committed", "retry"}, CommitAs(s, v)
    PROVE  BalanceInv'
<1> DEFINE m == stmt[s].sale
<1>1. /\ stmt[s].at = "running" /\ Claimed(s) /\ ~UniqueViolation(m)
      /\ ledger' = ledger \cup LedgerRows(m)
      /\ balance' = [p \in Product |-> balance[p] - m.qty[p]]
  BY DEF CommitAs, BalanceAfter
<1>2. m \in Sale /\ m.qty \in [Product -> Nat]
  BY <1>1, ClaimedIsNext, SaleFields
<1>3. /\ ledger \subseteq [sale : Sale, product : Product, delta : Int]
      /\ ledger' \subseteq [sale : Sale, product : Product, delta : Int]
  BY DEF IInv, TypeOK
<1>4. m \notin sales
  BY <1>1 DEF Claimed, IInv, NoSaleTwice
<1>5. \A r \in ledger : r.sale \in sales
  BY DEF IInv, LedgerIsSales, LedgerRows
<1> SUFFICES ASSUME NEW p \in Product
             PROVE  IsFiniteSet(RowsOf(p)') /\ balance'[p] = LedgerSum(p)'
  BY DEF BalanceInv
<1> PICK x : x = [sale |-> m, product |-> p, delta |-> -m.qty[p]]
  OBVIOUS
<1> DEFINE f == [r \in ledger |-> r.delta]
           g == [r \in ledger' |-> r.delta]
           S == RowsOf(p)
<1>6. x \notin S
  BY <1>4, <1>5 DEF RowsOf
<1>7. S' = IF m.qty[p] > 0 THEN S \cup {x} ELSE S
  <2>1. \A r : r \in LedgerRows(m) /\ r.product = p <=> m.qty[p] > 0 /\ r = x
    BY DEF LedgerRows
  <2> QED BY <1>1, <2>1 DEF RowsOf
<1>8. \A r \in S' : g[r] \in Int /\ g[r] = r.delta
  BY <1>3 DEF RowsOf
<1>9. \A r \in S : r \in S' /\ g[r] = f[r] /\ g[r] \in Int
  BY <1>1, <1>3 DEF RowsOf
<1>10. IsFiniteSet(S) /\ balance[p] = SumFunctionOnSet(f, S)
  BY DEF BalanceInv, LedgerSum
<1>11. LedgerSum(p)' = SumFunctionOnSet(g, S')
  BY DEF LedgerSum
<1> PICK T : T = S'
  OBVIOUS
<1> HIDE DEF f, g, S, m
<1>12. SumFunctionOnSet(f, S) \in Int
  <2>1. \A r \in S : f[r] \in Int
    BY <1>9
  <2> QED BY <1>10, <2>1, SumInt
<1>13. m.qty[p] \in Nat /\ balance'[p] = balance[p] - m.qty[p]
  BY <1>1, <1>2
<1>14. CASE m.qty[p] > 0
  <2>1. T = S \cup {x} /\ g[x] = -m.qty[p] /\ g[x] \in Int
    BY <1>7, <1>8, <1>14
  <2>2. IsFiniteSet(S) /\ x \notin S /\ (\A y \in S : g[y] = f[y] /\ g[y] \in Int) /\ g[x] \in Int
    BY <1>6, <1>9, <1>10, <2>1
  <2>3. IsFiniteSet(S \cup {x}) /\ SumFunctionOnSet(g, S \cup {x}) = SumFunctionOnSet(f, S) + g[x]
    BY ONLY <2>2, SumGrows
  <2> QED BY <1>10, <1>11, <1>12, <1>13, <2>1, <2>3 DEF S
<1>15. CASE ~(m.qty[p] > 0)
  <2>1. T = S /\ m.qty[p] = 0
    BY <1>7, <1>13, <1>15
  <2>2. \A r \in S : f[r] = g[r]
    BY <1>9
  <2>3. SumFunctionOnSet(f, S) = SumFunctionOnSet(g, S)
    BY <1>10, <2>2, SumSame
  <2> QED BY <1>10, <1>11, <1>12, <1>13, <2>1, <2>3 DEF S
<1> QED BY <1>14, <1>15

\* reconcile.sql, queries 2 and 2b: the balance of every product is the sum of
\* its ledger, whose rows are those of the committed sales.
THEOREM BalancesAreSums == Spec => []BalanceIsLedgerSum
<1>1. Init => BalanceInv
  <2> SUFFICES ASSUME Init, NEW p \in Product PROVE IsFiniteSet(RowsOf(p)) /\ balance[p] = LedgerSum(p)
    BY DEF BalanceInv
  <2>1. RowsOf(p) = {} /\ balance[p] = 0
    BY DEF Init, RowsOf
  <2> QED BY <2>1, SumEmpty, FS_EmptySet DEF LedgerSum
<1>2. ASSUME IInv, IInv', BalanceInv, [Next]_vars PROVE BalanceInv'
  <2>1. ASSUME NEW s \in Session, Commit(s) \/ CommitAnswerLost(s) PROVE BalanceInv'
    BY <1>2, <2>1, CommitKeepsBalance DEF Commit, CommitAnswerLost
  <2>2. ASSUME UNCHANGED <<ledger, balance>> PROVE BalanceInv'
    BY <1>2, <2>2 DEF BalanceInv, RowsOf, LedgerSum
  <2>3. ASSUME NEW s \in Session,
               (\E m \in Sale : Begin(s, m)) \/ Refuse(s) \/ RollBack(s) \/ Return(s)
        PROVE  UNCHANGED <<ledger, balance>>
    BY <2>3 DEF Begin, Refuse, RollBack, Return
  <2>4. CASE UNCHANGED vars
    BY <2>2, <2>4 DEF vars
  <2> QED BY <1>2, <2>1, <2>2, <2>3, <2>4 DEF Next
<1>3. IInv /\ BalanceInv => BalanceIsLedgerSum
  BY DEF IInv, LedgerIsSales, BalanceInv, RowsOf, LedgerSum, BalanceIsLedgerSum
<1> QED BY <1>1, <1>2, <1>3, Inductive, PTL DEF Spec

-----------------------------------------------------------------------------
(* The refinement: whatever statements the sessions run side by side, a step *)
(* of PosOrigin either leaves the journals of SaleJournal alone or appends   *)
(* one sale to one of them.                                                  *)

\* JournalOf as a function of the two tables it reads.
JournalFrom(S, cp) == [t \in Terminal |-> [n \in 1 .. cp[t].seq |->
                          CHOOSE r \in S : r.terminal = t /\ r.seq = n]]

\* The committed numbers of a terminal are 1 to its checkpoint, one sale each.
Numbered(S, cp) ==
    /\ S \in SUBSET Sale
    /\ cp \in [Terminal -> [seq : Nat, hlc : Nat]]
    /\ \A t \in Terminal : \A n \in 1 .. cp[t].seq : \E x \in S : x.terminal = t /\ x.seq = n
    /\ \A x \in S : x.seq \in 1 .. cp[x.terminal].seq
    /\ \A x, y \in S : x.terminal = y.terminal /\ x.seq = y.seq => x = y

\* J holds each sale of S at its number in its terminal's journal, and no other.
HoldsAll(J, S, cp) ==
    /\ \A t \in Terminal :
          /\ J[t] \in Seq(S)
          /\ Len(J[t]) = cp[t].seq
          /\ DOMAIN J[t] = 1 .. cp[t].seq
          /\ \A n \in 1 .. cp[t].seq : J[t][n] \in S /\ J[t][n].terminal = t /\ J[t][n].seq = n
    /\ \A x \in S : J[x.terminal][x.seq] = x

LEMMA JournalRows ==
    ASSUME NEW S, NEW cp, Numbered(S, cp)
    PROVE  HoldsAll(JournalFrom(S, cp), S, cp)
<1>1. ASSUME NEW t \in Terminal
      PROVE  /\ JournalFrom(S, cp)[t] \in Seq(S)
             /\ Len(JournalFrom(S, cp)[t]) = cp[t].seq
             /\ DOMAIN JournalFrom(S, cp)[t] = 1 .. cp[t].seq
             /\ \A n \in 1 .. cp[t].seq :
                   /\ JournalFrom(S, cp)[t][n] \in S
                   /\ JournalFrom(S, cp)[t][n].terminal = t
                   /\ JournalFrom(S, cp)[t][n].seq = n
  <2> DEFINE Row(n) == CHOOSE r \in S : r.terminal = t /\ r.seq = n
             J == [n \in 1 .. cp[t].seq |-> Row(n)]
  <2>1. cp[t].seq \in Nat
    BY DEF Numbered
  <2>2. \A n \in 1 .. cp[t].seq : Row(n) \in S /\ Row(n).terminal = t /\ Row(n).seq = n
    BY DEF Numbered
  <2>3. JournalFrom(S, cp)[t] = J
    BY DEF JournalFrom
  <2> HIDE DEF Row
  <2>4. DOMAIN J = 1 .. cp[t].seq /\ \A n \in 1 .. cp[t].seq : J[n] = Row(n)
    OBVIOUS
  <2>5. J \in [1 .. cp[t].seq -> S]
    BY <2>2
  <2>6. J \in Seq(S) /\ Len(J) = cp[t].seq
    BY <2>1, <2>5
  <2> QED BY <2>2, <2>3, <2>4, <2>6
<1>2. ASSUME NEW x \in S PROVE JournalFrom(S, cp)[x.terminal][x.seq] = x
  <2>1. x.terminal \in Terminal
    BY SaleFields DEF Numbered
  <2>2. x.seq \in 1 .. cp[x.terminal].seq
    BY DEF Numbered
  <2>3. /\ JournalFrom(S, cp)[x.terminal][x.seq] \in S
        /\ JournalFrom(S, cp)[x.terminal][x.seq].terminal = x.terminal
        /\ JournalFrom(S, cp)[x.terminal][x.seq].seq = x.seq
    BY <1>1, <2>1, <2>2
  <2> QED BY <2>3 DEF Numbered
<1> QED BY <1>1, <1>2 DEF HoldsAll

LEMMA TablesNumbered == IInv => Numbered(sales, checkpoint)
<1> SUFFICES ASSUME IInv PROVE Numbered(sales, checkpoint)
  OBVIOUS
<1>1. sales \in SUBSET Sale /\ checkpoint \in [Terminal -> [seq : Nat, hlc : Nat]]
  BY DEF IInv, TypeOK
<1>2. \A x \in sales : x.terminal \in Terminal
  BY <1>1, SaleFields
<1> QED BY <1>1, <1>2 DEF IInv, PrefixOf, NoSaleTwice, Numbered

\* The invariant of the state gives what JournalOf holds.
LEMMA JournalHolds == IInv => HoldsAll(JournalOf, sales, checkpoint)
<1>1. JournalOf = JournalFrom(sales, checkpoint)
  BY DEF JournalOf, JournalFrom
<1> QED BY <1>1, TablesNumbered, JournalRows

LEMMA EntriesAreSales == IInv => Journal!Entries = sales
<1> SUFFICES ASSUME IInv PROVE Journal!Entries = sales
  OBVIOUS
<1> DEFINE J == JournalOf
<1>1. HoldsAll(J, sales, checkpoint) /\ Numbered(sales, checkpoint)
  BY JournalHolds, TablesNumbered
<1>2. Journal!Entries = UNION {{J[t][i] : i \in DOMAIN J[t]} : t \in Terminal}
  BY DEF Journal!Entries
<1> HIDE DEF J
<1>3. ASSUME NEW e, NEW t \in Terminal, e \in {J[t][i] : i \in DOMAIN J[t]}
      PROVE  e \in sales
  <2>1. PICK i \in DOMAIN J[t] : e = J[t][i]
    BY <1>3
  <2> QED BY <1>1, <2>1 DEF HoldsAll
<1>4. ASSUME NEW x \in sales
      PROVE  \E t \in Terminal : x \in {J[t][i] : i \in DOMAIN J[t]}
  <2>1. x.terminal \in Terminal
    BY <1>1, SaleFields DEF Numbered
  <2>2. x.seq \in DOMAIN J[x.terminal] /\ x = J[x.terminal][x.seq]
    BY <1>1, <2>1 DEF HoldsAll, Numbered
  <2> QED BY <2>1, <2>2
<1> QED BY <1>2, <1>3, <1>4

\* The empty tables are empty journals.
LEMMA InitImplements == Init => Journal!Init
<1> SUFFICES ASSUME Init PROVE JournalOf = [t \in Terminal |-> << >>]
  BY DEF Journal!Init
<1>1. \A t \in Terminal : checkpoint[t].seq = 0
  BY DEF Init, NoCheckpoint
<1>2. \A t \in Terminal : [n \in 1 .. checkpoint[t].seq |->
          CHOOSE r \in sales : r.terminal = t /\ r.seq = n] = << >>
  BY <1>1
<1> QED BY <1>2 DEF JournalOf

\* The statement that commits appends its sale to its terminal's journal.
LEMMA CommitImplements ==
    ASSUME IInv, IInv', NEW s \in Session, NEW v \in {"committed", "retry"}, CommitAs(s, v)
    PROVE  Journal!Next
<1> DEFINE m == stmt[s].sale
           t == m.terminal
           J == JournalOf
           K == JournalOf'
<1>1. /\ Claimed(s) /\ ~UniqueViolation(m) /\ stmt[s].at = "running"
      /\ sales' = sales \cup {m}
      /\ checkpoint' = [checkpoint EXCEPT ![t] = [seq |-> m.seq, hlc |-> m.hlc]]
  BY DEF CommitAs
<1>2. m \in Sale /\ m.seq = checkpoint[t].seq + 1 /\ m.hlc >= checkpoint[t].hlc
  BY <1>1, ClaimedIsNext
<1>3. checkpoint \in [Terminal -> [seq : Nat, hlc : Nat]]
  BY TablesNumbered DEF Numbered
<1>4. t \in Terminal /\ m.seq \in Nat /\ m.hlc \in Nat /\ checkpoint[t].seq \in Nat
  BY <1>2, <1>3, SaleFields
<1>5. sales \in SUBSET Sale /\ sales' \in SUBSET Sale
  BY DEF IInv, TypeOK
<1>6. HoldsAll(J, sales, checkpoint)
  BY JournalHolds
<1>7. HoldsAll(K, sales', checkpoint')
  <2>1. HoldsAll(JournalOf, sales, checkpoint)'
    BY JournalHolds, PTL
  <2> QED BY <2>1
<1>8. DOMAIN J = Terminal /\ DOMAIN K = Terminal /\ K = [u \in Terminal |-> K[u]]
  BY DEF JournalOf
<1> HIDE DEF J, K
<1>9. \A u \in Terminal : u # t => checkpoint'[u] = checkpoint[u]
  BY <1>1, <1>3
<1>10. checkpoint'[t].seq = m.seq
  BY <1>1, <1>3, <1>4
<1>11. \A u \in Terminal : \A n \in 1 .. checkpoint[u].seq : K[u][n] = J[u][n]
  BY <1>1, <1>6, <1>7 DEF HoldsAll
<1>12. K[t][m.seq] = m
  BY <1>1, <1>7 DEF HoldsAll
<1>13. ASSUME NEW u \in Terminal, u # t PROVE K[u] = J[u]
  <2>1. Len(K[u]) = Len(J[u]) /\ Len(J[u]) = checkpoint[u].seq
    BY <1>6, <1>7, <1>9, <1>13 DEF HoldsAll
  <2>2. K[u] \in Seq(Sale) /\ J[u] \in Seq(Sale)
    BY <1>5, <1>6, <1>7 DEF HoldsAll
  <2>3. \A n \in 1 .. Len(K[u]) : K[u][n] = J[u][n]
    BY <1>11, <2>1
  <2> QED BY <2>1, <2>2, <2>3, SeqEqual
<1>14. K[t] = Append(J[t], m)
  <2> DEFINE A == Append(J[t], m)
  <2>1. J[t] \in Seq(Sale) /\ K[t] \in Seq(Sale)
    BY <1>4, <1>5, <1>6, <1>7 DEF HoldsAll
  <2>2. /\ A \in Seq(Sale) /\ Len(A) = Len(J[t]) + 1
        /\ \A n \in 1 .. Len(J[t]) : A[n] = J[t][n]
        /\ A[Len(J[t]) + 1] = m
    BY <1>2, <2>1, AppendProperties
  <2> HIDE DEF A
  <2>3. Len(J[t]) + 1 = m.seq /\ Len(J[t]) = checkpoint[t].seq /\ Len(K[t]) = m.seq
    BY <1>2, <1>4, <1>6, <1>7, <1>10 DEF HoldsAll
  <2>4. ASSUME NEW n \in 1 .. Len(K[t]) PROVE K[t][n] = A[n]
    <3>1. n \in 1 .. checkpoint[t].seq \/ n = m.seq
      BY <1>4, <2>3
    <3>2. CASE n = m.seq
      BY <1>12, <2>2, <2>3, <3>2
    <3>3. CASE n \in 1 .. checkpoint[t].seq
      BY <1>4, <1>11, <2>2, <2>3, <3>3
    <3> QED BY <3>1, <3>2, <3>3
  <2>5. Len(K[t]) = Len(A)
    BY <2>2, <2>3
  <2>6. K[t] = A
    BY <2>1, <2>2, <2>4, <2>5, SeqEqual
  <2> QED BY <2>6 DEF A
<1>15. K = [J EXCEPT ![t] = Append(@, m)]
  BY <1>4, <1>8, <1>13, <1>14
<1>16. \A e \in Journal!Entries : e.key # m.key /\ e.saleId # m.saleId
  BY <1>1, EntriesAreSales DEF Claimed, UniqueViolation, IInv, NoSaleTwice
<1>17. m.seq = Len(J[t]) + 1
  BY <1>2, <1>4, <1>6 DEF HoldsAll
<1>18. ASSUME m.seq > 1 PROVE J[t][m.seq - 1].hlc <= m.hlc
  <2>1. m.seq - 1 = checkpoint[t].seq /\ checkpoint[t].seq \in 1 .. checkpoint[t].seq
    BY <1>2, <1>4, <1>18
  <2>2. J[t][m.seq - 1] \in sales /\ J[t][m.seq - 1].terminal = t
    BY <1>4, <1>6, <2>1 DEF HoldsAll
  <2>3. J[t][m.seq - 1].hlc <= checkpoint[t].hlc
    BY <2>2 DEF IInv, ClockBound
  <2>4. J[t][m.seq - 1].hlc \in Nat /\ checkpoint[t].hlc \in Nat
    BY <1>3, <1>4, <1>5, <2>2, SaleFields
  <2> QED BY <1>2, <1>4, <2>3, <2>4
<1>19. Journal!Commit(m)
  BY <1>15, <1>16, <1>17, <1>18 DEF Journal!Commit, J, K
<1> QED BY <1>2, <1>19 DEF Journal!Next

\* No other step touches the tables the journals are read from.
LEMMA OthersStutter ==
    ASSUME UNCHANGED <<idem, sales, ledger, balance, checkpoint>>
    PROVE  UNCHANGED JournalOf
  BY DEF JournalOf

\* COMMIT_SALE_CTE implements the journal: one sale at a time, at the end of its
\* terminal's journal, under an unused key and sale id.
THEOREM OriginImplementsJournal == Spec => ImplementsJournal
<1>1. IInv /\ IInv' /\ [Next]_vars => [Journal!Next]_JournalOf
  <2> SUFFICES ASSUME IInv, IInv', [Next]_vars PROVE [Journal!Next]_JournalOf
    OBVIOUS
  <2>1. ASSUME NEW s \in Session, Commit(s) \/ CommitAnswerLost(s) PROVE Journal!Next
    BY <2>1, CommitImplements DEF Commit, CommitAnswerLost
  <2>2. ASSUME NEW s \in Session,
               (\E m \in Sale : Begin(s, m)) \/ Refuse(s) \/ RollBack(s) \/ Return(s)
        PROVE  UNCHANGED JournalOf
    BY <2>2, OthersStutter DEF Begin, Refuse, RollBack, Return
  <2>3. CASE UNCHANGED vars
    BY <2>3, OthersStutter DEF vars
  <2> QED BY <2>1, <2>2, <2>3 DEF Next
<1> QED BY <1>1, InitImplements, Inductive, PTL DEF Spec, ImplementsJournal, Journal!Spec
=============================================================================
