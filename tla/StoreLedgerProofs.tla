--------------------------- MODULE StoreLedgerProofs ---------------------------
(* The store's tables explain its stock and its drawers, and what has an effect    *)
(* has it once, for every set of requests, any number of sessions and any order of *)
(* their calls.                                                                    *)
(*                                                                                 *)
(* The drawer comes first, on its own (DrawerSpec).  Then Types: the rows of all   *)
(* tables keep their types and refer to rows that exist.  Under it each property    *)
(* is an invariant of its own, proved against seven kinds of step: a sale, a refund*)
(* an adjustment, a void, an import, a step of the drawer, and the quiet ones,     *)
(* which leave the tables.  Sums over a table change by one term when a row joins  *)
(* it (Sums); the rest is bookkeeping of which term.                               *)
EXTENDS StoreLedger, Sums, FiniteSetTheorems, SequenceTheorems, TLAPS

ShiftRow ==
  [register : {r.register : r \in OpenRequests}, cashier : {r.cashier : r \in OpenRequests},
   float : Nat \ {0}, status : {"open", "closed"}, counted : Nat \union {NotCounted}]

MoveRow == [shift : Nat \ {0}, type : MoveTypes, amount : Nat \ {0}]

DrawerTables == shifts \in Seq(ShiftRow) /\ moves \in Seq(MoveRow)

(* The inductive invariant. *)
DrawerInv == DrawerTables /\ DrawerTypeOK /\ OneOpenShift /\ OperationsOnce

--------------------------------------------------------------------------------
(* What the operations do to the sequences. *)

LEMMA DrawerInitHolds == DrawerInit => DrawerInv
<1> SUFFICES ASSUME DrawerInit PROVE DrawerInv
  OBVIOUS
<1>1. DrawerTables
  BY DEF DrawerInit, DrawerTables
<1>2. DrawerTypeOK /\ OneOpenShift
  BY DEF DrawerInit, DrawerTypeOK, OneOpenShift
<1>3. OperationsOnce
  <2> DEFINE Floats == {i \in DOMAIN moves : moves[i].type = "opening_float"}
  <2>1. DOMAIN shifts = {} /\ DOMAIN moves = {} /\ Len(shifts) = 0
    BY DEF DrawerInit
  <2>2. Floats = {} /\ Cardinality(Floats) = 0
    BY <2>1, FS_EmptySet
  <2> QED BY <2>1, <2>2 DEF DrawerInit, OperationsOnce
<1> QED BY <1>1, <1>2, <1>3 DEF DrawerInv

(* Opening appends one open shift and its float. *)
LEMMA Opened ==
  ASSUME DrawerTables, NEW r \in OpenRequests, OpenShift(r)
  PROVE  /\ DrawerTables'
         /\ DOMAIN shifts = 1 .. Len(shifts) /\ DOMAIN shifts' = 1 .. Len(shifts) + 1
         /\ DOMAIN moves = 1 .. Len(moves) /\ DOMAIN moves' = 1 .. Len(moves) + 1
         /\ \A n \in DOMAIN shifts : shifts'[n] = shifts[n]
         /\ \A i \in DOMAIN moves : moves'[i] = moves[i]
         /\ shifts'[Len(shifts) + 1] =
              [register |-> r.register, cashier |-> r.cashier, float |-> r.float,
               status |-> "open", counted |-> NotCounted]
         /\ moves'[Len(moves) + 1] =
              [shift |-> Len(shifts) + 1, type |-> "opening_float", amount |-> r.float]
<1> DEFINE row == [register |-> r.register, cashier |-> r.cashier, float |-> r.float,
                   status |-> "open", counted |-> NotCounted]
           move == [shift |-> Len(shifts) + 1, type |-> "opening_float", amount |-> r.float]
<1>1. row \in ShiftRow
  BY DrawerAssumption DEF OpenShift, ShiftRow
<1>2. move \in MoveRow
  BY DrawerAssumption DEF OpenShift, DrawerTables, MoveRow, MoveTypes
<1>3. shifts' = Append(shifts, row) /\ moves' = Append(moves, move)
  BY DEF OpenShift
<1> HIDE DEF row, move
<1>4. shifts' \in Seq(ShiftRow) /\ moves' \in Seq(MoveRow)
  BY <1>1, <1>2, <1>3 DEF DrawerTables
<1>5. /\ DOMAIN shifts = 1 .. Len(shifts) /\ DOMAIN shifts' = 1 .. Len(shifts) + 1
      /\ \A n \in DOMAIN shifts : shifts'[n] = shifts[n]
      /\ shifts'[Len(shifts) + 1] = row
  BY <1>1, <1>3 DEF DrawerTables
<1>6. /\ DOMAIN moves = 1 .. Len(moves) /\ DOMAIN moves' = 1 .. Len(moves) + 1
      /\ \A i \in DOMAIN moves : moves'[i] = moves[i]
      /\ moves'[Len(moves) + 1] = move
  BY <1>2, <1>3 DEF DrawerTables
<1> QED BY <1>4, <1>5, <1>6 DEF DrawerTables, row, move

(* Closing changes one open shift in place. *)
LEMMA Closed ==
  ASSUME DrawerTables, NEW r \in CloseRequests, CloseShift(r)
  PROVE  /\ DrawerTables'
         /\ moves' = moves /\ Len(shifts') = Len(shifts)
         /\ r.shift \in DOMAIN shifts /\ DOMAIN shifts' = DOMAIN shifts
         /\ shifts[r.shift].status = "open"
         /\ shifts'[r.shift].status = "closed" /\ shifts'[r.shift].counted = r.counted
         /\ shifts'[r.shift].register = shifts[r.shift].register
         /\ shifts'[r.shift].float = shifts[r.shift].float
         /\ \A n \in DOMAIN shifts \ {r.shift} : shifts'[n] = shifts[n]
<1> DEFINE row == [shifts[r.shift] EXCEPT !.status = "closed", !.counted = r.counted]
<1>1. r.shift \in DOMAIN shifts /\ shifts[r.shift].status = "open"
  BY DEF CloseShift, IsOpen
<1>2. DOMAIN shifts = 1 .. Len(shifts) /\ shifts[r.shift] \in ShiftRow
  BY <1>1 DEF DrawerTables
<1>3. row \in ShiftRow
  BY <1>2, DrawerAssumption DEF ShiftRow
<1>4. row.status = "closed" /\ row.counted = r.counted
      /\ row.register = shifts[r.shift].register /\ row.float = shifts[r.shift].float
  BY <1>2 DEF ShiftRow
<1>5. shifts' = [shifts EXCEPT ![r.shift] = row]
  BY <1>1, <1>2 DEF CloseShift, ShiftRow
<1> HIDE DEF row
<1>6. shifts' \in Seq(ShiftRow) /\ Len(shifts') = Len(shifts) /\ DOMAIN shifts' = DOMAIN shifts
  BY <1>1, <1>2, <1>3, <1>5 DEF DrawerTables
<1>7. shifts'[r.shift] = row /\ \A n \in DOMAIN shifts \ {r.shift} : shifts'[n] = shifts[n]
  BY <1>1, <1>5
<1>8. moves' = moves
  BY DEF CloseShift
<1> QED BY <1>1, <1>4, <1>6, <1>7, <1>8 DEF DrawerTables

(* A manual movement is appended, of an open shift. *)
LEMMA Recorded ==
  ASSUME DrawerTables, NEW r \in CashRequests, RecordCashMovement(r)
  PROVE  /\ DrawerTables'
         /\ shifts' = shifts
         /\ r.shift \in DOMAIN shifts /\ shifts[r.shift].status = "open"
         /\ DOMAIN moves = 1 .. Len(moves) /\ DOMAIN moves' = 1 .. Len(moves) + 1
         /\ \A i \in DOMAIN moves : moves'[i] = moves[i]
         /\ moves'[Len(moves) + 1] = CashPayload(r)
         /\ CashPayload(r).shift = r.shift /\ CashPayload(r).type = r.type
         /\ CashPayload(r).amount = r.amount
<1>1. r.shift \in DOMAIN shifts /\ shifts[r.shift].status = "open" /\ shifts' = shifts
  BY DEF RecordCashMovement, IsOpen
<1>2. CashPayload(r) \in MoveRow
  BY <1>1, DrawerAssumption DEF RecordCashMovement, DrawerTables, CashPayload, MoveRow, MoveTypes
<1>3. moves' = Append(moves, CashPayload(r))
  BY DEF RecordCashMovement
<1>4. moves' \in Seq(MoveRow)
  BY <1>2, <1>3 DEF DrawerTables
<1>5. /\ DOMAIN moves = 1 .. Len(moves) /\ DOMAIN moves' = 1 .. Len(moves) + 1
      /\ \A i \in DOMAIN moves : moves'[i] = moves[i]
      /\ moves'[Len(moves) + 1] = CashPayload(r)
  BY <1>2, <1>3 DEF DrawerTables
<1>6. CashPayload(r).shift = r.shift /\ CashPayload(r).type = r.type
      /\ CashPayload(r).amount = r.amount
  BY DEF CashPayload
<1> QED BY <1>1, <1>4, <1>5, <1>6 DEF DrawerTables

--------------------------------------------------------------------------------
(* Each operation preserves the invariant. *)

(* The floats and their number, after a movement that is not one or that is.  *)
Floats == {i \in DOMAIN moves : moves[i].type = "opening_float"}

LEMMA FloatsFinite ==
  ASSUME DrawerTables PROVE IsFiniteSet(Floats) /\ Floats \subseteq 1 .. Len(moves)
<1>1. DOMAIN moves = 1 .. Len(moves) /\ Len(moves) \in Nat
  BY DEF DrawerTables
<1>2. Floats \in SUBSET (1 .. Len(moves)) /\ IsFiniteSet(1 .. Len(moves))
  BY <1>1, FS_Interval DEF Floats
<1> QED BY <1>2, FS_Subset

LEMMA OpenKeeps ==
  ASSUME DrawerInv, NEW r \in OpenRequests, OpenShift(r)
  PROVE  DrawerInv'
<1> DEFINE n == Len(shifts) + 1
           o == Operation("open_shift", r.key, OpenPayload(r), n)
<1>1. DrawerTables /\ DrawerTypeOK /\ OneOpenShift /\ OperationsOnce
  BY DEF DrawerInv
<1>2. /\ DrawerTables'
      /\ DOMAIN shifts = 1 .. Len(shifts) /\ DOMAIN shifts' = 1 .. Len(shifts) + 1
      /\ DOMAIN moves = 1 .. Len(moves) /\ DOMAIN moves' = 1 .. Len(moves) + 1
      /\ \A k \in DOMAIN shifts : shifts'[k] = shifts[k]
      /\ \A i \in DOMAIN moves : moves'[i] = moves[i]
      /\ shifts'[n] = [register |-> r.register, cashier |-> r.cashier, float |-> r.float,
                       status |-> "open", counted |-> NotCounted]
      /\ moves'[Len(moves) + 1] = [shift |-> n, type |-> "opening_float", amount |-> r.float]
  BY <1>1, Opened
<1>3. Len(shifts) \in Nat /\ Len(moves) \in Nat /\ r.float \in Nat \ {0}
  BY <1>1, DrawerAssumption DEF DrawerTables, OpenShift
<1>4. ops' = ops \union {o}
  BY DEF OpenShift
<1>5. o.type = "open_shift" /\ o.key = r.key /\ o.result = n
  BY DEF Operation
<1>6. DrawerTypeOK'
  <2>1. ASSUME NEW k \in DOMAIN shifts'
        PROVE  /\ shifts'[k].status \in {"open", "closed"}
               /\ shifts'[k].float \in Nat \ {0}
               /\ shifts'[k].counted \in Nat \union {NotCounted}
               /\ shifts'[k].status = "open" <=> shifts'[k].counted = NotCounted
    <3>1. CASE k = n
      BY <1>2, <1>3, <3>1
    <3>2. CASE k \in DOMAIN shifts
      BY <1>1, <1>2, <3>2 DEF DrawerTypeOK
    <3> QED BY <1>2, <1>3, <3>1, <3>2
  <2>2. ASSUME NEW i \in DOMAIN moves'
        PROVE  /\ moves'[i].shift \in DOMAIN shifts'
               /\ moves'[i].type \in MoveTypes
               /\ moves'[i].amount \in Nat \ {0}
    <3>1. CASE i = Len(moves) + 1
      BY <1>2, <1>3, <3>1 DEF MoveTypes
    <3>2. CASE i \in DOMAIN moves
      BY <1>1, <1>2, <1>3, <3>2 DEF DrawerTypeOK
    <3> QED BY <1>2, <1>3, <3>1, <3>2
  <2>3. \A q \in ops' : q.type \in OpTypes
    BY <1>1, <1>4, <1>5 DEF DrawerTypeOK, OpTypes
  <2> QED BY <2>1, <2>2, <2>3 DEF DrawerTypeOK
<1>7. OneOpenShift'
  <2>1. \A k \in DOMAIN shifts : ~(shifts[k].status = "open" /\ shifts[k].register = r.register)
    BY DEF OpenShift, OpenShiftsOf, IsOpen
  <2>2. SUFFICES ASSUME NEW k \in DOMAIN shifts', NEW l \in DOMAIN shifts',
                        shifts'[k].status = "open", shifts'[l].status = "open",
                        shifts'[k].register = shifts'[l].register
                 PROVE  k = l
    BY DEF OneOpenShift, IsOpen
  <2>3. k \in DOMAIN shifts \/ k = n
    BY <1>2, <1>3
  <2>4. l \in DOMAIN shifts \/ l = n
    BY <1>2, <1>3
  <2>5. shifts'[n].register = r.register
    BY <1>2
  <2>6. CASE k \in DOMAIN shifts /\ l \in DOMAIN shifts
    BY <1>1, <1>2, <2>2, <2>6 DEF OneOpenShift, IsOpen
  <2> QED BY <1>2, <2>1, <2>2, <2>3, <2>4, <2>5, <2>6
<1>8. OperationsOnce'
  <2>1. n \notin DOMAIN shifts
    BY <1>2, <1>3
  <2>2. \A q \in ops : q.type = "open_shift" => q.result \in DOMAIN shifts /\ q.key # r.key
    BY <1>1 DEF OperationsOnce, OpenShift, Unclaimed
  <2>3. \A p, q \in ops' : p.type = q.type /\ (p.key = q.key \/ p.result = q.result) => p = q
    BY <1>1, <1>4, <1>5, <2>1, <2>2 DEF OperationsOnce
  <2>4. {q.result : q \in {x \in ops' : x.type = "open_shift"}} = DOMAIN shifts'
    <3>1. {q.result : q \in {x \in ops : x.type = "open_shift"}} = DOMAIN shifts
      BY <1>1 DEF OperationsOnce
    <3>2. DOMAIN shifts' = DOMAIN shifts \union {n}
      BY <1>2, <1>3
    <3> QED BY <1>4, <1>5, <3>1, <3>2
  <2>5. /\ {moves'[i].shift : i \in Floats'} = DOMAIN shifts'
        /\ Cardinality(Floats') = Len(shifts')
    <3>1. Floats' = Floats \union {Len(moves) + 1} /\ Len(moves) + 1 \notin Floats
      BY <1>2, <1>3 DEF Floats
    <3>2. {moves[i].shift : i \in Floats} = DOMAIN shifts /\ Cardinality(Floats) = Len(shifts)
      BY <1>1 DEF OperationsOnce, Floats
    <3>3. Cardinality(Floats') = Len(shifts) + 1
      BY <1>1, <3>1, <3>2, FloatsFinite, FS_AddElement
    <3>4. \A i \in Floats : moves'[i].shift = moves[i].shift
      BY <1>2 DEF Floats
    <3>5. moves'[Len(moves) + 1].shift = n
      BY <1>2
    <3>6. DOMAIN shifts' = DOMAIN shifts \union {n} /\ Len(shifts') = Len(shifts) + 1
      BY <1>2, <1>3 DEF DrawerTables
    <3>7. {moves'[i].shift : i \in Floats'} = {moves'[i].shift : i \in Floats} \union {n}
      BY <3>1, <3>5
    <3>8. {moves'[i].shift : i \in Floats} = {moves[i].shift : i \in Floats}
      BY <3>4
    <3> QED BY <3>2, <3>3, <3>6, <3>7, <3>8
  <2>6. {q.result : q \in {x \in ops' : x.type = "close_shift"}} =
          {k \in DOMAIN shifts' : shifts'[k].status = "closed"}
    <3>1. {q.result : q \in {x \in ops : x.type = "close_shift"}} =
            {k \in DOMAIN shifts : shifts[k].status = "closed"}
      BY <1>1 DEF OperationsOnce
    <3>2. {x \in ops' : x.type = "close_shift"} = {x \in ops : x.type = "close_shift"}
      BY <1>4, <1>5
    <3>3. \A k \in DOMAIN shifts' : k \in DOMAIN shifts \/ (k = n /\ shifts'[k].status = "open")
      BY <1>2, <1>3
    <3>4. {k \in DOMAIN shifts' : shifts'[k].status = "closed"} =
            {k \in DOMAIN shifts : shifts[k].status = "closed"}
      BY <1>2, <1>3, <3>3
    <3> QED BY <3>1, <3>2, <3>4
  <2>7. {q.result : q \in {x \in ops' : x.type = "cash_movement"}} =
          {i \in DOMAIN moves' : moves'[i].type \in ManualTypes}
    <3>1. {q.result : q \in {x \in ops : x.type = "cash_movement"}} =
            {i \in DOMAIN moves : moves[i].type \in ManualTypes}
      BY <1>1 DEF OperationsOnce
    <3>2. {x \in ops' : x.type = "cash_movement"} = {x \in ops : x.type = "cash_movement"}
      BY <1>4, <1>5
    <3>3. moves'[Len(moves) + 1].type \notin ManualTypes
      BY <1>2 DEF ManualTypes
    <3>4. {i \in DOMAIN moves' : moves'[i].type \in ManualTypes} =
            {i \in DOMAIN moves : moves[i].type \in ManualTypes}
      BY <1>2, <1>3, <3>3
    <3> QED BY <3>1, <3>2, <3>4
  <2>8. /\ \A q \in {x \in ops' : x.type = "cash_movement"} : moves'[q.result] = q.payload
        /\ \A q \in {x \in ops' : x.type = "close_shift"} :
              shifts'[q.result].counted = q.payload.counted
    <3>1. \A q \in ops' : q.type \in {"cash_movement", "close_shift"} => q \in ops
      BY <1>4, <1>5
    <3>2. \A q \in ops : q.type = "cash_movement" =>
            q.result \in DOMAIN moves /\ moves[q.result] = q.payload
      BY <1>1 DEF OperationsOnce
    <3>3. \A q \in ops : q.type = "close_shift" =>
            q.result \in DOMAIN shifts /\ shifts[q.result].counted = q.payload.counted
      BY <1>1 DEF OperationsOnce
    <3> QED BY <1>2, <3>1, <3>2, <3>3
  <2> QED BY <2>3, <2>4, <2>5, <2>6, <2>7, <2>8 DEF OperationsOnce, Floats
<1> QED BY <1>2, <1>6, <1>7, <1>8 DEF DrawerInv

LEMMA CloseKeeps ==
  ASSUME DrawerInv, NEW r \in CloseRequests, CloseShift(r)
  PROVE  DrawerInv'
<1> DEFINE n == r.shift
           o == Operation("close_shift", r.key, ClosePayload(r), n)
<1>1. DrawerTables /\ DrawerTypeOK /\ OneOpenShift /\ OperationsOnce
  BY DEF DrawerInv
<1>2. /\ DrawerTables'
      /\ moves' = moves /\ Len(shifts') = Len(shifts)
      /\ n \in DOMAIN shifts /\ DOMAIN shifts' = DOMAIN shifts
      /\ shifts[n].status = "open"
      /\ shifts'[n].status = "closed" /\ shifts'[n].counted = r.counted
      /\ shifts'[n].register = shifts[n].register
      /\ shifts'[n].float = shifts[n].float
      /\ \A k \in DOMAIN shifts \ {n} : shifts'[k] = shifts[k]
  BY <1>1, Closed
<1>3. ops' = ops \union {o} /\ r.counted \in Nat
  BY DrawerAssumption DEF CloseShift
<1>4. o.type = "close_shift" /\ o.key = r.key /\ o.result = n /\ o.payload.counted = r.counted
  BY DEF Operation, ClosePayload
<1>5. DrawerTypeOK'
  <2>1. ASSUME NEW k \in DOMAIN shifts'
        PROVE  /\ shifts'[k].status \in {"open", "closed"}
               /\ shifts'[k].float \in Nat \ {0}
               /\ shifts'[k].counted \in Nat \union {NotCounted}
               /\ shifts'[k].status = "open" <=> shifts'[k].counted = NotCounted
    <3>1. CASE k = n
      BY <1>1, <1>2, <1>3, <3>1 DEF DrawerTypeOK, NotCounted
    <3>2. CASE k # n
      BY <1>1, <1>2, <3>2 DEF DrawerTypeOK
    <3> QED BY <3>1, <3>2
  <2>2. \A q \in ops' : q.type \in OpTypes
    BY <1>1, <1>3, <1>4 DEF DrawerTypeOK, OpTypes
  <2> QED BY <1>1, <1>2, <2>1, <2>2 DEF DrawerTypeOK
<1>6. OneOpenShift'
  BY <1>1, <1>2 DEF OneOpenShift, IsOpen
<1>7. OperationsOnce'
  <2>1. \A q \in ops : q.type = "close_shift" =>
          /\ q.result \in DOMAIN shifts /\ shifts[q.result].status = "closed"
          /\ q.key # r.key /\ shifts[q.result].counted = q.payload.counted
    BY <1>1 DEF OperationsOnce, CloseShift, Unclaimed
  <2>2. \A p, q \in ops' : p.type = q.type /\ (p.key = q.key \/ p.result = q.result) => p = q
    BY <1>1, <1>2, <1>3, <1>4, <2>1 DEF OperationsOnce
  <2>3. \A type \in {"open_shift", "cash_movement"} :
          {x \in ops' : x.type = type} = {x \in ops : x.type = type}
    BY <1>3, <1>4
  <2>4. {q.result : q \in {x \in ops' : x.type = "open_shift"}} = DOMAIN shifts'
    BY <1>1, <1>2, <2>3 DEF OperationsOnce
  <2>5. /\ {moves'[i].shift : i \in Floats'} = DOMAIN shifts'
        /\ Cardinality(Floats') = Len(shifts')
    <3>1. Floats' = Floats
      BY <1>2 DEF Floats
    <3> QED BY <1>1, <1>2, <3>1 DEF OperationsOnce, Floats
  <2>6. {q.result : q \in {x \in ops' : x.type = "close_shift"}} =
          {k \in DOMAIN shifts' : shifts'[k].status = "closed"}
    <3>1. {q.result : q \in {x \in ops : x.type = "close_shift"}} =
            {k \in DOMAIN shifts : shifts[k].status = "closed"}
      BY <1>1 DEF OperationsOnce
    <3>2. {q.result : q \in {x \in ops' : x.type = "close_shift"}} =
            {q.result : q \in {x \in ops : x.type = "close_shift"}} \union {n}
      BY <1>3, <1>4
    <3>3. {k \in DOMAIN shifts' : shifts'[k].status = "closed"} =
            {k \in DOMAIN shifts : shifts[k].status = "closed"} \union {n}
      BY <1>2
    <3> QED BY <3>1, <3>2, <3>3
  <2>7. {q.result : q \in {x \in ops' : x.type = "cash_movement"}} =
          {i \in DOMAIN moves' : moves'[i].type \in ManualTypes}
    BY <1>1, <1>2, <2>3 DEF OperationsOnce
  <2>8. \A q \in {x \in ops' : x.type = "cash_movement"} : moves'[q.result] = q.payload
    BY <1>1, <1>2, <2>3 DEF OperationsOnce
  <2>9. \A q \in {x \in ops' : x.type = "close_shift"} :
          shifts'[q.result].counted = q.payload.counted
    BY <1>2, <1>3, <1>4, <2>1
  <2> QED BY <2>2, <2>4, <2>5, <2>6, <2>7, <2>8, <2>9 DEF OperationsOnce, Floats
<1> QED BY <1>2, <1>5, <1>6, <1>7 DEF DrawerInv

LEMMA RecordKeeps ==
  ASSUME DrawerInv, NEW r \in CashRequests, RecordCashMovement(r)
  PROVE  DrawerInv'
<1> DEFINE i == Len(moves) + 1
           o == Operation("cash_movement", r.key, CashPayload(r), i)
<1>1. DrawerTables /\ DrawerTypeOK /\ OneOpenShift /\ OperationsOnce
  BY DEF DrawerInv
<1>2. /\ DrawerTables'
      /\ shifts' = shifts
      /\ r.shift \in DOMAIN shifts /\ shifts[r.shift].status = "open"
      /\ DOMAIN moves = 1 .. Len(moves) /\ DOMAIN moves' = 1 .. Len(moves) + 1
      /\ \A j \in DOMAIN moves : moves'[j] = moves[j]
      /\ moves'[i] = CashPayload(r)
      /\ CashPayload(r).shift = r.shift /\ CashPayload(r).type = r.type
      /\ CashPayload(r).amount = r.amount
  BY <1>1, Recorded
<1>3. ops' = ops \union {o} /\ r.type \in ManualTypes /\ r.amount \in Nat \ {0}
      /\ Len(moves) \in Nat
  BY <1>1, DrawerAssumption DEF RecordCashMovement, DrawerTables
<1>4. o.type = "cash_movement" /\ o.key = r.key /\ o.result = i /\ o.payload = CashPayload(r)
  BY DEF Operation
<1>5. i \notin DOMAIN moves /\ DOMAIN moves' = DOMAIN moves \union {i}
  BY <1>2, <1>3
<1> HIDE DEF i, o
<1>6. DrawerTypeOK'
  <2>1. ASSUME NEW j \in DOMAIN moves'
        PROVE  /\ moves'[j].shift \in DOMAIN shifts'
               /\ moves'[j].type \in MoveTypes
               /\ moves'[j].amount \in Nat \ {0}
    <3>1. CASE j = i
      BY <1>2, <1>3, <3>1 DEF MoveTypes
    <3>2. CASE j \in DOMAIN moves
      BY <1>1, <1>2, <3>2 DEF DrawerTypeOK
    <3> QED BY <1>5, <3>1, <3>2
  <2>2. \A q \in ops' : q.type \in OpTypes
    BY <1>1, <1>3, <1>4 DEF DrawerTypeOK, OpTypes
  <2> QED BY <1>1, <1>2, <2>1, <2>2 DEF DrawerTypeOK
<1>7. OneOpenShift'
  BY <1>1, <1>2 DEF OneOpenShift, IsOpen
<1>8. OperationsOnce'
  <2>1. \A q \in ops : q.type = "cash_movement" =>
          q.result \in DOMAIN moves /\ q.key # r.key /\ moves[q.result] = q.payload
    BY <1>1 DEF OperationsOnce, RecordCashMovement, Unclaimed
  <2>2. \A p, q \in ops' : p.type = q.type /\ (p.key = q.key \/ p.result = q.result) => p = q
    BY <1>1, <1>3, <1>4, <1>5, <2>1 DEF OperationsOnce
  <2>3. \A type \in {"open_shift", "close_shift"} :
          {x \in ops' : x.type = type} = {x \in ops : x.type = type}
    BY <1>3, <1>4
  <2>4. /\ {q.result : q \in {x \in ops' : x.type = "open_shift"}} = DOMAIN shifts'
        /\ {q.result : q \in {x \in ops' : x.type = "close_shift"}} =
             {k \in DOMAIN shifts' : shifts'[k].status = "closed"}
        /\ \A q \in {x \in ops' : x.type = "close_shift"} :
             shifts'[q.result].counted = q.payload.counted
    BY <1>1, <1>2, <2>3 DEF OperationsOnce
  <2>5. /\ {moves'[j].shift : j \in Floats'} = DOMAIN shifts'
        /\ Cardinality(Floats') = Len(shifts')
    <3>1. moves'[i].type # "opening_float"
      BY <1>2, <1>3 DEF ManualTypes
    <3>2. Floats' = Floats
      BY <1>2, <1>5, <3>1 DEF Floats
    <3>3. \A j \in Floats : moves'[j].shift = moves[j].shift
      BY <1>2 DEF Floats
    <3>4. {moves'[j].shift : j \in Floats} = {moves[j].shift : j \in Floats}
      BY <3>3
    <3> QED BY <1>1, <1>2, <3>2, <3>4 DEF OperationsOnce, Floats
  <2>6. {q.result : q \in {x \in ops' : x.type = "cash_movement"}} =
          {j \in DOMAIN moves' : moves'[j].type \in ManualTypes}
    <3>1. {q.result : q \in {x \in ops : x.type = "cash_movement"}} =
            {j \in DOMAIN moves : moves[j].type \in ManualTypes}
      BY <1>1 DEF OperationsOnce
    <3>2. {q.result : q \in {x \in ops' : x.type = "cash_movement"}} =
            {q.result : q \in {x \in ops : x.type = "cash_movement"}} \union {i}
      BY <1>3, <1>4
    <3>3. {j \in DOMAIN moves' : moves'[j].type \in ManualTypes} =
            {j \in DOMAIN moves : moves[j].type \in ManualTypes} \union {i}
      BY <1>2, <1>3, <1>5
    <3> QED BY <3>1, <3>2, <3>3
  <2>7. \A q \in {x \in ops' : x.type = "cash_movement"} : moves'[q.result] = q.payload
    BY <1>2, <1>3, <1>4, <2>1
  <2> QED BY <2>2, <2>4, <2>5, <2>6, <2>7 DEF OperationsOnce, Floats
<1> QED BY <1>2, <1>6, <1>7, <1>8 DEF DrawerInv

LEMMA DrawerNextKeeps == DrawerInv /\ [DrawerNext]_drawerVars => DrawerInv'
<1> SUFFICES ASSUME DrawerInv, [DrawerNext]_drawerVars PROVE DrawerInv'
  OBVIOUS
<1>1. ASSUME NEW r \in OpenRequests, OpenShift(r) PROVE DrawerInv'
  BY <1>1, OpenKeeps
<1>2. ASSUME NEW r \in CloseRequests, CloseShift(r) PROVE DrawerInv'
  BY <1>2, CloseKeeps
<1>3. ASSUME NEW r \in CashRequests, RecordCashMovement(r) PROVE DrawerInv'
  BY <1>3, RecordKeeps
<1>4. CASE UNCHANGED drawerVars
  BY <1>4 DEF drawerVars, DrawerInv, DrawerTables, DrawerTypeOK, OneOpenShift, OperationsOnce, IsOpen
<1> QED BY <1>1, <1>2, <1>3, <1>4 DEF DrawerNext

(* Shifts, movements and operations of the drawer alone keep one another's sense:  *)
(* types and references, one open shift per register, one effect per key.          *)
THEOREM DrawerInductive == DrawerSpec => []DrawerInv
<1>1. DrawerInit => DrawerInv
  BY DrawerInitHolds
<1>2. DrawerInv /\ [DrawerNext]_drawerVars => DrawerInv'
  BY DrawerNextKeeps
<1> QED BY <1>1, <1>2, PTL DEF DrawerSpec

--------------------------------------------------------------------------------
(* The theorems. *)

(* The rows of the three tables keep their types and refer to rows that exist.   *)
THEOREM DrawerTypeCorrect == DrawerSpec => []DrawerTypeOK
<1>1. DrawerInv => DrawerTypeOK
  BY DEF DrawerInv
<1> QED BY <1>1, DrawerInductive, PTL

(* openShift: however many calls, registers and cashiers there are, a register   *)
(* has one open shift.                                                           *)
THEOREM OneDrawer == DrawerSpec => []OneOpenShift
<1>1. DrawerInv => OneOpenShift
  BY DEF DrawerInv
<1> QED BY <1>1, DrawerInductive, PTL

(* operation(): under a key there is one effect, the one its row records.        *)
THEOREM EffectsOnce == DrawerSpec => []OperationsOnce
<1>1. DrawerInv => OperationsOnce
  BY DEF DrawerInv
<1> QED BY <1>1, DrawerInductive, PTL

(* A closed shift keeps its count and its movements through an operation. *)
LEMMA DrawerFinal ==
    ASSUME DrawerInv, DrawerNext \/ UNCHANGED drawerVars,
           NEW n \in DOMAIN shifts, shifts[n].status = "closed"
    PROVE  /\ n \in DOMAIN shifts' /\ shifts'[n] = shifts[n]
           /\ MovesOf(n)' = MovesOf(n)
           /\ \A i \in MovesOf(n) : moves'[i] = moves[i]
<1>1. DrawerTables /\ Len(shifts) \in Nat /\ Len(moves) \in Nat
  BY DEF DrawerInv, DrawerTables
<1>2. ASSUME NEW r \in OpenRequests, OpenShift(r)
      PROVE  /\ n \in DOMAIN shifts' /\ shifts'[n] = shifts[n]
             /\ MovesOf(n)' = MovesOf(n)
             /\ \A i \in MovesOf(n) : moves'[i] = moves[i]
  <2>1. /\ DOMAIN shifts = 1 .. Len(shifts) /\ DOMAIN shifts' = 1 .. Len(shifts) + 1
        /\ DOMAIN moves = 1 .. Len(moves) /\ DOMAIN moves' = 1 .. Len(moves) + 1
        /\ \A k \in DOMAIN shifts : shifts'[k] = shifts[k]
        /\ \A i \in DOMAIN moves : moves'[i] = moves[i]
        /\ moves'[Len(moves) + 1] =
             [shift |-> Len(shifts) + 1, type |-> "opening_float", amount |-> r.float]
    BY <1>1, <1>2, Opened
  <2>2. moves'[Len(moves) + 1].shift # n
    BY <1>1, <2>1
  <2> QED BY <1>1, <2>1, <2>2 DEF MovesOf
<1>3. ASSUME NEW r \in CloseRequests, CloseShift(r)
      PROVE  /\ n \in DOMAIN shifts' /\ shifts'[n] = shifts[n]
             /\ MovesOf(n)' = MovesOf(n)
             /\ \A i \in MovesOf(n) : moves'[i] = moves[i]
  <2>1. /\ moves' = moves /\ DOMAIN shifts' = DOMAIN shifts
        /\ shifts[r.shift].status = "open"
        /\ \A k \in DOMAIN shifts \ {r.shift} : shifts'[k] = shifts[k]
    BY <1>1, <1>3, Closed
  <2> QED BY <2>1 DEF MovesOf
<1>4. ASSUME NEW r \in CashRequests, RecordCashMovement(r)
      PROVE  /\ n \in DOMAIN shifts' /\ shifts'[n] = shifts[n]
             /\ MovesOf(n)' = MovesOf(n)
             /\ \A i \in MovesOf(n) : moves'[i] = moves[i]
  <2>1. /\ shifts' = shifts /\ shifts[r.shift].status = "open"
        /\ DOMAIN moves = 1 .. Len(moves) /\ DOMAIN moves' = 1 .. Len(moves) + 1
        /\ \A i \in DOMAIN moves : moves'[i] = moves[i]
        /\ moves'[Len(moves) + 1].shift = r.shift
    BY <1>1, <1>4, Recorded
  <2> QED BY <1>1, <2>1 DEF MovesOf
<1>5. CASE UNCHANGED drawerVars
  BY <1>5 DEF drawerVars, MovesOf
<1> QED BY <1>2, <1>3, <1>4, <1>5 DEF DrawerNext

(* A closed shift keeps its count and its movements, whatever is called later.   *)
THEOREM CountIsFinal == DrawerSpec => ClosedIsFinal
<1> DEFINE Final == \A n \in DOMAIN shifts : shifts[n].status = "closed" =>
                      /\ n \in DOMAIN shifts' /\ shifts'[n] = shifts[n]
                      /\ MovesOf(n)' = MovesOf(n)
                      /\ \A i \in MovesOf(n) : moves'[i] = moves[i]
<1>1. DrawerInv /\ [DrawerNext]_drawerVars => [Final]_<<shifts, moves>>
  BY DrawerFinal
<1> QED BY <1>1, DrawerInductive, PTL DEF DrawerSpec, ClosedIsFinal
--------------------------------------------------------------------------------
(* The tables of the store: their rows, and what an INSERT does to a table. *)

Carts == {c \in UNION {[D -> Lines] : D \in SUBSET Products} : IsFiniteSet(DOMAIN c)}
Items == {c \in UNION {[D -> Nat \ {0}] : D \in SUBSET Products} : IsFiniteSet(DOMAIN c)}
Deltas == UNION {[D -> Int] : D \in SUBSET Products}

Keys(requests) == {r.key : r \in requests}
Requesters == {r.requester : r \in RefundRequests}

OrderRow == [key : Keys(CheckoutRequests), shift : Nat \ {0}, lines : Carts, cash : Nat,
             card : Nat, status : Statuses]
RefundRow == [key : Keys(RefundRequests), order : Nat \ {0}, amount : Nat \ {0}, items : Items,
              requester : Requesters, supervisor : {t.supervisor : t \in Tokens}]
VoidRow == [key : Keys(VoidRequests), order : Nat \ {0}]
AdjustmentRow == [key : Keys(AdjustRequests), products : SUBSET Products, delta : Int \ {0}]
ImportRow == [key : Keys(ImportRequests), deltas : Deltas]
LedgerRow == [delta : Int, result : Nat]

TokenStates == {"absent", "granted", "spent", "expired"}
Requests == CheckoutRequests \union RefundRequests \union AdjustRequests
TxnStates == [at : {"idle"}] \union [at : {"working"}, request : Requests]
               \union [at : {"answered"}, request : Requests, answer : Int]

StoreTables ==
  /\ orders \in Seq(OrderRow)
  /\ refunds \in Seq(RefundRow)
  /\ voids \in Seq(VoidRow)
  /\ adjustments \in Seq(AdjustmentRow)
  /\ imports \in Seq(ImportRow)
  /\ stock \in [Products -> Nat]
  /\ ledger \in [Products -> Seq(LedgerRow)]
  /\ tokens \in [Tokens -> TokenStates]
  /\ txn \in [Sessions -> TxnStates]

(* Rows refer to rows that exist, and an order is paid. *)
References ==
  /\ \A n \in DOMAIN orders : /\ orders[n].shift \in DOMAIN shifts
                              /\ orders[n].cash + orders[n].card = TotalOf(orders[n])
  /\ \A i \in DOMAIN refunds : refunds[i].order \in DOMAIN orders
  /\ \A i \in DOMAIN voids : voids[i].order \in DOMAIN orders

(* The invariant that every later one is proved under. *)
Types == DrawerInv /\ StoreTables /\ References

(* new is old with one more row. *)
Added(old, new, row) ==
  /\ DOMAIN new = DOMAIN old \union {Len(old) + 1}
  /\ Len(old) + 1 \notin DOMAIN old
  /\ Len(old) \in Nat /\ Len(new) = Len(old) + 1
  /\ DOMAIN old = 1 .. Len(old)
  /\ IsFiniteSet(DOMAIN old)
  /\ \A i \in DOMAIN old : new[i] = old[i]
  /\ new[Len(old) + 1] = row

LEMMA RowAdded ==
    ASSUME NEW T, NEW old \in Seq(T), NEW row \in T, NEW new, new = Append(old, row)
    PROVE  new \in Seq(T) /\ Added(old, new, row)
<1>1. new \in Seq(T) /\ Len(old) \in Nat /\ DOMAIN old = 1 .. Len(old)
  OBVIOUS
<1>2. IsFiniteSet(DOMAIN old)
  BY <1>1, FS_Interval
<1>3. Len(new) = Len(old) + 1 /\ DOMAIN new = 1 .. Len(old) + 1
  OBVIOUS
<1>4. DOMAIN new = DOMAIN old \union {Len(old) + 1} /\ Len(old) + 1 \notin DOMAIN old
  BY <1>1, <1>3
<1>5. (\A i \in DOMAIN old : new[i] = old[i]) /\ new[Len(old) + 1] = row
  OBVIOUS
<1> QED BY <1>1, <1>2, <1>3, <1>4, <1>5 DEF Added

(* The cash of a sale or a refund joins the drawer of its shift. *)
LEMMA PostKeeps ==
    ASSUME DrawerInv, NEW n, IsOpen(n), NEW type \in {"cash_sale", "cash_refund"}, NEW amount \in Nat,
           PostCash(n, type, amount), UNCHANGED <<shifts, ops>>
    PROVE  /\ DrawerInv'
           /\ \/ amount = 0 /\ moves' = moves
              \/ amount # 0 /\ Added(moves, moves', [shift |-> n, type |-> type, amount |-> amount])
<1>0. DrawerTables /\ DrawerTypeOK /\ OneOpenShift /\ OperationsOnce
  BY DEF DrawerInv
<1>1. CASE amount = 0
  <2>1. moves' = moves
    BY <1>1 DEF PostCash
  <2> QED BY <1>0, <1>1, <2>1
          DEF DrawerInv, DrawerTables, DrawerTypeOK, OneOpenShift, OperationsOnce, IsOpen
<1>2. CASE amount # 0
  <2> DEFINE row == [shift |-> n, type |-> type, amount |-> amount]
             i == Len(moves) + 1
  <2>1. n \in DOMAIN shifts /\ n \in Nat \ {0} /\ DOMAIN moves = 1 .. Len(moves)
    BY <1>0 DEF IsOpen, DrawerTables
  <2>2. row \in MoveRow /\ row.type \notin ManualTypes /\ row.type # "opening_float"
    BY <1>2, <2>1 DEF MoveRow, MoveTypes, ManualTypes
  <2>3. row.shift = n /\ row.type \in MoveTypes /\ row.amount \in Nat \ {0}
    BY <1>2 DEF MoveTypes
  <2>4. moves' = Append(moves, row)
    BY <1>2 DEF PostCash
  <2> HIDE DEF row
  <2>5. moves' \in Seq(MoveRow) /\ Added(moves, moves', row)
    BY <1>0, <2>2, <2>4, RowAdded DEF DrawerTables
  <2>6. DOMAIN moves' = DOMAIN moves \union {i} /\ i \notin DOMAIN moves
        /\ (\A j \in DOMAIN moves : moves'[j] = moves[j]) /\ moves'[i] = row
    BY <2>5 DEF Added
  <2> HIDE DEF i
  <2>7. DrawerTables' /\ DrawerTypeOK' /\ OneOpenShift'
    BY <1>0, <2>1, <2>3, <2>5, <2>6 DEF DrawerTables, DrawerTypeOK, OneOpenShift, IsOpen
  <2>8. OperationsOnce'
    <3>1. {j \in DOMAIN moves' : moves'[j].type \in ManualTypes} =
            {j \in DOMAIN moves : moves[j].type \in ManualTypes}
      BY <2>2, <2>6
    <3>2. Floats' = Floats
      BY <2>2, <2>6 DEF Floats
    <3>3. {moves'[j].shift : j \in Floats'} = {moves[j].shift : j \in Floats}
      BY <2>6, <3>2 DEF Floats
    <3>4. \A o \in ops : o.type = "cash_movement" => o.result \in DOMAIN moves
      BY <1>0 DEF OperationsOnce
    <3>5. \A o \in ops : o.type = "cash_movement" => moves'[o.result] = o.payload
      BY <1>0, <2>6, <3>4 DEF OperationsOnce
    <3> QED BY <1>0, <3>1, <3>2, <3>3, <3>5 DEF OperationsOnce, Floats
  <2> QED BY <1>2, <2>5, <2>7, <2>8 DEF DrawerInv, row
<1> QED BY <1>1, <1>2

(* The movement of the stock by a function of some products to units. *)
LEMMA StockMoved ==
    ASSUME StoreTables, NEW delta \in Deltas, MoveStock(delta),
           \A p \in DOMAIN delta : stock[p] + delta[p] >= 0
    PROVE  /\ stock' \in [Products -> Nat]
           /\ ledger' \in [Products -> Seq(LedgerRow)]
<1>1. DOMAIN delta \subseteq Products /\ \A p \in DOMAIN delta : delta[p] \in Int
  BY DEF Deltas
<1>2. stock \in [Products -> Nat] /\ ledger \in [Products -> Seq(LedgerRow)]
  BY DEF StoreTables
<1>3. ASSUME NEW p \in Products
      PROVE  stock[p] + QuantityIn(delta, p) \in Nat
  BY <1>1, <1>2 DEF QuantityIn
<1>4. stock' \in [Products -> Nat]
  BY <1>3 DEF MoveStock
<1>5. ASSUME NEW p \in Products, p \in DOMAIN delta
      PROVE  Append(ledger[p], [delta |-> delta[p], result |-> stock[p] + delta[p]]) \in Seq(LedgerRow)
  <2>1. [delta |-> delta[p], result |-> stock[p] + delta[p]] \in LedgerRow
    BY <1>1, <1>2, <1>5 DEF LedgerRow
  <2> QED BY <1>2, <2>1
<1>6. ledger' \in [Products -> Seq(LedgerRow)]
  BY <1>2, <1>5 DEF MoveStock
<1> QED BY <1>4, <1>6

--------------------------------------------------------------------------------
(* The steps: what a transition does to the tables, one operator for each kind.  *)

LEMMA TotalSame == ASSUME NEW o, NEW q, o.lines = q.lines PROVE TotalOf(o) = TotalOf(q)
BY DEF TotalOf

LEMMA TotalIsNat == ASSUME NEW o, o.lines \in Carts PROVE TotalOf(o) \in Nat
<1> DEFINE f == [p \in DOMAIN o.lines |-> o.lines[p].total]
<1>1. IsFiniteSet(DOMAIN o.lines) /\ \A p \in DOMAIN o.lines : o.lines[p] \in Lines
  BY DEF Carts
<1>2. DOMAIN f = DOMAIN o.lines /\ \A p \in DOMAIN f : f[p] \in Nat
  BY <1>1 DEF Lines
<1>3. TotalOf(o) = SumFunctionOnSet(f, DOMAIN f)
  BY DEF TotalOf, SumFunction
<1> HIDE DEF f
<1> QED BY <1>1, <1>2, <1>3, SumNat

Sells(s, r, n) ==
  /\ s \in Sessions /\ r \in CheckoutRequests /\ n \in ShiftFor(r)
  /\ r.cash + r.card = TotalOf(r)
  /\ CheckoutCommits(s, r, n)

Refunds(s, r, t) ==
  /\ s \in Sessions /\ r \in RefundRequests /\ t \in Consumable(r, "refund")
  /\ Refundable(r) /\ ~KeyTaken(refunds, r.key)
  /\ RefundCommits(s, r, t)

Adjusts(s, r) ==
  /\ s \in Sessions /\ r \in AdjustRequests
  /\ NotNegative(r) /\ ~KeyTaken(adjustments, r.key)
  /\ adjustments' = Append(adjustments, [key |-> r.key, products |-> r.products, delta |-> r.delta])
  /\ MoveStock([p \in r.products |-> r.delta])
  /\ Answer(s, Len(adjustments) + 1)
  /\ UNCHANGED <<drawerVars, orders, refunds, voids, imports, tokens>>

(* What a session answers is true of the tables. *)
Truthful(a) ==
  a.at = "answered" /\ a.answer > 0 =>
    /\ a.request.kind = "checkout" => a.answer \in KeyRows(orders, a.request.key)
    /\ a.request.kind = "refund" => /\ a.answer \in KeyRows(refunds, a.request.key)
                                   /\ refunds[a.answer].amount = a.request.amount
                                   /\ refunds[a.answer].order = a.request.order
    /\ a.request.kind = "adjust" => /\ a.answer \in KeyRows(adjustments, a.request.key)
                                   /\ adjustments[a.answer].products = a.request.products
                                   /\ adjustments[a.answer].delta = a.request.delta

SpentTokens == {t \in Tokens : tokens[t] = "spent"}

(* Look-ups, answers without an effect, authorizations. *)
Quiet ==
  /\ UNCHANGED <<drawerVars, tables>>
  /\ tokens' \in [Tokens -> TokenStates] /\ txn' \in [Sessions -> TxnStates]
  /\ SpentTokens \subseteq SpentTokens'
  /\ IsFiniteSet(SpentTokens) => IsFiniteSet(SpentTokens')
  /\ \A s \in Sessions : txn'[s] = txn[s] \/ Truthful(txn'[s])

(* The answer of a session that worked on a request of a kind. *)
LEMMA Worked ==
    ASSUME StoreTables, NEW s \in Sessions, txn[s].at = "working"
    PROVE  txn[s].request \in Requests
<1>1. txn[s] \in TxnStates
  BY DEF StoreTables
<1> QED BY <1>1 DEF TxnStates

LEMMA Kinds ==
    ASSUME NEW r \in Requests
    PROVE  /\ r.kind = "checkout" => r \in CheckoutRequests
           /\ r.kind = "refund" => r \in RefundRequests
           /\ r.kind = "adjust" => r \in AdjustRequests
BY StoreAssumption DEF Requests

(* A session's answer. *)
LEMMA Answers ==
    ASSUME StoreTables, NEW s \in Sessions, NEW r \in Requests, NEW a \in Int,
           txn' = [txn EXCEPT ![s] = Answered(r, a)]
    PROVE  /\ txn' \in [Sessions -> TxnStates]
           /\ \A x \in Sessions \ {s} : txn'[x] = txn[x]
           /\ txn'[s].at = "answered" /\ txn'[s].request = r /\ txn'[s].answer = a
<1>1. Answered(r, a) \in TxnStates
  BY DEF Answered, TxnStates
<1>2. txn \in [Sessions -> TxnStates]
  BY DEF StoreTables
<1> QED BY <1>1, <1>2 DEF Answered

(* The outcomes of a session's step that change no table: it goes to work, fails,   *)
(* or answers with a row that has the key and is the one that was asked for.        *)
Outcome(s, r) ==
  \/ txn' = [txn EXCEPT ![s] = Working(r)]
  \/ \E a \in Int : /\ txn' = [txn EXCEPT ![s] = Answered(r, a)]
                    /\ a > 0 => /\ r.kind = "checkout" => a \in KeyRows(orders, r.key)
                                /\ r.kind = "refund" => /\ a \in KeyRows(refunds, r.key)
                                                        /\ SameRefund(refunds[a], r)
                                /\ r.kind = "adjust" => /\ a \in KeyRows(adjustments, r.key)
                                                        /\ SameAdjustment(adjustments[a], r)

LEMMA Outcomes ==
    ASSUME StoreTables, UNCHANGED <<drawerVars, tables>>, NEW s \in Sessions, NEW r \in Requests,
           Outcome(s, r)
    PROVE  /\ txn' \in [Sessions -> TxnStates]
           /\ \A x \in Sessions : txn'[x] = txn[x] \/ Truthful(txn'[x])
<1>1. CASE txn' = [txn EXCEPT ![s] = Working(r)]
  <2>1. Working(r) \in TxnStates /\ Working(r).at = "working"
    BY DEF Working, TxnStates
  <2> QED BY <1>1, <2>1 DEF StoreTables, Truthful
<1>2. ASSUME NEW a \in Int, txn' = [txn EXCEPT ![s] = Answered(r, a)],
             a > 0 => /\ r.kind = "checkout" => a \in KeyRows(orders, r.key)
                      /\ r.kind = "refund" => /\ a \in KeyRows(refunds, r.key)
                                              /\ SameRefund(refunds[a], r)
                      /\ r.kind = "adjust" => /\ a \in KeyRows(adjustments, r.key)
                                              /\ SameAdjustment(adjustments[a], r)
      PROVE  /\ txn' \in [Sessions -> TxnStates]
             /\ \A x \in Sessions : txn'[x] = txn[x] \/ Truthful(txn'[x])
  <2>1. /\ txn' \in [Sessions -> TxnStates]
        /\ \A x \in Sessions \ {s} : txn'[x] = txn[x]
        /\ txn'[s].at = "answered" /\ txn'[s].request = r /\ txn'[s].answer = a
    BY <1>2, Answers
  <2>2. Truthful(txn'[s])
    BY <1>2, <2>1 DEF Truthful, SameRefund, SameAdjustment
  <2> QED BY <2>1, <2>2
<1> QED BY <1>1, <1>2 DEF Outcome

LEMMA Steps ==
    ASSUME StoreTables, DrawerTables, [Next]_vars
    PROVE  \/ \E s \in Sessions, r \in CheckoutRequests, n \in Nat \ {0} :
                Sells(s, r, n) /\ txn[s].request = r
           \/ \E s \in Sessions, r \in RefundRequests, t \in Tokens :
                Refunds(s, r, t) /\ txn[s].request = r
           \/ \E s \in Sessions, r \in AdjustRequests : Adjusts(s, r) /\ txn[s].request = r
           \/ \E r \in VoidRequests : VoidOrder(r)
           \/ \E r \in ImportRequests : ImportCatalog(r)
           \/ Drawer
           \/ Quiet
<1>0. tokens \in [Tokens -> TokenStates] /\ txn \in [Sessions -> TxnStates]
  BY DEF StoreTables
<1>1. ASSUME UNCHANGED <<drawerVars, tables>>,
             tokens' = tokens \/ \E t \in Tokens, state \in TokenStates :
                                  tokens[t] # "spent" /\ tokens' = [tokens EXCEPT ![t] = state],
             txn' = txn \/ \E s \in Sessions, r \in Requests : Outcome(s, r)
      PROVE  Quiet
  <2>1. /\ tokens' \in [Tokens -> TokenStates]
        /\ SpentTokens \subseteq SpentTokens'
        /\ IsFiniteSet(SpentTokens) => IsFiniteSet(SpentTokens')
    <3>1. CASE tokens' = tokens
      BY <1>0, <3>1 DEF SpentTokens
    <3>2. ASSUME NEW t \in Tokens, NEW state \in TokenStates, tokens[t] # "spent",
                 tokens' = [tokens EXCEPT ![t] = state]
          PROVE  /\ tokens' \in [Tokens -> TokenStates]
                 /\ SpentTokens \subseteq SpentTokens'
                 /\ SpentTokens' \subseteq SpentTokens \union {t}
      BY <1>0, <3>2 DEF SpentTokens
    <3>3. \A t : IsFiniteSet(SpentTokens) => IsFiniteSet(SpentTokens \union {t})
      BY FS_AddElement
    <3> QED BY <1>1, <3>1, <3>2, <3>3, FS_Subset
  <2>2. /\ txn' \in [Sessions -> TxnStates]
        /\ \A s \in Sessions : txn'[s] = txn[s] \/ Truthful(txn'[s])
    BY <1>0, <1>1, Outcomes
  <2> QED BY <1>1, <2>1, <2>2 DEF Quiet
<1>2. \A key : KeyRows(orders, key) \subseteq Int /\ KeyRows(refunds, key) \subseteq Int
                /\ KeyRows(adjustments, key) \subseteq Int
  BY DEF KeyRows, StoreTables
<1>3. Refused \in Int /\ ~(Refused > 0) /\ Rejected \in Int /\ ~(Rejected > 0)
  BY DEF Refused, Rejected
<1>4. ASSUME NEW s \in Sessions, txn[s].at = "working",
             Answer(s, Refused) \/ Answer(s, Rejected)
      PROVE  Outcome(s, txn[s].request) /\ txn[s].request \in Requests
  BY <1>3, <1>4, Worked DEF Answer, Outcome
<1>5. ASSUME NEW s \in Sessions
      PROVE  /\ \A r \in CheckoutRequests : CheckoutLookUp(s, r) => Quiet
             /\ \A r \in RefundRequests : RefundLookUp(s, r) => Quiet
             /\ \A r \in AdjustRequests : AdjustLookUp(s, r) => Quiet
  <2>1. ASSUME NEW r \in CheckoutRequests, CheckoutLookUp(s, r) PROVE Quiet
    <3>1. r.kind = "checkout" /\ r \in Requests
      BY StoreAssumption DEF Requests
    <3>2. Outcome(s, r)
      BY <1>2, <1>3, <2>1, <3>1 DEF CheckoutLookUp, LookUp, Outcome
    <3> QED BY <1>1, <2>1, <3>1, <3>2 DEF CheckoutLookUp, LookUp
  <2>2. ASSUME NEW r \in RefundRequests, RefundLookUp(s, r) PROVE Quiet
    <3>1. r.kind = "refund" /\ r \in Requests
      BY StoreAssumption DEF Requests
    <3>2. Outcome(s, r)
      BY <1>2, <1>3, <2>2, <3>1 DEF RefundLookUp, LookUp, Outcome
    <3> QED BY <1>1, <2>2, <3>1, <3>2 DEF RefundLookUp, LookUp
  <2>3. ASSUME NEW r \in AdjustRequests, AdjustLookUp(s, r) PROVE Quiet
    <3>1. r.kind = "adjust" /\ r \in Requests
      BY StoreAssumption DEF Requests
    <3>2. Outcome(s, r)
      BY <1>2, <1>3, <2>3, <3>1 DEF AdjustLookUp, LookUp, Outcome
    <3> QED BY <1>1, <2>3, <3>1, <3>2 DEF AdjustLookUp, LookUp
  <2> QED BY <2>1, <2>2, <2>3
<1>6. ASSUME NEW s \in Sessions, CheckoutFinish(s)
      PROVE  \/ Quiet
             \/ \E r \in CheckoutRequests, n \in Nat \ {0} : Sells(s, r, n) /\ txn[s].request = r
  <2> DEFINE r == txn[s].request
  <2>1. r \in CheckoutRequests /\ txn[s].at = "working" /\ r.kind = "checkout" /\ r \in Requests
    BY <1>6, Worked, Kinds DEF CheckoutFinish, Runs
  <2>2. ASSUME NEW n \in ShiftFor(r), r.cash + r.card = TotalOf(r), CheckoutCommits(s, r, n)
        PROVE  n \in Nat \ {0} /\ Sells(s, r, n)
    <3>1. n \in DOMAIN shifts
      BY <2>2 DEF ShiftFor, OpenShiftsOf
    <3>2. n \in Nat \ {0}
      BY <3>1 DEF DrawerTables
    <3> QED BY <2>1, <2>2, <3>2 DEF Sells
  <2>3. ASSUME NEW i \in KeyRows(orders, r.key), Answer(s, i) PROVE Outcome(s, r)
    BY <1>2, <2>1, <2>3 DEF Answer, Outcome
  <2>4. ASSUME UNCHANGED <<drawerVars, tables, tokens>>, Outcome(s, r) PROVE Quiet
    BY <1>1, <2>1, <2>4
  <2> QED BY <1>4, <1>6, <2>1, <2>2, <2>3, <2>4 DEF CheckoutFinish
<1>7. ASSUME NEW s \in Sessions, RefundFinish(s)
      PROVE  \/ Quiet
             \/ \E r \in RefundRequests, t \in Tokens : Refunds(s, r, t) /\ txn[s].request = r
  <2> DEFINE r == txn[s].request
  <2>1. r \in RefundRequests /\ txn[s].at = "working" /\ r.kind = "refund" /\ r \in Requests
    BY <1>7, Worked, Kinds DEF RefundFinish, Runs
  <2>2. \A t \in Consumable(r, "refund") : t \in Tokens /\ tokens[t] = "granted"
    BY DEF Consumable
  <2>3. ASSUME NEW t \in Consumable(r, "refund"), Refundable(r), ~KeyTaken(refunds, r.key),
               RefundCommits(s, r, t)
        PROVE  Refunds(s, r, t)
    BY <2>1, <2>3 DEF Refunds
  <2>4. ASSUME NEW t \in Consumable(r, "refund"), Consume(t), UNCHANGED <<drawerVars, tables>>,
               NEW i \in KeyRows(refunds, r.key), SameRefund(refunds[i], r), Answer(s, i)
        PROVE  Quiet
    <3>1. Outcome(s, r)
      BY <1>2, <2>1, <2>4 DEF Answer, Outcome
    <3>2. tokens[t] # "spent" /\ tokens' = [tokens EXCEPT ![t] = "spent"] /\ "spent" \in TokenStates
      BY <2>2, <2>4 DEF Consume, TokenStates
    <3> QED BY <1>1, <2>1, <2>2, <2>4, <3>1, <3>2
  <2>5. ASSUME UNCHANGED <<drawerVars, tables, tokens>>, Outcome(s, r) PROVE Quiet
    BY <1>1, <2>1, <2>5
  <2> QED BY <1>4, <1>7, <2>1, <2>2, <2>3, <2>4, <2>5 DEF RefundFinish
<1>8. ASSUME NEW s \in Sessions, AdjustFinish(s)
      PROVE  Quiet \/ \E r \in AdjustRequests : Adjusts(s, r) /\ txn[s].request = r
  <2> DEFINE r == txn[s].request
  <2>1. r \in AdjustRequests /\ txn[s].at = "working" /\ r \in Requests
    BY <1>8, Worked, Kinds DEF AdjustFinish, Runs
  <2>2. ASSUME UNCHANGED <<drawerVars, tables, tokens>>, Outcome(s, r) PROVE Quiet
    BY <1>1, <2>1, <2>2
  <2> QED BY <1>4, <1>8, <2>1, <2>2 DEF AdjustFinish, Adjusts
<1>9. ASSUME NEW s \in Sessions, RollBack(s) PROVE Quiet
  BY <1>1, <1>4, <1>9 DEF RollBack
<1>10. ASSUME NEW t \in Tokens, Authorize(t) \/ Expire(t) PROVE Quiet
  <2>1. tokens[t] # "spent" /\ \E state \in TokenStates : tokens' = [tokens EXCEPT ![t] = state]
    BY <1>10 DEF Authorize, Expire, TokenStates
  <2> QED BY <1>1, <1>10, <2>1 DEF Authorize, Expire
<1>11. ASSUME UNCHANGED vars PROVE Quiet
  BY <1>1, <1>11 DEF vars, storeVars, tables
<1> QED BY <1>5, <1>6, <1>7, <1>8, <1>9, <1>10, <1>11 DEF Next
--------------------------------------------------------------------------------
(* Each step preserves the types, and says what it adds.                         *)

(* The orders after one is added, and after the status of one is changed. *)
OrdersStay(k) ==
  /\ DOMAIN orders' = DOMAIN orders /\ Len(orders') = Len(orders)
  /\ \A n \in DOMAIN orders : /\ orders'[n].key = orders[n].key /\ orders'[n].shift = orders[n].shift
                              /\ orders'[n].lines = orders[n].lines
                              /\ orders'[n].cash = orders[n].cash /\ orders'[n].card = orders[n].card
                              /\ TotalOf(orders'[n]) = TotalOf(orders[n])
  /\ \A n \in DOMAIN orders \ {k} : orders'[n] = orders[n]

LEMMA StatusSet ==
    ASSUME StoreTables, NEW k \in DOMAIN orders, NEW status \in Statuses,
           orders' = [orders EXCEPT ![k].status = status]
    PROVE  /\ orders' \in Seq(OrderRow)
           /\ OrdersStay(k)
           /\ orders'[k].status = status
<1> DEFINE row == [orders[k] EXCEPT !.status = status]
<1>1. orders \in Seq(OrderRow) /\ orders[k] \in OrderRow
  BY DEF StoreTables
<1>2. /\ row \in OrderRow /\ row.status = status
      /\ row.key = orders[k].key /\ row.shift = orders[k].shift /\ row.lines = orders[k].lines
      /\ row.cash = orders[k].cash /\ row.card = orders[k].card
  BY <1>1 DEF OrderRow
<1>3. orders' = [orders EXCEPT ![k] = row]
  OBVIOUS
<1> HIDE DEF row
<1>4. orders' \in Seq(OrderRow) /\ DOMAIN orders' = DOMAIN orders /\ Len(orders') = Len(orders)
  BY <1>1, <1>2, <1>3
<1>5. orders'[k] = row /\ \A n \in DOMAIN orders \ {k} : orders'[n] = orders[n]
  BY <1>3
<1>6. \A n \in DOMAIN orders : /\ orders'[n].key = orders[n].key /\ orders'[n].shift = orders[n].shift
                               /\ orders'[n].lines = orders[n].lines
                               /\ orders'[n].cash = orders[n].cash /\ orders'[n].card = orders[n].card
  BY <1>2, <1>5
<1>7. \A n \in DOMAIN orders : TotalOf(orders'[n]) = TotalOf(orders[n])
  BY <1>6, TotalSame
<1> QED BY <1>2, <1>4, <1>5, <1>6, <1>7 DEF OrdersStay

LEMMA SellsKeeps ==
    ASSUME Types, NEW s \in Sessions, NEW r \in CheckoutRequests, NEW n \in Nat \ {0},
           Sells(s, r, n), txn[s].request = r
    PROVE  /\ Types'
           /\ Added(orders, orders', OrderOf(r, n))
           /\ \/ r.cash = 0 /\ moves' = moves
              \/ r.cash # 0 /\ Added(moves, moves', [shift |-> n, type |-> "cash_sale", amount |-> r.cash])
           /\ TotalOf(OrderOf(r, n)) = r.cash + r.card
<1> DEFINE row == OrderOf(r, n)
           delta == [p \in DOMAIN r.lines |-> -r.lines[p].qty]
<1>0. StoreTables /\ References /\ DrawerInv /\ DrawerTables
  BY DEF Types, DrawerInv
<1>1. r.cash \in Nat /\ r.card \in Nat /\ r.lines \in Carts /\ r.key \in Keys(CheckoutRequests)
  BY StoreAssumption DEF Carts, Keys
<1>2. IsOpen(n) /\ n \in DOMAIN shifts
  BY DEF Sells, ShiftFor, OpenShiftsOf
<1>3. /\ row.shift = n /\ row.cash = r.cash /\ row.card = r.card /\ row.lines = r.lines
      /\ row \in OrderRow
  BY <1>1 DEF OrderOf, OrderRow, Statuses
<1>4. TotalOf(row) = r.cash + r.card
  BY <1>3, TotalSame DEF Sells
<1>5. /\ orders' = Append(orders, row) /\ MoveStock(delta) /\ PostCash(n, "cash_sale", r.cash)
      /\ InStock(r.lines) /\ Answer(s, Len(orders) + 1)
      /\ UNCHANGED <<shifts, ops, refunds, voids, adjustments, imports, tokens>>
  BY DEF Sells, CheckoutCommits, CashLeft
<1> HIDE DEF row
<1>6. orders' \in Seq(OrderRow) /\ Added(orders, orders', row)
  BY <1>0, <1>3, <1>5, RowAdded DEF StoreTables
<1>7. delta \in Deltas /\ \A p \in DOMAIN delta : stock[p] + delta[p] >= 0
  <2>1. DOMAIN r.lines \subseteq Products /\ \A p \in DOMAIN r.lines : r.lines[p].qty \in Nat
    BY StoreAssumption DEF Lines
  <2>2. delta \in [DOMAIN r.lines -> Int] /\ DOMAIN delta = DOMAIN r.lines
    BY <2>1
  <2>3. \A p \in DOMAIN r.lines : r.lines[p].qty <= stock[p] /\ stock[p] \in Nat
    BY <1>0, <1>5, <2>1 DEF InStock, StoreTables
  <2> QED BY <2>1, <2>2, <2>3 DEF Deltas
<1>8. stock' \in [Products -> Nat] /\ ledger' \in [Products -> Seq(LedgerRow)]
  <2> HIDE DEF delta
  <2> QED BY <1>0, <1>5, <1>7, StockMoved
<1>9. /\ DrawerInv'
      /\ \/ r.cash = 0 /\ moves' = moves
         \/ r.cash # 0 /\ Added(moves, moves', [shift |-> n, type |-> "cash_sale", amount |-> r.cash])
  BY <1>0, <1>1, <1>2, <1>5, PostKeeps
<1>10. txn' \in [Sessions -> TxnStates]
  <2>1. Len(orders) + 1 \in Int
    BY <1>6 DEF Added
  <2>2. r \in Requests
    BY DEF Requests
  <2> QED BY <1>0, <1>5, <2>1, <2>2, Answers DEF Answer
<1>11. StoreTables'
  BY <1>0, <1>5, <1>6, <1>8, <1>10 DEF StoreTables
<1>12. References'
  BY <1>0, <1>2, <1>3, <1>4, <1>5, <1>6 DEF References, Added
<1> QED BY <1>4, <1>6, <1>9, <1>11, <1>12 DEF Types, row

LEMMA RefundsKeeps ==
    ASSUME Types, NEW s \in Sessions, NEW r \in RefundRequests, NEW t \in Tokens,
           Refunds(s, r, t), txn[s].request = r
    PROVE  /\ Types'
           /\ Added(refunds, refunds', RefundOf(r, t))
           /\ OrdersStay(r.order) /\ r.order \in DOMAIN orders
           /\ orders[r.order].status = "server_confirmed" /\ orders'[r.order].status = StatusAfter(r)
           /\ r.amount \in Nat \ {0} /\ r.items \in Items
           /\ Added(moves, moves', [shift |-> orders[r.order].shift, type |-> "cash_refund",
                                    amount |-> r.amount])
<1> DEFINE k == r.order
           n == orders[k].shift
           row == RefundOf(r, t)
<1>0. StoreTables /\ References /\ DrawerInv /\ DrawerTables
  BY DEF Types, DrawerInv
<1>1. r.amount \in Nat \ {0} /\ r.items \in Items /\ r.key \in Keys(RefundRequests)
      /\ DOMAIN r.items \subseteq Products /\ r.items \in [DOMAIN r.items -> Nat \ {0}]
  BY StoreAssumption DEF Items, Keys
<1>2. k \in DOMAIN orders /\ orders[k].status = "server_confirmed" /\ IsOpen(n)
  BY DEF Refunds, Refundable, IsConfirmed
<1>3. row \in RefundRow /\ row.order = k
  <2>1. k \in Nat \ {0}
    BY <1>0, <1>2 DEF StoreTables
  <2>2. r.requester \in Requesters /\ t.supervisor \in {u.supervisor : u \in Tokens}
    BY DEF Requesters
  <2> QED BY <1>1, <2>1, <2>2 DEF RefundOf, RefundRow
<1>4. /\ refunds' = Append(refunds, row) /\ MoveStock(r.items)
      /\ PostCash(n, "cash_refund", r.amount)
      /\ orders' = [orders EXCEPT ![k].status = StatusAfter(r)]
      /\ tokens' = [tokens EXCEPT ![t] = "spent"] /\ Answer(s, Len(refunds) + 1)
      /\ UNCHANGED <<shifts, ops, voids, adjustments, imports>>
  BY DEF Refunds, RefundCommits, Consume
<1> HIDE DEF row
<1>5. refunds' \in Seq(RefundRow) /\ Added(refunds, refunds', row)
  BY <1>0, <1>3, <1>4, RowAdded DEF StoreTables
<1>6. StatusAfter(r) \in Statuses
  BY DEF StatusAfter, Statuses
<1>7. orders' \in Seq(OrderRow) /\ OrdersStay(k) /\ orders'[k].status = StatusAfter(r)
  <2> HIDE DEF k
  <2> QED BY <1>0, <1>2, <1>4, <1>6, StatusSet
<1>8. stock' \in [Products -> Nat] /\ ledger' \in [Products -> Seq(LedgerRow)]
  <2>1. r.items \in Deltas
    BY <1>1 DEF Deltas
  <2>2. \A p \in DOMAIN r.items : stock[p] + r.items[p] >= 0
    BY <1>0, <1>1 DEF StoreTables
  <2> QED BY <1>0, <1>4, <2>1, <2>2, StockMoved
<1>9. /\ DrawerInv'
      /\ Added(moves, moves', [shift |-> n, type |-> "cash_refund", amount |-> r.amount])
  <2> HIDE DEF n
  <2> QED BY <1>0, <1>1, <1>2, <1>4, PostKeeps
<1>10. txn' \in [Sessions -> TxnStates]
  <2>1. Len(refunds) + 1 \in Int
    BY <1>5 DEF Added
  <2>2. r \in Requests
    BY DEF Requests
  <2> QED BY <1>0, <1>4, <2>1, <2>2, Answers DEF Answer
<1>11. tokens' \in [Tokens -> TokenStates]
  BY <1>0, <1>4 DEF StoreTables, TokenStates
<1>12. StoreTables'
  BY <1>0, <1>4, <1>5, <1>7, <1>8, <1>10, <1>11 DEF StoreTables
<1>13. References'
  <2>1. shifts' = shifts /\ voids' = voids
    BY <1>4
  <2>2. \A i \in DOMAIN refunds' : refunds'[i].order \in DOMAIN orders'
    BY <1>0, <1>2, <1>3, <1>5, <1>7 DEF References, Added, OrdersStay
  <2> QED BY <1>0, <1>7, <2>1, <2>2 DEF References, OrdersStay
<1> QED BY <1>1, <1>2, <1>5, <1>7, <1>9, <1>12, <1>13 DEF Types, row

LEMMA VoidKeeps ==
    ASSUME Types, NEW r \in VoidRequests, VoidOrder(r)
    PROVE  /\ Types'
           /\ Added(voids, voids', [key |-> r.key, order |-> r.order])
           /\ OrdersStay(r.order) /\ r.order \in DOMAIN orders
           /\ orders[r.order].status = "server_confirmed" /\ orders'[r.order].status = "voided"
           /\ Added(moves, moves', [shift |-> orders[r.order].shift, type |-> "cash_refund",
                                    amount |-> TotalOf(orders[r.order])])
<1> DEFINE k == r.order
           n == orders[k].shift
           row == [key |-> r.key, order |-> k]
           total == TotalOf(orders[k])
<1>0. StoreTables /\ References /\ DrawerInv /\ DrawerTables
  BY DEF Types, DrawerInv
<1>1. k \in DOMAIN orders /\ orders[k].status = "server_confirmed" /\ IsOpen(n)
  BY DEF VoidOrder, IsConfirmed
<1>2. orders[k] \in OrderRow /\ k \in Nat \ {0}
  BY <1>0, <1>1 DEF StoreTables
<1>3. row \in VoidRow /\ row.order = k
  BY <1>2 DEF VoidRow, Keys
<1>4. PICK t \in Consumable(r, "void") : Consume(t)
  BY DEF VoidOrder
<1>5. t \in Tokens /\ tokens' = [tokens EXCEPT ![t] = "spent"]
  BY <1>4 DEF Consumable, Consume
<1>6. /\ voids' = Append(voids, row) /\ MoveStock(Quantities(orders[k]))
      /\ PostCash(n, "cash_refund", total)
      /\ orders' = [orders EXCEPT ![k].status = "voided"]
      /\ UNCHANGED <<shifts, ops, refunds, adjustments, imports, txn>>
  BY DEF VoidOrder
<1>7. total \in Nat \ {0}
  <2>1. total = orders[k].cash + orders[k].card /\ orders[k].cash > 0
    BY <1>0, <1>1 DEF References, VoidOrder
  <2> QED BY <1>2, <2>1 DEF OrderRow
<1> HIDE DEF row, total
<1>8. voids' \in Seq(VoidRow) /\ Added(voids, voids', row)
  BY <1>0, <1>3, <1>6, RowAdded DEF StoreTables
<1>9. orders' \in Seq(OrderRow) /\ OrdersStay(k) /\ orders'[k].status = "voided"
  <2> HIDE DEF k
  <2> QED BY <1>0, <1>1, <1>6, StatusSet DEF Statuses
<1>10. stock' \in [Products -> Nat] /\ ledger' \in [Products -> Seq(LedgerRow)]
  <2> DEFINE delta == Quantities(orders[k])
  <2>1. DOMAIN orders[k].lines \subseteq Products
        /\ \A p \in DOMAIN orders[k].lines : orders[k].lines[p].qty \in Nat
    BY <1>2 DEF OrderRow, Carts, Lines
  <2>2. delta \in Deltas /\ \A p \in DOMAIN delta : delta[p] \in Nat
    BY <2>1 DEF Deltas, Quantities
  <2>3. DOMAIN delta \subseteq Products
    BY <2>1 DEF Quantities
  <2>4. \A p \in DOMAIN delta : stock[p] + delta[p] >= 0
    BY <1>0, <2>2, <2>3 DEF StoreTables
  <2> HIDE DEF delta
  <2> QED BY <1>0, <1>6, <2>2, <2>4, StockMoved DEF delta
<1>11. /\ DrawerInv'
       /\ Added(moves, moves', [shift |-> n, type |-> "cash_refund", amount |-> total])
  <2> HIDE DEF n
  <2> QED BY <1>0, <1>1, <1>6, <1>7, PostKeeps
<1>12. tokens' \in [Tokens -> TokenStates]
  BY <1>0, <1>5 DEF StoreTables, TokenStates
<1>13. StoreTables'
  BY <1>0, <1>6, <1>8, <1>9, <1>10, <1>12 DEF StoreTables
<1>14. References'
  <2>1. shifts' = shifts /\ refunds' = refunds
    BY <1>6
  <2>2. \A i \in DOMAIN voids' : voids'[i].order \in DOMAIN orders'
    BY <1>0, <1>1, <1>3, <1>8, <1>9 DEF References, Added, OrdersStay
  <2> QED BY <1>0, <1>9, <2>1, <2>2 DEF References, OrdersStay
<1> QED BY <1>1, <1>8, <1>9, <1>11, <1>13, <1>14 DEF Types, row, total

LEMMA AdjustsKeeps ==
    ASSUME Types, NEW s \in Sessions, NEW r \in AdjustRequests, Adjusts(s, r), txn[s].request = r
    PROVE  /\ Types'
           /\ Added(adjustments, adjustments',
                    [key |-> r.key, products |-> r.products, delta |-> r.delta])
<1> DEFINE row == [key |-> r.key, products |-> r.products, delta |-> r.delta]
           delta == [p \in r.products |-> r.delta]
<1>0. StoreTables /\ References /\ DrawerInv
  BY DEF Types
<1>1. r.products \subseteq Products /\ r.delta \in Int \ {0} /\ r.key \in Keys(AdjustRequests)
  BY StoreAssumption DEF Keys
<1>2. row \in AdjustmentRow
  BY <1>1 DEF AdjustmentRow
<1>3. /\ adjustments' = Append(adjustments, row) /\ MoveStock(delta)
      /\ Answer(s, Len(adjustments) + 1) /\ NotNegative(r)
      /\ UNCHANGED <<drawerVars, orders, refunds, voids, imports, tokens>>
  BY DEF Adjusts
<1> HIDE DEF row
<1>4. adjustments' \in Seq(AdjustmentRow) /\ Added(adjustments, adjustments', row)
  BY <1>0, <1>2, <1>3, RowAdded DEF StoreTables
<1>5. delta \in Deltas /\ \A p \in DOMAIN delta : stock[p] + delta[p] >= 0
  <2>1. delta \in [r.products -> Int]
    BY <1>1
  <2> QED BY <1>1, <1>3, <2>1 DEF Deltas, NotNegative
<1>6. stock' \in [Products -> Nat] /\ ledger' \in [Products -> Seq(LedgerRow)]
  <2> HIDE DEF delta
  <2> QED BY <1>0, <1>3, <1>5, StockMoved
<1>7. txn' \in [Sessions -> TxnStates]
  <2>1. Len(adjustments) + 1 \in Int
    BY <1>4 DEF Added
  <2>2. r \in Requests
    BY DEF Requests
  <2> QED BY <1>0, <1>3, <2>1, <2>2, Answers DEF Answer
<1>8. StoreTables'
  BY <1>0, <1>3, <1>4, <1>6, <1>7 DEF StoreTables
<1>9. References'
  BY <1>0, <1>3 DEF References, drawerVars
<1>10. DrawerInv'
  BY <1>0, <1>3 DEF drawerVars, DrawerInv, DrawerTables, DrawerTypeOK, OneOpenShift, OperationsOnce, IsOpen
<1> QED BY <1>4, <1>8, <1>9, <1>10 DEF Types, row

(* What an import does to a product: a row's delta, and the stock it leaves. *)
ImportRows(r, p) ==
  IF p \in DOMAIN r.items
  THEN {c \in ImportChanges(r.mode, r.items[p], stock[p]) : c.delta # 0} ELSE {}

ImportEffect(r, p) == CHOOSE c \in ImportRows(r, p) : TRUE

ImportChanged(r) == {p \in Products : ImportRows(r, p) # {}}

LEMMA ImportKeeps ==
    ASSUME Types, NEW r \in ImportRequests, ImportCatalog(r)
    PROVE  /\ Types'
           /\ Added(imports, imports',
                    [key |-> r.key, deltas |-> [p \in ImportChanged(r) |-> ImportEffect(r, p).delta]])
<1> DEFINE Changed == ImportChanged(r)
           deltas == [p \in Changed |-> ImportEffect(r, p).delta]
           row == [key |-> r.key, deltas |-> deltas]
<1>0. StoreTables /\ References /\ DrawerInv
  BY DEF Types
<1>1. /\ stock' = [p \in Products |-> IF p \in Changed THEN ImportEffect(r, p).result ELSE stock[p]]
      /\ ledger' = [p \in Products |-> IF p \in Changed THEN Append(ledger[p], ImportEffect(r, p))
                                                        ELSE ledger[p]]
      /\ imports' = Append(imports, row)
      /\ UNCHANGED <<drawerVars, orders, refunds, voids, adjustments, tokens, txn>>
  BY DEF ImportCatalog, ImportRows, ImportEffect, ImportChanged
<1>2. stock \in [Products -> Nat] /\ ledger \in [Products -> Seq(LedgerRow)]
      /\ Changed \subseteq Products
  BY <1>0 DEF StoreTables, ImportChanged
<1>3. ASSUME NEW p \in Changed
      PROVE  ImportEffect(r, p) \in LedgerRow
  <2>1. p \in Products /\ stock[p] \in Nat
    BY <1>2
  <2>2. ImportEffect(r, p) \in ImportRows(r, p) /\ p \in DOMAIN r.items
    BY DEF ImportEffect, ImportChanged, ImportRows
  <2>3. r.items[p].count \subseteq Nat /\ r.items[p].delta \subseteq Int
    BY <2>2, StoreAssumption
  <2>4. ImportEffect(r, p) \in ImportChanges(r.mode, r.items[p], stock[p])
    BY <2>2 DEF ImportRows
  <2>5. ASSUME NEW c \in ImportChanges(r.mode, r.items[p], stock[p]) PROVE c \in LedgerRow
    <3>1. CASE r.mode # "stock_override" /\ r.items[p].delta # {}
      BY <2>1, <2>3, <2>5, <3>1 DEF ImportChanges, LedgerRow
    <3>2. CASE ~(r.mode # "stock_override" /\ r.items[p].delta # {})
      BY <2>1, <2>3, <2>5, <3>2 DEF ImportChanges, LedgerRow
    <3> QED BY <3>1, <3>2
  <2> QED BY <2>4, <2>5
<1>4. stock' \in [Products -> Nat] /\ ledger' \in [Products -> Seq(LedgerRow)]
  <2>1. \A p \in Changed : ImportEffect(r, p).result \in Nat
    BY <1>3 DEF LedgerRow
  <2>2. \A p \in Changed : Append(ledger[p], ImportEffect(r, p)) \in Seq(LedgerRow)
    BY <1>2, <1>3
  <2> HIDE DEF Changed
  <2> QED BY <1>1, <1>2, <2>1, <2>2
<1>5. row \in ImportRow
  <2>1. deltas \in Deltas
    BY <1>2, <1>3 DEF Deltas, LedgerRow
  <2> QED BY <2>1 DEF ImportRow, Keys
<1> HIDE DEF row
<1>6. imports' \in Seq(ImportRow) /\ Added(imports, imports', row)
  BY <1>0, <1>1, <1>5, RowAdded DEF StoreTables
<1>7. StoreTables'
  BY <1>0, <1>1, <1>4, <1>6 DEF StoreTables
<1>8. References' /\ DrawerInv'
  BY <1>0, <1>1 DEF References, drawerVars,
     DrawerInv, DrawerTables, DrawerTypeOK, OneOpenShift, OperationsOnce, IsOpen
<1> QED BY <1>6, <1>7, <1>8 DEF Types, row

(* The drawer's own operations keep the shifts there are. *)
LEMMA DrawerKeeps ==
    ASSUME Types, Drawer
    PROVE  Types' /\ UNCHANGED storeVars
<1>1. DrawerInv' /\ UNCHANGED storeVars
  BY DrawerNextKeeps DEF Types, Drawer
<1>2. StoreTables'
  BY <1>1 DEF Types, StoreTables, storeVars
<1>3. \A n \in DOMAIN shifts : n \in DOMAIN shifts'
  <2>1. DrawerTables
    BY DEF Types, DrawerInv
  <2>2. ASSUME NEW r \in OpenRequests, OpenShift(r)
        PROVE  \A n \in DOMAIN shifts : n \in DOMAIN shifts'
    <3>1. DOMAIN shifts = 1 .. Len(shifts) /\ DOMAIN shifts' = 1 .. Len(shifts) + 1
      BY <2>1, <2>2, Opened
    <3>2. Len(shifts) \in Nat
      BY <2>1 DEF DrawerTables
    <3> QED BY <3>1, <3>2
  <2>3. ASSUME NEW r \in CloseRequests, CloseShift(r)
        PROVE  \A n \in DOMAIN shifts : n \in DOMAIN shifts'
    BY <2>1, <2>3, Closed
  <2>4. ASSUME NEW r \in CashRequests, RecordCashMovement(r)
        PROVE  \A n \in DOMAIN shifts : n \in DOMAIN shifts'
    BY <2>1, <2>4, Recorded
  <2> QED BY <2>2, <2>3, <2>4 DEF Drawer, DrawerNext
<1>4. References'
  BY <1>1, <1>3 DEF Types, References, storeVars
<1> QED BY <1>1, <1>2, <1>4 DEF Types

LEMMA QuietKeeps ==
    ASSUME Types, Quiet
    PROVE  Types'
<1>1. StoreTables' /\ References'
  BY DEF Types, Quiet, StoreTables, References, drawerVars, tables
<1>2. DrawerInv'
  BY DEF Types, Quiet, drawerVars, DrawerInv, DrawerTables, DrawerTypeOK, OneOpenShift,
         OperationsOnce, IsOpen
<1> QED BY <1>1, <1>2 DEF Types

LEMMA InitTypes == Init => Types
<1> SUFFICES ASSUME Init PROVE Types
  OBVIOUS
<1>1. DrawerInv /\ shifts = << >> /\ orders = << >>
  BY DrawerInitHolds DEF Init, DrawerInit
<1>2. StoreTables
  <2>1. Idle \in TxnStates
    BY DEF Idle, TxnStates
  <2> QED BY <2>1, StoreAssumption DEF Init, StoreTables, TokenStates
<1>3. References
  BY DEF Init, References
<1> QED BY <1>1, <1>2, <1>3 DEF Types

(* No call of the store, whatever it interleaves with, writes a row of another     *)
(* shape, one that refers to a row that is not there, or an order not fully paid.  *)
THEOREM RowsAreTyped == Spec => []Types
<1>1. ASSUME Types, [Next]_vars PROVE Types'
  <2>1. StoreTables /\ DrawerTables
    BY <1>1 DEF Types, DrawerInv
  <2> QED BY <1>1, <2>1, Steps, SellsKeeps, RefundsKeeps, AdjustsKeeps, VoidKeeps, ImportKeeps,
             DrawerKeeps, QuietKeeps
<1> QED BY <1>1, InitTypes, PTL DEF Spec

(* The tables hold rows of their types that refer to rows that exist, and an order  *)
(* is paid to the cent, whatever is sold, returned, voided, adjusted and imported.  *)
THEOREM StoreTypeCorrect == Spec => []TypeOK
<1>1. Types => TypeOK
  <2> SUFFICES ASSUME Types PROVE TypeOK
    OBVIOUS
  <2>1. DrawerTypeOK /\ StoreTables /\ References
    BY DEF Types, DrawerInv
  <2>2. \A n \in DOMAIN orders : orders[n].status \in Statuses
    <3>1. \A n \in DOMAIN orders : orders[n] \in OrderRow
      BY <2>1 DEF StoreTables
    <3> QED BY <3>1 DEF OrderRow
  <2>3. \A i \in DOMAIN refunds : refunds[i].amount > 0
    <3>1. \A i \in DOMAIN refunds : refunds[i] \in RefundRow
      BY <2>1 DEF StoreTables
    <3> QED BY <3>1 DEF RefundRow
  <2>4. \A s \in Sessions : txn[s].at \in {"idle", "working", "answered"}
    BY <2>1 DEF StoreTables, TxnStates
  <2> QED BY <2>1, <2>2, <2>3, <2>4 DEF TypeOK, References, StoreTables, TokenStates
<1> QED BY <1>1, RowsAreTyped, PTL
--------------------------------------------------------------------------------
(* The drawer's invariants hold in the composition: its cash movements come from    *)
(* sales, refunds and voids too.                                                    *)

(* Sales, refunds and voids do not touch which shift of a register is open. *)
THEOREM StoreOneDrawer == Spec => []OneOpenShift
<1>1. Types => OneOpenShift
  BY DEF Types, DrawerInv
<1> QED BY <1>1, RowsAreTyped, PTL

(* A key's effect on the drawer is there once, beside the postings of the sales. *)
THEOREM StoreEffectsOnce == Spec => []OperationsOnce
<1>1. Types => OperationsOnce
  BY DEF Types, DrawerInv
<1> QED BY <1>1, RowsAreTyped, PTL

(* No sale, refund or void posts to a closed shift: what was counted stays what it   *)
(* was.                                                                             *)
THEOREM StoreCountIsFinal == Spec => ClosedIsFinal
<1> DEFINE Stays(n) == /\ n \in DOMAIN shifts' /\ shifts'[n] = shifts[n]
                       /\ MovesOf(n)' = MovesOf(n)
                       /\ \A i \in MovesOf(n) : moves'[i] = moves[i]
           Final == \A n \in DOMAIN shifts : shifts[n].status = "closed" => Stays(n)
<1>1. Types /\ [Next]_vars => [Final]_<<shifts, moves>>
  <2> SUFFICES ASSUME Types, [Next]_vars, NEW n \in DOMAIN shifts, shifts[n].status = "closed"
               PROVE  Stays(n)
    OBVIOUS
  <2>0. StoreTables /\ DrawerTables /\ DrawerInv
    BY DEF Types, DrawerInv
  <2>1. ASSUME NEW k, IsOpen(k), NEW type, NEW amount, shifts' = shifts,
               moves' = moves \/ Added(moves, moves', [shift |-> k, type |-> type, amount |-> amount])
        PROVE  Stays(n)
    <3>1. k # n
      BY <2>1 DEF IsOpen
    <3> QED BY <2>1, <3>1 DEF Added, MovesOf
  <2>2. ASSUME NEW s \in Sessions, NEW r \in CheckoutRequests, NEW k \in Nat \ {0},
               Sells(s, r, k), txn[s].request = r
        PROVE  Stays(n)
    <3>1. IsOpen(k) /\ shifts' = shifts
      BY <2>2 DEF Sells, ShiftFor, OpenShiftsOf, CheckoutCommits
    <3>2. moves' = moves \/ Added(moves, moves', [shift |-> k, type |-> "cash_sale", amount |-> r.cash])
      BY <2>2, SellsKeeps
    <3> QED BY <2>1, <3>1, <3>2
  <2>3. ASSUME NEW s \in Sessions, NEW r \in RefundRequests, NEW t \in Tokens,
               Refunds(s, r, t), txn[s].request = r
        PROVE  Stays(n)
    <3>1. IsOpen(orders[r.order].shift) /\ shifts' = shifts
      BY <2>3 DEF Refunds, Refundable, RefundCommits
    <3>2. Added(moves, moves', [shift |-> orders[r.order].shift, type |-> "cash_refund",
                                amount |-> r.amount])
      BY <2>3, RefundsKeeps
    <3> QED BY <2>1, <3>1, <3>2
  <2>4. ASSUME NEW r \in VoidRequests, VoidOrder(r) PROVE Stays(n)
    <3>1. IsOpen(orders[r.order].shift) /\ shifts' = shifts
      BY <2>4 DEF VoidOrder
    <3>2. Added(moves, moves', [shift |-> orders[r.order].shift, type |-> "cash_refund",
                                amount |-> TotalOf(orders[r.order])])
      BY <2>4, VoidKeeps
    <3> QED BY <2>1, <3>1, <3>2
  <2>5. CASE Drawer
    <3>1. CASE UNCHANGED <<shifts, moves>>
      BY <3>1 DEF MovesOf
    <3>2. CASE DrawerNext
      BY <2>0, <3>2, DrawerFinal
    <3> QED BY <2>5, <3>2 DEF Drawer
  <2>6. CASE UNCHANGED drawerVars
    BY <2>6 DEF drawerVars, MovesOf
  <2>7. (\E s \in Sessions, r \in AdjustRequests : Adjusts(s, r))
          \/ (\E r \in ImportRequests : ImportCatalog(r)) \/ Quiet
        => UNCHANGED drawerVars
    BY DEF Adjusts, ImportCatalog, Quiet
  <2> HIDE DEF Stays
  <2> QED BY <2>0, <2>2, <2>3, <2>4, <2>5, <2>6, <2>7, Steps
<1> QED BY <1>1, RowsAreTyped, PTL DEF Spec, ClosedIsFinal

--------------------------------------------------------------------------------
(* Keys. *)

Unique(table) == \A i, j \in DOMAIN table : table[i].key = table[j].key => i = j

UniqueTables == /\ Unique(orders) /\ Unique(refunds) /\ Unique(voids)
                /\ Unique(adjustments) /\ Unique(imports)

LEMMA UniqueAdded ==
    ASSUME NEW old, NEW new, NEW row, Added(old, new, row), Unique(old),
           \A i \in DOMAIN old : old[i].key # row.key
    PROVE  Unique(new)
BY DEF Added, Unique

(* A sale's status does not change its key. *)
LEMMA UniqueStays == ASSUME NEW k, OrdersStay(k), Unique(orders) PROVE Unique(orders')
BY DEF OrdersStay, Unique

LEMMA KeysKept == ASSUME Types, UniqueTables, [Next]_vars PROVE UniqueTables'
<1>0. StoreTables /\ DrawerTables
  BY DEF Types, DrawerInv
<1>1. ASSUME NEW s \in Sessions, NEW r \in CheckoutRequests, NEW n \in Nat \ {0},
             Sells(s, r, n), txn[s].request = r
      PROVE  UniqueTables'
  <2>1. Added(orders, orders', OrderOf(r, n))
    BY <1>1, SellsKeeps
  <2>2. \A i \in DOMAIN orders : orders[i].key # OrderOf(r, n).key
    BY <1>1 DEF Sells, CheckoutCommits, KeyTaken, KeyRows, OrderOf
  <2>3. Unique(orders')
    BY <2>1, <2>2, UniqueAdded DEF UniqueTables
  <2>4. UNCHANGED <<refunds, voids, adjustments, imports>>
    BY <1>1 DEF Sells, CheckoutCommits
  <2> QED BY <2>3, <2>4 DEF UniqueTables, Unique
<1>2. ASSUME NEW s \in Sessions, NEW r \in RefundRequests, NEW t \in Tokens,
             Refunds(s, r, t), txn[s].request = r
      PROVE  UniqueTables'
  <2>1. Added(refunds, refunds', RefundOf(r, t)) /\ OrdersStay(r.order)
    BY <1>2, RefundsKeeps
  <2>2. \A i \in DOMAIN refunds : refunds[i].key # RefundOf(r, t).key
    BY <1>2 DEF Refunds, KeyTaken, KeyRows, RefundOf
  <2>3. Unique(refunds') /\ Unique(orders')
    BY <2>1, <2>2, UniqueAdded, UniqueStays DEF UniqueTables
  <2>4. UNCHANGED <<voids, adjustments, imports>>
    BY <1>2 DEF Refunds, RefundCommits
  <2> QED BY <2>3, <2>4 DEF UniqueTables, Unique
<1>3. ASSUME NEW r \in VoidRequests, VoidOrder(r) PROVE UniqueTables'
  <2>1. Added(voids, voids', [key |-> r.key, order |-> r.order]) /\ OrdersStay(r.order)
    BY <1>3, VoidKeeps
  <2>2. \A i \in DOMAIN voids : voids[i].key # r.key
    BY <1>3 DEF VoidOrder
  <2>3. Unique(voids') /\ Unique(orders')
    BY <2>1, <2>2, UniqueAdded, UniqueStays DEF UniqueTables
  <2>4. UNCHANGED <<refunds, adjustments, imports>>
    BY <1>3 DEF VoidOrder
  <2> QED BY <2>3, <2>4 DEF UniqueTables, Unique
<1>4. ASSUME NEW s \in Sessions, NEW r \in AdjustRequests, Adjusts(s, r), txn[s].request = r
      PROVE  UniqueTables'
  <2>1. Added(adjustments, adjustments', [key |-> r.key, products |-> r.products, delta |-> r.delta])
    BY <1>4, AdjustsKeeps
  <2>2. \A i \in DOMAIN adjustments : adjustments[i].key # r.key
    BY <1>4 DEF Adjusts, KeyTaken, KeyRows
  <2>3. Unique(adjustments')
    BY <2>1, <2>2, UniqueAdded DEF UniqueTables
  <2>4. UNCHANGED <<orders, refunds, voids, imports>>
    BY <1>4 DEF Adjusts
  <2> QED BY <2>3, <2>4 DEF UniqueTables, Unique
<1>5. ASSUME NEW r \in ImportRequests, ImportCatalog(r) PROVE UniqueTables'
  <2> DEFINE row == [key |-> r.key, deltas |-> [p \in ImportChanged(r) |-> ImportEffect(r, p).delta]]
  <2>1. Added(imports, imports', row)
    BY <1>5, ImportKeeps
  <2>2. \A i \in DOMAIN imports : imports[i].key # row.key
    BY <1>5 DEF ImportCatalog
  <2>3. Unique(imports')
    BY <2>1, <2>2, UniqueAdded DEF UniqueTables
  <2>4. UNCHANGED <<orders, refunds, voids, adjustments>>
    BY <1>5 DEF ImportCatalog
  <2> QED BY <2>3, <2>4 DEF UniqueTables, Unique
<1>6. ASSUME Drawer \/ Quiet PROVE UniqueTables'
  BY <1>6 DEF Drawer, storeVars, Quiet, tables, UniqueTables, Unique
<1> QED BY <1>0, <1>1, <1>2, <1>3, <1>4, <1>5, <1>6, Steps

(* A key names one row of its table, however many copies of its call run at once. *)
THEOREM KeysOnce == Spec => []KeyOnce
<1>1. Init => UniqueTables
  BY DEF Init, UniqueTables, Unique
<1>2. UniqueTables => KeyOnce
  <2> SUFFICES ASSUME UniqueTables,
                      NEW table \in {orders, refunds, voids, adjustments, imports}
               PROVE  Unique(table)
    BY DEF KeyOnce, Unique
  <2> QED BY DEF UniqueTables
<1> QED BY <1>1, <1>2, KeysKept, RowsAreTyped, PTL DEF Spec

--------------------------------------------------------------------------------
(* Answers. *)

AllTruthful == \A s \in Sessions : Truthful(txn[s])

(* What an answer names stays. *)
RowsStay ==
  /\ \A i \in DOMAIN orders : i \in DOMAIN orders' /\ orders'[i].key = orders[i].key
  /\ \A i \in DOMAIN refunds : i \in DOMAIN refunds' /\ refunds'[i] = refunds[i]
  /\ \A i \in DOMAIN adjustments : i \in DOMAIN adjustments' /\ adjustments'[i] = adjustments[i]

LEMMA StillTruthful ==
    ASSUME RowsStay, NEW a, Truthful(a)
    PROVE  Truthful(a)'
BY DEF RowsStay, Truthful, KeyRows

LEMMA AnswersKept == ASSUME Types, AllTruthful, [Next]_vars PROVE AllTruthful'
<1>0. StoreTables /\ DrawerTables
  BY DEF Types, DrawerInv
<1>1. ASSUME NEW s \in Sessions, RowsStay, \A x \in Sessions \ {s} : txn'[x] = txn[x],
             Truthful(txn[s])'
      PROVE  AllTruthful'
  <2>1. ASSUME NEW x \in Sessions, x # s PROVE Truthful(txn[x])'
    <3>1. Truthful(txn[x]) /\ txn'[x] = txn[x]
      BY <1>1, <2>1 DEF AllTruthful
    <3> QED BY <1>1, <3>1, StillTruthful
  <2> QED BY <1>1, <2>1 DEF AllTruthful
<1>2. ASSUME NEW s \in Sessions, NEW r \in CheckoutRequests, NEW n \in Nat \ {0},
             Sells(s, r, n), txn[s].request = r
      PROVE  AllTruthful'
  <2>1. Added(orders, orders', OrderOf(r, n)) /\ OrderOf(r, n).key = r.key
    BY <1>2, SellsKeeps DEF OrderOf
  <2>2. r \in Requests /\ r.kind = "checkout"
    BY StoreAssumption DEF Requests
  <2>3. /\ \A x \in Sessions \ {s} : txn'[x] = txn[x]
        /\ txn'[s].request = r /\ txn'[s].answer = Len(orders) + 1
    <3> DEFINE a == Len(orders) + 1
    <3>1. a \in Int /\ txn' = [txn EXCEPT ![s] = Answered(r, a)]
      BY <1>2, <2>1 DEF Sells, CheckoutCommits, Answer, Added
    <3> HIDE DEF a
    <3>2. StoreTables /\ r \in Requests
      BY <1>0, <2>2
    <3>3. /\ txn' \in [Sessions -> TxnStates]
          /\ \A x \in Sessions \ {s} : txn'[x] = txn[x]
          /\ txn'[s].at = "answered" /\ txn'[s].request = r /\ txn'[s].answer = a
      BY <3>1, <3>2, Answers
    <3> QED BY <3>3 DEF a
  <2>4. RowsStay
    BY <1>2, <2>1 DEF Sells, CheckoutCommits, RowsStay, Added
  <2>5. Truthful(txn[s])'
    BY <2>1, <2>2, <2>3 DEF Truthful, KeyRows, Added
  <2> QED BY <1>1, <2>3, <2>4, <2>5
<1>3. ASSUME NEW s \in Sessions, NEW r \in RefundRequests, NEW t \in Tokens,
             Refunds(s, r, t), txn[s].request = r
      PROVE  AllTruthful'
  <2>1. Added(refunds, refunds', RefundOf(r, t)) /\ OrdersStay(r.order)
        /\ RefundOf(r, t).key = r.key /\ RefundOf(r, t).amount = r.amount
        /\ RefundOf(r, t).order = r.order
    BY <1>3, RefundsKeeps DEF RefundOf
  <2>2. r \in Requests /\ r.kind = "refund"
    BY StoreAssumption DEF Requests
  <2>3. /\ \A x \in Sessions \ {s} : txn'[x] = txn[x]
        /\ txn'[s].request = r /\ txn'[s].answer = Len(refunds) + 1
    <3> DEFINE a == Len(refunds) + 1
    <3>1. a \in Int /\ txn' = [txn EXCEPT ![s] = Answered(r, a)]
      BY <1>3, <2>1 DEF Refunds, RefundCommits, Answer, Added
    <3> HIDE DEF a
    <3>2. StoreTables /\ r \in Requests
      BY <1>0, <2>2
    <3>3. /\ txn' \in [Sessions -> TxnStates]
          /\ \A x \in Sessions \ {s} : txn'[x] = txn[x]
          /\ txn'[s].at = "answered" /\ txn'[s].request = r /\ txn'[s].answer = a
      BY <3>1, <3>2, Answers
    <3> QED BY <3>3 DEF a
  <2>4. RowsStay
    BY <1>3, <2>1 DEF Refunds, RefundCommits, RowsStay, Added, OrdersStay
  <2>5. Truthful(txn[s])'
    BY <2>1, <2>2, <2>3 DEF Truthful, KeyRows, Added
  <2> QED BY <1>1, <2>3, <2>4, <2>5
<1>4. ASSUME NEW s \in Sessions, NEW r \in AdjustRequests, Adjusts(s, r), txn[s].request = r
      PROVE  AllTruthful'
  <2>1. Added(adjustments, adjustments', [key |-> r.key, products |-> r.products, delta |-> r.delta])
    BY <1>4, AdjustsKeeps
  <2>2. r \in Requests /\ r.kind = "adjust"
    BY StoreAssumption DEF Requests
  <2>3. /\ \A x \in Sessions \ {s} : txn'[x] = txn[x]
        /\ txn'[s].request = r /\ txn'[s].answer = Len(adjustments) + 1
    <3> DEFINE a == Len(adjustments) + 1
    <3>1. a \in Int /\ txn' = [txn EXCEPT ![s] = Answered(r, a)]
      BY <1>4, <2>1 DEF Adjusts, Answer, Added
    <3> HIDE DEF a
    <3>2. StoreTables /\ r \in Requests
      BY <1>0, <2>2
    <3>3. /\ txn' \in [Sessions -> TxnStates]
          /\ \A x \in Sessions \ {s} : txn'[x] = txn[x]
          /\ txn'[s].at = "answered" /\ txn'[s].request = r /\ txn'[s].answer = a
      BY <3>1, <3>2, Answers
    <3> QED BY <3>3 DEF a
  <2>4. RowsStay
    BY <1>4, <2>1 DEF Adjusts, RowsStay, Added
  <2>5. Truthful(txn[s])'
    BY <2>1, <2>2, <2>3 DEF Truthful, KeyRows, Added
  <2> QED BY <1>1, <2>3, <2>4, <2>5
<1>5. ASSUME RowsStay, txn' = txn PROVE AllTruthful'
  BY <1>5, StillTruthful DEF AllTruthful
<1>6. ASSUME NEW r \in VoidRequests, VoidOrder(r) PROVE AllTruthful'
  <2>1. OrdersStay(r.order) /\ UNCHANGED <<refunds, adjustments, txn>>
    BY <1>6, VoidKeeps DEF VoidOrder
  <2> QED BY <1>5, <2>1 DEF RowsStay, OrdersStay
<1>7. ASSUME NEW r \in ImportRequests, ImportCatalog(r) PROVE AllTruthful'
  BY <1>5, <1>7 DEF ImportCatalog, RowsStay
<1>8. ASSUME Drawer PROVE AllTruthful'
  BY <1>5, <1>8 DEF Drawer, storeVars, RowsStay
<1>9. ASSUME Quiet PROVE AllTruthful'
  BY <1>9 DEF Quiet, tables, AllTruthful, Truthful, KeyRows
<1> QED BY <1>0, <1>2, <1>3, <1>4, <1>6, <1>7, <1>8, <1>9, Steps

(* An answer that is not an error names a row under the key of its request, and of  *)
(* refunds and adjustments the row that was asked for.                              *)
THEOREM AnswersAreTrue == Spec => []AnswerIsTrue
<1>1. Init => AllTruthful
  BY DEF Init, AllTruthful, Truthful, Idle
<1>2. AllTruthful /\ Types => AnswerIsTrue
  <2> SUFFICES ASSUME AllTruthful, StoreTables, NEW s \in Sessions,
                      txn[s].at = "answered", txn[s].answer > 0
               PROVE  LET a == txn[s] IN
                      CASE a.request.kind = "checkout" -> a.answer \in KeyRows(orders, a.request.key)
                        [] a.request.kind = "refund"   -> /\ a.answer \in KeyRows(refunds, a.request.key)
                                                          /\ refunds[a.answer].amount = a.request.amount
                                                          /\ refunds[a.answer].order = a.request.order
                        [] a.request.kind = "adjust"   -> /\ a.answer \in KeyRows(adjustments, a.request.key)
                                                          /\ adjustments[a.answer].products = a.request.products
                                                          /\ adjustments[a.answer].delta = a.request.delta
    BY DEF Types, AnswerIsTrue
  <2>1. txn[s].request \in Requests
    <3>1. txn[s] \in TxnStates
      BY DEF StoreTables
    <3> QED BY <3>1 DEF TxnStates
  <2>2. txn[s].request.kind \in {"checkout", "refund", "adjust"}
    BY <2>1, StoreAssumption DEF Requests
  <2>3. Truthful(txn[s])
    BY DEF AllTruthful
  <2>4. CASE txn[s].request.kind = "checkout"
    BY <2>3, <2>4 DEF Truthful
  <2>5. CASE txn[s].request.kind = "refund"
    BY <2>3, <2>5 DEF Truthful
  <2>6. CASE txn[s].request.kind = "adjust"
    BY <2>3, <2>6 DEF Truthful
  <2> QED BY <2>2, <2>4, <2>5, <2>6
<1> QED BY <1>1, <1>2, AnswersKept, RowsAreTyped, PTL DEF Spec
--------------------------------------------------------------------------------
(* What the refunds of an order sum to. *)

LEMMA RefundSums ==
    ASSUME StoreTables, NEW n
    PROVE  /\ IsFiniteSet(RefundsOf(n)) /\ RefundsOf(n) \subseteq DOMAIN refunds
           /\ RefundedAmount(n) \in Nat
           /\ \A p : RefundedQuantity(n, p) \in Nat
           /\ RefundsOf(n) = {} => RefundedAmount(n) = 0 /\ \A p : RefundedQuantity(n, p) = 0
<1>1. refunds \in Seq(RefundRow) /\ DOMAIN refunds = 1 .. Len(refunds) /\ Len(refunds) \in Nat
  BY DEF StoreTables
<1>2. IsFiniteSet(RefundsOf(n)) /\ RefundsOf(n) \subseteq DOMAIN refunds
  <2>1. IsFiniteSet(DOMAIN refunds)
    BY <1>1, FS_Interval
  <2> QED BY <2>1, FS_Subset DEF RefundsOf
<1>3. \A i \in DOMAIN refunds : refunds[i] \in RefundRow
  BY <1>1
<1>4. RefundedAmount(n) \in Nat
  <2> DEFINE f == [i \in DOMAIN refunds |-> refunds[i].amount]
  <2>1. \A i \in RefundsOf(n) : f[i] \in Nat
    BY <1>2, <1>3 DEF RefundRow
  <2> HIDE DEF f
  <2>2. SumFunctionOnSet(f, RefundsOf(n)) \in Nat
    BY <1>2, <2>1, SumNat
  <2> QED BY <2>2 DEF RefundedAmount, f
<1>5. ASSUME NEW p PROVE RefundedQuantity(n, p) \in Nat
  <2> DEFINE f == [i \in DOMAIN refunds |-> QuantityIn(refunds[i].items, p)]
  <2>1. \A i \in RefundsOf(n) : f[i] \in Nat
    BY <1>2, <1>3 DEF RefundRow, Items, QuantityIn
  <2> HIDE DEF f
  <2>2. SumFunctionOnSet(f, RefundsOf(n)) \in Nat
    BY <1>2, <2>1, SumNat
  <2> QED BY <2>2 DEF RefundedQuantity, f
<1>6. RefundsOf(n) = {} => RefundedAmount(n) = 0 /\ \A p : RefundedQuantity(n, p) = 0
  BY SumEmpty DEF RefundedAmount, RefundedQuantity
<1> QED BY <1>2, <1>4, <1>5, <1>6

(* A refund adds to its order's sums and to no other's. *)
LEMMA RefundAdds ==
    ASSUME StoreTables, StoreTables', NEW row, Added(refunds, refunds', row), NEW n
    PROVE  /\ row.order # n => RefundsOf(n)' = RefundsOf(n)
           /\ row.order = n => /\ RefundsOf(n)' = RefundsOf(n) \union {Len(refunds) + 1}
                               /\ Len(refunds) + 1 \notin RefundsOf(n)
           /\ RefundedAmount(n)' = RefundedAmount(n) + IF row.order = n THEN row.amount ELSE 0
           /\ \A p : RefundedQuantity(n, p)' =
                       RefundedQuantity(n, p) + IF row.order = n THEN QuantityIn(row.items, p) ELSE 0
<1> DEFINE k == Len(refunds) + 1
<1>1. /\ DOMAIN refunds' = DOMAIN refunds \union {k} /\ k \notin DOMAIN refunds
      /\ \A i \in DOMAIN refunds : refunds'[i] = refunds[i]
      /\ refunds'[k] = row
  BY DEF Added
<1>2. refunds'[k] \in RefundRow /\ \A i \in DOMAIN refunds : refunds[i] \in RefundRow
  BY <1>1 DEF StoreTables
<1>3. row.amount \in Nat /\ row.items \in Items
  BY <1>1, <1>2 DEF RefundRow
<1> HIDE DEF k
<1>4. /\ row.order # n => RefundsOf(n)' = RefundsOf(n)
      /\ row.order = n => RefundsOf(n)' = RefundsOf(n) \union {k} /\ k \notin RefundsOf(n)
  BY <1>1 DEF RefundsOf
<1>5. IsFiniteSet(RefundsOf(n)) /\ RefundsOf(n) \subseteq DOMAIN refunds
      /\ RefundedAmount(n) \in Nat /\ \A p : RefundedQuantity(n, p) \in Nat
  BY RefundSums
<1>6. RefundedAmount(n)' = RefundedAmount(n) + IF row.order = n THEN row.amount ELSE 0
  <2> DEFINE f == [i \in DOMAIN refunds |-> refunds[i].amount]
             g == [i \in DOMAIN refunds' |-> refunds'[i].amount]
  <2>1. /\ \A i \in RefundsOf(n) : g[i] = f[i] /\ g[i] \in Int
        /\ g[k] = row.amount /\ g[k] \in Int
    BY <1>1, <1>2, <1>3, <1>5 DEF RefundRow
  <2>2. /\ RefundedAmount(n) = SumFunctionOnSet(f, RefundsOf(n))
        /\ RefundedAmount(n)' = SumFunctionOnSet(g, RefundsOf(n)')
    BY DEF RefundedAmount
  <2> HIDE DEF f, g
  <2>3. CASE row.order # n
    <3>1. SumFunctionOnSet(g, RefundsOf(n)) = SumFunctionOnSet(f, RefundsOf(n))
      BY <1>5, <2>1, SumSame
    <3> QED BY <1>4, <1>5, <2>2, <2>3, <3>1
  <2>4. CASE row.order = n
    <3>1. SumFunctionOnSet(g, RefundsOf(n) \union {k}) = SumFunctionOnSet(f, RefundsOf(n)) + g[k]
      BY <1>4, <1>5, <2>1, <2>4, SumGrows
    <3> QED BY <1>4, <2>1, <2>2, <2>4, <3>1
  <2> QED BY <2>3, <2>4
<1>7. ASSUME NEW p
      PROVE  RefundedQuantity(n, p)' =
               RefundedQuantity(n, p) + IF row.order = n THEN QuantityIn(row.items, p) ELSE 0
  <2> DEFINE f == [i \in DOMAIN refunds |-> QuantityIn(refunds[i].items, p)]
             g == [i \in DOMAIN refunds' |-> QuantityIn(refunds'[i].items, p)]
  <2>0. \A items \in Items : QuantityIn(items, p) \in Int
    BY DEF Items, QuantityIn
  <2>1. /\ \A i \in RefundsOf(n) : g[i] = f[i] /\ g[i] \in Int
        /\ g[k] = QuantityIn(row.items, p) /\ g[k] \in Int
    BY <1>1, <1>2, <1>3, <1>5, <2>0 DEF RefundRow
  <2>2. /\ RefundedQuantity(n, p) = SumFunctionOnSet(f, RefundsOf(n))
        /\ RefundedQuantity(n, p)' = SumFunctionOnSet(g, RefundsOf(n)')
    BY DEF RefundedQuantity
  <2> HIDE DEF f, g
  <2>3. CASE row.order # n
    <3>1. SumFunctionOnSet(g, RefundsOf(n)) = SumFunctionOnSet(f, RefundsOf(n))
      BY <1>5, <2>1, SumSame
    <3> QED BY <1>4, <1>5, <2>2, <2>3, <3>1
  <2>4. CASE row.order = n
    <3>1. SumFunctionOnSet(g, RefundsOf(n) \union {k}) = SumFunctionOnSet(f, RefundsOf(n)) + g[k]
      BY <1>4, <1>5, <2>1, <2>4, SumGrows
    <3> QED BY <1>4, <2>1, <2>2, <2>4, <3>1
  <2> QED BY <2>3, <2>4
<1> QED BY <1>4, <1>6, <1>7 DEF k

(* The refunds stay what they are when another table changes. *)
LEMMA RefundsSame ==
    ASSUME refunds' = refunds, NEW n
    PROVE  /\ RefundsOf(n)' = RefundsOf(n) /\ RefundedAmount(n)' = RefundedAmount(n)
           /\ \A p : RefundedQuantity(n, p)' = RefundedQuantity(n, p)
BY DEF RefundsOf, RefundedAmount, RefundedQuantity

(* An order that is refunded or voided is settled. *)
THEOREM ReversalsAreFinal == Spec => ReversalIsFinal
<1> DEFINE Settled(n) == /\ orders'[n] = orders[n]
                         /\ RefundedAmount(n)' = RefundedAmount(n)
                         /\ \A i \in DOMAIN voids' \ DOMAIN voids : voids'[i].order # n
           Final == \A n \in DOMAIN orders : orders[n].status # "server_confirmed" => Settled(n)
<1>1. Types /\ Types' /\ [Next]_vars => [Final]_<<orders, refunds, voids>>
  <2> SUFFICES ASSUME Types, Types', [Next]_vars,
                      NEW n \in DOMAIN orders, orders[n].status # "server_confirmed"
               PROVE  Settled(n)
    OBVIOUS
  <2>0. StoreTables /\ StoreTables' /\ DrawerTables
    BY DEF Types, DrawerInv
  <2>1. ASSUME NEW s \in Sessions, NEW r \in CheckoutRequests, NEW k \in Nat \ {0},
               Sells(s, r, k), txn[s].request = r
        PROVE  Settled(n)
    <3>1. Added(orders, orders', OrderOf(r, k))
      BY <2>1, SellsKeeps
    <3>2. UNCHANGED <<refunds, voids>>
      BY <2>1 DEF Sells, CheckoutCommits
    <3> QED BY <3>1, <3>2, RefundsSame DEF Added
  <2>2. ASSUME NEW s \in Sessions, NEW r \in RefundRequests, NEW t \in Tokens,
               Refunds(s, r, t), txn[s].request = r
        PROVE  Settled(n)
    <3>1. /\ Added(refunds, refunds', RefundOf(r, t)) /\ OrdersStay(r.order)
          /\ orders[r.order].status = "server_confirmed"
      BY <2>2, RefundsKeeps
    <3>2. n # r.order /\ RefundOf(r, t).order = r.order
      BY <3>1 DEF RefundOf
    <3>3. RefundedAmount(n)' = RefundedAmount(n) + 0 /\ RefundedAmount(n) \in Nat
      BY <2>0, <3>1, <3>2, RefundAdds, RefundSums
    <3>4. voids' = voids
      BY <2>2 DEF Refunds, RefundCommits
    <3> QED BY <3>1, <3>2, <3>3, <3>4 DEF OrdersStay
  <2>3. ASSUME NEW r \in VoidRequests, VoidOrder(r) PROVE Settled(n)
    <3>1. /\ Added(voids, voids', [key |-> r.key, order |-> r.order]) /\ OrdersStay(r.order)
          /\ orders[r.order].status = "server_confirmed"
      BY <2>3, VoidKeeps
    <3>2. refunds' = refunds
      BY <2>3 DEF VoidOrder
    <3> QED BY <3>1, <3>2, RefundsSame DEF OrdersStay, Added
  <2>4. CASE UNCHANGED <<orders, refunds, voids>>
    BY <2>4, RefundsSame
  <2>5. (\E s \in Sessions, r \in AdjustRequests : Adjusts(s, r))
          \/ (\E r \in ImportRequests : ImportCatalog(r)) \/ Drawer \/ Quiet
        => UNCHANGED <<orders, refunds, voids>>
    BY DEF Adjusts, ImportCatalog, Drawer, storeVars, Quiet, tables
  <2> HIDE DEF Settled
  <2> QED BY <2>0, <2>1, <2>2, <2>3, <2>4, <2>5, Steps
<1> QED BY <1>1, RowsAreTyped, PTL DEF Spec, ReversalIsFinal
--------------------------------------------------------------------------------
(* Authorizations. *)

Spent(n, action) == {t \in Tokens : tokens[t] = "spent" /\ t.order = n /\ t.action = action}
SpentBy(n, who) == {t \in Spent(n, "refund") : t.requester = who}
RefundsBy(n, who) == {j \in RefundsOf(n) : refunds[j].requester = who}
VoidsOf(n) == {i \in DOMAIN voids : voids[i].order = n}

(* A session spends a token for every row it writes, and a losing copy of a refund   *)
(* spends one for nothing: the tokens are at least as many as the rows.              *)
EachAuthorized ==
  /\ IsFiniteSet(SpentTokens)
  /\ \A n \in DOMAIN orders :
       /\ \A who : Cardinality(RefundsBy(n, who)) <= Cardinality(SpentBy(n, who))
       /\ Cardinality(VoidsOf(n)) <= Cardinality(Spent(n, "void"))

(* The sets that are counted are finite. *)
LEMMA AuthFinite ==
    ASSUME StoreTables, IsFiniteSet(SpentTokens), NEW n
    PROVE  /\ \A action : IsFiniteSet(Spent(n, action)) /\ Cardinality(Spent(n, action)) \in Nat
           /\ \A who : /\ IsFiniteSet(SpentBy(n, who)) /\ Cardinality(SpentBy(n, who)) \in Nat
                       /\ IsFiniteSet(RefundsBy(n, who)) /\ Cardinality(RefundsBy(n, who)) \in Nat
           /\ IsFiniteSet(VoidsOf(n)) /\ Cardinality(VoidsOf(n)) \in Nat
<1>1. \A action : IsFiniteSet(Spent(n, action))
  <2>1. \A action : Spent(n, action) \subseteq SpentTokens
    BY DEF Spent, SpentTokens
  <2> QED BY <2>1, FS_Subset
<1>2. \A who : IsFiniteSet(SpentBy(n, who))
  <2>1. \A who : SpentBy(n, who) \subseteq Spent(n, "refund")
    BY DEF SpentBy
  <2> QED BY <1>1, <2>1, FS_Subset
<1>3. \A who : IsFiniteSet(RefundsBy(n, who))
  <2>1. \A who : RefundsBy(n, who) \subseteq RefundsOf(n)
    BY DEF RefundsBy
  <2> QED BY <2>1, RefundSums, FS_Subset
<1>4. IsFiniteSet(VoidsOf(n))
  <2>1. DOMAIN voids = 1 .. Len(voids) /\ Len(voids) \in Nat
    BY DEF StoreTables
  <2>2. IsFiniteSet(DOMAIN voids)
    BY <2>1, FS_Interval
  <2> QED BY <2>2, FS_Subset DEF VoidsOf
<1> QED BY <1>1, <1>2, <1>3, <1>4, FS_CardinalityType

(* More spent tokens, and no more rows. *)
LEMMA MoreSpent ==
    ASSUME StoreTables, EachAuthorized, SpentTokens \subseteq SpentTokens', IsFiniteSet(SpentTokens'),
           tokens \in [Tokens -> TokenStates], NEW n \in DOMAIN orders
    PROVE  /\ \A action : Cardinality(Spent(n, action)) <= Cardinality(Spent(n, action)')
           /\ \A who : Cardinality(SpentBy(n, who)) <= Cardinality(SpentBy(n, who)')
<1>1. /\ \A action : /\ Spent(n, action) \subseteq Spent(n, action)'
                     /\ Spent(n, action)' \subseteq SpentTokens'
      /\ \A who : /\ SpentBy(n, who) \subseteq SpentBy(n, who)'
                  /\ SpentBy(n, who)' \subseteq SpentTokens'
  BY DEF Spent, SpentBy, SpentTokens
<1> QED BY <1>1, FS_Subset

LEMMA AuthKept == ASSUME Types, Types', EachAuthorized, [Next]_vars PROVE EachAuthorized'
<1>0. StoreTables /\ StoreTables' /\ DrawerTables /\ References
  BY DEF Types, DrawerInv
<1>1. ASSUME SpentTokens \subseteq SpentTokens', IsFiniteSet(SpentTokens'),
             UNCHANGED <<refunds, voids>>, DOMAIN orders' = DOMAIN orders
      PROVE  EachAuthorized'
  <2>1. ASSUME NEW n \in DOMAIN orders
        PROVE  /\ \A who : Cardinality(RefundsBy(n, who)') <= Cardinality(SpentBy(n, who)')
               /\ Cardinality(VoidsOf(n)') <= Cardinality(Spent(n, "void")')
    <3>1. /\ \A who : RefundsBy(n, who)' = RefundsBy(n, who)
          /\ VoidsOf(n)' = VoidsOf(n)
      BY <1>1 DEF RefundsBy, RefundsOf, VoidsOf
    <3>2. /\ \A action : Cardinality(Spent(n, action)) <= Cardinality(Spent(n, action)')
          /\ \A who : Cardinality(SpentBy(n, who)) <= Cardinality(SpentBy(n, who)')
      BY <1>0, <1>1, MoreSpent DEF StoreTables
    <3>3. IsFiniteSet(SpentTokens)
      BY DEF EachAuthorized
    <3>4. /\ \A action : Cardinality(Spent(n, action)) \in Nat /\ Cardinality(Spent(n, action)') \in Nat
          /\ \A who : /\ Cardinality(SpentBy(n, who)) \in Nat /\ Cardinality(SpentBy(n, who)') \in Nat
                      /\ Cardinality(RefundsBy(n, who)) \in Nat
          /\ Cardinality(VoidsOf(n)) \in Nat
      <4>1. /\ \A action : Cardinality(Spent(n, action)) \in Nat
            /\ \A who : Cardinality(SpentBy(n, who)) \in Nat /\ Cardinality(RefundsBy(n, who)) \in Nat
            /\ Cardinality(VoidsOf(n)) \in Nat
        BY <1>0, <3>3, AuthFinite
      <4>2. /\ \A action : Spent(n, action)' \subseteq SpentTokens'
            /\ \A who : SpentBy(n, who)' \subseteq SpentTokens'
        BY DEF Spent, SpentBy, SpentTokens
      <4> QED BY <1>1, <4>1, <4>2, FS_Subset, FS_CardinalityType
    <3>5. /\ \A who : Cardinality(RefundsBy(n, who)) <= Cardinality(SpentBy(n, who))
          /\ Cardinality(VoidsOf(n)) <= Cardinality(Spent(n, "void"))
      BY DEF EachAuthorized
    <3> QED BY <3>1, <3>2, <3>4, <3>5
  <2> QED BY <1>1, <2>1 DEF EachAuthorized
<1>2. ASSUME NEW s \in Sessions, NEW r \in CheckoutRequests, NEW k \in Nat \ {0},
             Sells(s, r, k), txn[s].request = r
      PROVE  EachAuthorized'
  <2>1. Added(orders, orders', OrderOf(r, k)) /\ UNCHANGED <<refunds, voids, tokens>>
    BY <1>2, SellsKeeps DEF Sells, CheckoutCommits
  <2>2. SpentTokens' = SpentTokens /\ IsFiniteSet(SpentTokens)
    BY <2>1 DEF SpentTokens, EachAuthorized
  <2>3. \A n : /\ \A who : RefundsBy(n, who)' = RefundsBy(n, who) /\ SpentBy(n, who)' = SpentBy(n, who)
               /\ VoidsOf(n)' = VoidsOf(n) /\ Spent(n, "void")' = Spent(n, "void")
    BY <2>1 DEF RefundsBy, RefundsOf, VoidsOf, Spent, SpentBy
  <2> DEFINE n == Len(orders) + 1
  <2>4. n \notin DOMAIN orders /\ DOMAIN orders' = DOMAIN orders \union {n}
    BY <2>1 DEF Added
  <2> HIDE DEF n
  <2>5. VoidsOf(n) = {} /\ \A who : RefundsBy(n, who) = {}
    BY <1>0, <2>4 DEF References, RefundsBy, RefundsOf, VoidsOf
  <2>6. /\ \A who : Cardinality(RefundsBy(n, who)) <= Cardinality(SpentBy(n, who))
        /\ Cardinality(VoidsOf(n)) <= Cardinality(Spent(n, "void"))
    <3>1. Cardinality({}) = 0
      BY FS_EmptySet
    <3>2. /\ \A who : Cardinality(SpentBy(n, who)) \in Nat
          /\ Cardinality(Spent(n, "void")) \in Nat
      BY <1>0, <2>2, AuthFinite
    <3> QED BY <2>5, <3>1, <3>2
  <2> QED BY <2>2, <2>3, <2>4, <2>6 DEF EachAuthorized
<1>3. ASSUME NEW s \in Sessions, NEW r \in RefundRequests, NEW t \in Tokens,
             Refunds(s, r, t), txn[s].request = r
      PROVE  EachAuthorized'
  <2>1. /\ Added(refunds, refunds', RefundOf(r, t)) /\ OrdersStay(r.order)
        /\ RefundOf(r, t).order = r.order /\ RefundOf(r, t).requester = r.requester
    BY <1>3, RefundsKeeps DEF RefundOf
  <2>2. /\ tokens' = [tokens EXCEPT ![t] = "spent"] /\ voids' = voids
        /\ tokens[t] = "granted" /\ t.order = r.order /\ t.action = "refund"
        /\ t.requester = r.requester
    BY <1>3 DEF Refunds, RefundCommits, Consume, Consumable
  <2>3. tokens \in [Tokens -> TokenStates]
    BY <1>0 DEF StoreTables
  <2>4. SpentTokens' = SpentTokens \union {t} /\ t \notin SpentTokens /\ IsFiniteSet(SpentTokens)
    BY <2>2, <2>3 DEF SpentTokens, EachAuthorized
  <2>5. IsFiniteSet(SpentTokens')
    BY <2>4, FS_AddElement
  <2>6. ASSUME NEW n \in DOMAIN orders
        PROVE  /\ \A who : Cardinality(RefundsBy(n, who)') <= Cardinality(SpentBy(n, who)')
               /\ Cardinality(VoidsOf(n)') <= Cardinality(Spent(n, "void")')
    <3> DEFINE i == Len(refunds) + 1
    <3>1. /\ \A who : Cardinality(RefundsBy(n, who)) <= Cardinality(SpentBy(n, who))
          /\ Cardinality(VoidsOf(n)) <= Cardinality(Spent(n, "void"))
      BY DEF EachAuthorized
    <3>2. /\ \A who : /\ IsFiniteSet(SpentBy(n, who)) /\ Cardinality(SpentBy(n, who)) \in Nat
                      /\ IsFiniteSet(RefundsBy(n, who)) /\ Cardinality(RefundsBy(n, who)) \in Nat
          /\ Cardinality(VoidsOf(n)) \in Nat
      BY <1>0, <2>4, AuthFinite
    <3>3. VoidsOf(n)' = VoidsOf(n) /\ Spent(n, "void")' = Spent(n, "void")
      BY <2>2, <2>3 DEF VoidsOf, Spent
    <3>4. /\ r.order # n => RefundsOf(n)' = RefundsOf(n)
          /\ r.order = n => RefundsOf(n)' = RefundsOf(n) \union {i} /\ i \notin RefundsOf(n)
      BY <1>0, <2>1, RefundAdds
    <3>5. (\A j \in RefundsOf(n) : refunds'[j] = refunds[j]) /\ refunds'[i] = RefundOf(r, t)
      BY <2>1 DEF Added, RefundsOf
    <3> HIDE DEF i
    <3>6. ASSUME NEW who, ~(n = r.order /\ who = r.requester)
          PROVE  Cardinality(RefundsBy(n, who)') <= Cardinality(SpentBy(n, who)')
      <4>1. RefundsBy(n, who)' = RefundsBy(n, who)
        BY <2>1, <3>4, <3>5, <3>6 DEF RefundsBy
      <4>2. SpentBy(n, who)' = SpentBy(n, who)
        BY <2>2, <2>3, <3>6 DEF SpentBy, Spent
      <4> QED BY <3>1, <4>1, <4>2
    <3>7. ASSUME NEW who, n = r.order, who = r.requester
          PROVE  Cardinality(RefundsBy(n, who)') <= Cardinality(SpentBy(n, who)')
      <4>1. RefundsBy(n, who)' = RefundsBy(n, who) \union {i} /\ i \notin RefundsBy(n, who)
        BY <2>1, <3>4, <3>5, <3>7 DEF RefundsBy
      <4>2. SpentBy(n, who)' = SpentBy(n, who) \union {t} /\ t \notin SpentBy(n, who)
        BY <2>2, <2>3, <3>7 DEF SpentBy, Spent
      <4>3. /\ Cardinality(RefundsBy(n, who) \union {i}) = Cardinality(RefundsBy(n, who)) + 1
            /\ Cardinality(SpentBy(n, who) \union {t}) = Cardinality(SpentBy(n, who)) + 1
        BY <3>2, <4>1, <4>2, FS_AddElement
      <4> QED BY <3>1, <3>2, <4>1, <4>2, <4>3
    <3> QED BY <3>1, <3>3, <3>6, <3>7
  <2> QED BY <2>1, <2>5, <2>6 DEF EachAuthorized, OrdersStay
<1>4. ASSUME NEW r \in VoidRequests, VoidOrder(r) PROVE EachAuthorized'
  <2>1. /\ Added(voids, voids', [key |-> r.key, order |-> r.order]) /\ OrdersStay(r.order)
        /\ refunds' = refunds
    BY <1>4, VoidKeeps DEF VoidOrder
  <2>2. PICK t \in Tokens : /\ tokens' = [tokens EXCEPT ![t] = "spent"]
                            /\ tokens[t] = "granted" /\ t.order = r.order /\ t.action = "void"
    BY <1>4 DEF VoidOrder, Consume, Consumable
  <2>3. tokens \in [Tokens -> TokenStates]
    BY <1>0 DEF StoreTables
  <2>4. SpentTokens' = SpentTokens \union {t} /\ t \notin SpentTokens /\ IsFiniteSet(SpentTokens)
    BY <2>2, <2>3 DEF SpentTokens, EachAuthorized
  <2>5. IsFiniteSet(SpentTokens')
    BY <2>4, FS_AddElement
  <2>6. ASSUME NEW n \in DOMAIN orders
        PROVE  /\ \A who : Cardinality(RefundsBy(n, who)') <= Cardinality(SpentBy(n, who)')
               /\ Cardinality(VoidsOf(n)') <= Cardinality(Spent(n, "void")')
    <3> DEFINE i == Len(voids) + 1
    <3>1. /\ \A who : Cardinality(RefundsBy(n, who)) <= Cardinality(SpentBy(n, who))
          /\ Cardinality(VoidsOf(n)) <= Cardinality(Spent(n, "void"))
      BY DEF EachAuthorized
    <3>2. /\ \A action : IsFiniteSet(Spent(n, action)) /\ Cardinality(Spent(n, action)) \in Nat
          /\ IsFiniteSet(VoidsOf(n)) /\ Cardinality(VoidsOf(n)) \in Nat
      BY <1>0, <2>4, AuthFinite
    <3>3. \A who : RefundsBy(n, who)' = RefundsBy(n, who) /\ SpentBy(n, who)' = SpentBy(n, who)
      BY <2>1, <2>2, <2>3 DEF RefundsBy, RefundsOf, SpentBy, Spent
    <3>4. /\ DOMAIN voids' = DOMAIN voids \union {i} /\ i \notin DOMAIN voids
          /\ \A j \in DOMAIN voids : voids'[j] = voids[j]
          /\ voids'[i].order = r.order
      BY <2>1 DEF Added
    <3> HIDE DEF i
    <3>5. CASE n # r.order
      <4>1. VoidsOf(n)' = VoidsOf(n) /\ Spent(n, "void")' = Spent(n, "void")
        BY <2>2, <2>3, <3>4, <3>5 DEF VoidsOf, Spent
      <4> QED BY <3>1, <3>3, <4>1
    <3>6. CASE n = r.order
      <4>1. VoidsOf(n)' = VoidsOf(n) \union {i} /\ i \notin VoidsOf(n)
        BY <3>4, <3>6 DEF VoidsOf
      <4>2. Spent(n, "void")' = Spent(n, "void") \union {t} /\ t \notin Spent(n, "void")
        BY <2>2, <2>3, <3>6 DEF Spent
      <4>3. /\ Cardinality(VoidsOf(n) \union {i}) = Cardinality(VoidsOf(n)) + 1
            /\ Cardinality(Spent(n, "void") \union {t}) = Cardinality(Spent(n, "void")) + 1
        BY <3>2, <4>1, <4>2, FS_AddElement
      <4>4. Cardinality(VoidsOf(n)') <= Cardinality(Spent(n, "void")')
        BY <3>1, <3>2, <4>1, <4>2, <4>3
      <4> QED BY <3>1, <3>3, <4>4
    <3> QED BY <3>5, <3>6
  <2> QED BY <2>1, <2>5, <2>6 DEF EachAuthorized, OrdersStay
<1>5. ASSUME Quiet PROVE EachAuthorized'
  <2>1. /\ SpentTokens \subseteq SpentTokens' /\ IsFiniteSet(SpentTokens')
        /\ UNCHANGED <<refunds, voids>> /\ DOMAIN orders' = DOMAIN orders
    BY <1>5 DEF Quiet, tables, EachAuthorized
  <2> QED BY <1>1, <2>1
<1>6. ASSUME UNCHANGED <<orders, refunds, voids, tokens>> PROVE EachAuthorized'
  <2>1. /\ SpentTokens' = SpentTokens
        /\ \A n : /\ \A action : Spent(n, action)' = Spent(n, action)
                  /\ \A who : RefundsBy(n, who)' = RefundsBy(n, who) /\ SpentBy(n, who)' = SpentBy(n, who)
                  /\ VoidsOf(n)' = VoidsOf(n)
    BY <1>6 DEF SpentTokens, Spent, SpentBy, RefundsBy, RefundsOf, VoidsOf
  <2> QED BY <1>6, <2>1 DEF EachAuthorized
<1>7. (\E s \in Sessions, r \in AdjustRequests : Adjusts(s, r))
        \/ (\E r \in ImportRequests : ImportCatalog(r)) \/ Drawer
      => UNCHANGED <<orders, refunds, voids, tokens>>
  BY DEF Adjusts, ImportCatalog, Drawer, storeVars
<1> QED BY <1>0, <1>2, <1>3, <1>4, <1>5, <1>6, <1>7, Steps

(* Every refund and every void consumed an authorization of its own, for its order   *)
(* and, of a refund, for its requester: a token is never spent twice.               *)
THEOREM ReversalsAreAuthorized == Spec => []ReversalsAuthorized
<1>1. Init => EachAuthorized
  <2> SUFFICES ASSUME Init PROVE EachAuthorized
    OBVIOUS
  <2>1. SpentTokens = {} /\ DOMAIN orders = {}
    BY DEF Init, SpentTokens
  <2> QED BY <2>1, FS_EmptySet DEF EachAuthorized
<1>2. EachAuthorized => ReversalsAuthorized
  BY DEF EachAuthorized, ReversalsAuthorized, Spent, SpentBy, RefundsBy, VoidsOf
<1> QED BY <1>1, <1>2, AuthKept, RowsAreTyped, PTL DEF Spec
--------------------------------------------------------------------------------
(* What refunds give back, and what is left. *)

LEMMA RoundIsInt == ASSUME NEW a \in Nat, NEW b \in Nat \ {0} PROVE RoundDivide(a, b) \in Nat
<1>1. b \div 2 \in Nat
  OBVIOUS
<1>2. \A c \in Nat : c \div b \in Nat
  OBVIOUS
<1> QED BY <1>1, <1>2 DEF RoundDivide

(* Half of a quantity is less than the quantity: nothing is worth nothing. *)
LEMMA RoundOfNothing == ASSUME NEW b \in Nat \ {0} PROVE RoundDivide(0, b) = 0
<1>1. b \div 2 \in Nat /\ b \div 2 < b
  OBVIOUS
<1>2. \A c \in Nat : c < b => c \div b = 0
  OBVIOUS
<1> QED BY <1>1, <1>2 DEF RoundDivide

LEMMA Shares ==
    ASSUME NEW line \in Lines
    PROVE  /\ \A k \in Nat : Share(line, k) \in Nat
           /\ Share(line, 0) = 0
<1>1. line.qty \in Nat \ {0} /\ line.total \in Nat
  BY DEF Lines
<1>2. ASSUME NEW k \in Nat PROVE Share(line, k) \in Nat
  <2>1. line.total * k \in Nat
    BY <1>1
  <2> QED BY <1>1, <2>1, RoundIsInt DEF Share
<1>3. Share(line, 0) = 0
  BY <1>1, RoundOfNothing DEF Share
<1> QED BY <1>2, <1>3

(* The balance of one order. *)
Balanced(n) ==
  /\ RefundedAmount(n) <= TotalOf(orders[n])
  /\ \A p \in DOMAIN orders[n].lines : RefundedQuantity(n, p) <= orders[n].lines[p].qty
  /\ ReturnedValue(n) <= RefundedAmount(n)
  /\ orders[n].status # "voided" =>
       (orders[n].status = "refunded" <=>
          RefundsOf(n) # {} /\ RefundedAmount(n) = TotalOf(orders[n]))

AllBalanced == \A n \in DOMAIN orders : Balanced(n)

(* An order without refunds is balanced when it is not marked as refunded. *)
NewBalanced ==
  \A n \in DOMAIN orders : RefundsOf(n) = {} /\ orders[n].status # "refunded" => Balanced(n)

LEMMA NewAreBalanced == StoreTables => NewBalanced
<1> SUFFICES ASSUME StoreTables, NEW n \in DOMAIN orders,
                    RefundsOf(n) = {}, orders[n].status # "refunded"
             PROVE  Balanced(n)
  BY DEF NewBalanced
<1>1. orders[n].lines \in Carts
  <2>1. orders[n] \in OrderRow
    BY DEF StoreTables
  <2> QED BY <2>1 DEF OrderRow
<1>2. /\ RefundedAmount(n) = 0 /\ \A p : RefundedQuantity(n, p) = 0
  BY RefundSums
<1>3. TotalOf(orders[n]) \in Nat
  BY <1>1, TotalIsNat
<1>4. IsFiniteSet(DOMAIN orders[n].lines) /\ \A p \in DOMAIN orders[n].lines : orders[n].lines[p] \in Lines
  BY <1>1 DEF Carts
<1>5. ReturnedValue(n) = 0
  <2> DEFINE S == DOMAIN orders[n].lines
             f == [p \in S |-> Share(orders[n].lines[p], RefundedQuantity(n, p))]
  <2>1. \A p \in S : f[p] = 0
    BY <1>2, <1>4, Shares
  <2>2. ReturnedValue(n) = SumFunctionOnSet(f, S)
    BY DEF ReturnedValue, SumFunction
  <2> HIDE DEF f
  <2> QED BY <1>4, <2>1, <2>2, SumZero
<1>6. \A p \in DOMAIN orders[n].lines : orders[n].lines[p].qty \in Nat
  BY <1>4 DEF Lines
<1> QED BY <1>2, <1>3, <1>5, <1>6 DEF Balanced

(* The balance of an order is about its lines, its status and its refunds. *)
LEMMA BalancedStays ==
    ASSUME NEW n, Balanced(n), refunds' = refunds,
           orders'[n].lines = orders[n].lines,
           orders'[n].status = orders[n].status \/ orders'[n].status = "voided"
    PROVE  Balanced(n)'
<1>1. /\ RefundsOf(n)' = RefundsOf(n) /\ RefundedAmount(n)' = RefundedAmount(n)
      /\ \A p : RefundedQuantity(n, p)' = RefundedQuantity(n, p)
  BY RefundsSame
<1>2. ReturnedValue(n)' = ReturnedValue(n)
  BY <1>1 DEF ReturnedValue
<1>3. TotalOf(orders'[n]) = TotalOf(orders[n])
  BY TotalSame
<1> QED BY <1>1, <1>2, <1>3 DEF Balanced

(* What a refund's items are worth is what they add to the value that is returned. *)
LEMMA ValueAdds ==
    ASSUME StoreTables, StoreTables', NEW row, Added(refunds, refunds', row),
           row.order \in DOMAIN orders, DOMAIN row.items \subseteq DOMAIN orders[row.order].lines,
           orders'[row.order].lines = orders[row.order].lines
    PROVE  /\ ReturnedValue(row.order)' = ReturnedValue(row.order) + RestockValue(row.order, row.items)
           /\ ReturnedValue(row.order) \in Int /\ RestockValue(row.order, row.items) \in Int
<1> DEFINE n == row.order
           lines == orders[n].lines
           S == DOMAIN lines
           T == DOMAIN row.items
           f == [p \in S |-> Share(lines[p], RefundedQuantity(n, p))]
           g == [p \in S |-> Share(lines[p], RefundedQuantity(n, p)')]
           h == [p \in T |-> Allocation(n, p, row.items[p])]
<1>1. IsFiniteSet(S) /\ \A p \in S : lines[p] \in Lines
  <2>1. orders[n] \in OrderRow
    BY DEF StoreTables
  <2> QED BY <2>1 DEF OrderRow, Carts
<1>2. row.items \in Items /\ \A p \in T : row.items[p] \in Nat
  <2>1. refunds'[Len(refunds) + 1] = row /\ Len(refunds) + 1 \in DOMAIN refunds'
    BY DEF Added
  <2>2. row \in RefundRow
    BY <2>1 DEF StoreTables
  <2> QED BY <2>2 DEF RefundRow, Items
<1>3. \A p : RefundedQuantity(n, p) \in Nat
  BY RefundSums
<1>4. \A p \in S : RefundedQuantity(n, p)' = RefundedQuantity(n, p) + IF p \in T THEN row.items[p] ELSE 0
  BY RefundAdds DEF QuantityIn
<1>5. /\ \A p \in S : f[p] \in Int
      /\ \A p \in T : h[p] \in Int /\ h[p] = Share(lines[p], RefundedQuantity(n, p) + row.items[p])
                                               - Share(lines[p], RefundedQuantity(n, p))
  <2>1. \A p \in S : \A k \in Nat : Share(lines[p], k) \in Nat
    BY <1>1, Shares
  <2>2. \A p \in T : p \in S /\ RefundedQuantity(n, p) + row.items[p] \in Nat
    BY <1>2, <1>3
  <2> QED BY <1>3, <2>1, <2>2 DEF Allocation
<1>6. \A p \in S : g[p] = IF p \in T THEN f[p] + h[p] ELSE f[p]
  <2>1. \A p \in S : \A k \in Nat : Share(lines[p], k) \in Nat
    BY <1>1, Shares
  <2>2. \A p \in T : RefundedQuantity(n, p) + row.items[p] \in Nat
    BY <1>2, <1>3
  <2>3. ASSUME NEW p \in S, p \in T PROVE g[p] = f[p] + h[p]
    <3>1. g[p] = Share(lines[p], RefundedQuantity(n, p) + row.items[p])
      BY <1>4, <2>3
    <3>2. f[p] = Share(lines[p], RefundedQuantity(n, p))
      OBVIOUS
    <3>3. f[p] \in Nat /\ g[p] \in Nat
      BY <1>3, <2>1, <2>2, <2>3, <3>1
    <3>4. h[p] = g[p] - f[p]
      BY <1>5, <2>3, <3>1, <3>2
    <3> HIDE DEF f, g, h
    <3> QED BY <3>3, <3>4
  <2>4. ASSUME NEW p \in S, p \notin T PROVE g[p] = f[p]
    <3>1. RefundedQuantity(n, p)' = RefundedQuantity(n, p)
      BY <1>3, <1>4, <2>4
    <3> QED BY <3>1
  <2> HIDE DEF f, g, h
  <2> QED BY <2>3, <2>4
<1>7. /\ ReturnedValue(n) = SumFunctionOnSet(f, S)
      /\ RestockValue(n, row.items) = SumFunctionOnSet(h, T)
  BY DEF ReturnedValue, RestockValue, SumFunction
<1>8. ReturnedValue(n)' = SumFunctionOnSet(g, S)
  BY DEF ReturnedValue, SumFunction
<1>9. T \subseteq S /\ IsFiniteSet(T)
  BY <1>1, FS_Subset
<1> HIDE DEF f, g, h
<1>10. SumFunctionOnSet(g, S) = SumFunctionOnSet(f, S) + SumFunctionOnSet(h, T)
  <2> HIDE DEF S, T
  <2> QED BY <1>1, <1>5, <1>6, <1>9, SumPlus
<1>11. SumFunctionOnSet(f, S) \in Int /\ SumFunctionOnSet(h, T) \in Int
  <2> HIDE DEF S, T
  <2> QED BY <1>1, <1>5, <1>9, SumInt
<1> QED BY <1>7, <1>8, <1>10, <1>11

LEMMA BalanceKept == ASSUME Types, Types', AllBalanced, [Next]_vars PROVE AllBalanced'
<1>0. StoreTables /\ StoreTables' /\ DrawerTables /\ References
  BY DEF Types, DrawerInv
<1>6. NewBalanced'
  BY <1>0, NewAreBalanced, PTL
<1>1. ASSUME NEW s \in Sessions, NEW r \in CheckoutRequests, NEW k \in Nat \ {0},
             Sells(s, r, k), txn[s].request = r
      PROVE  AllBalanced'
  <2> PICK m : m = Len(orders) + 1
    OBVIOUS
  <2>1. Added(orders, orders', OrderOf(r, k)) /\ refunds' = refunds
        /\ OrderOf(r, k).status = "server_confirmed"
    BY <1>1, SellsKeeps DEF Sells, CheckoutCommits, OrderOf
  <2>2. /\ DOMAIN orders' = DOMAIN orders \union {m} /\ m \notin DOMAIN orders
        /\ \A n \in DOMAIN orders : orders'[n] = orders[n]
        /\ orders'[m] = OrderOf(r, k)
    BY <2>1 DEF Added
  <2>3. ASSUME NEW n \in DOMAIN orders PROVE Balanced(n)'
    BY <2>1, <2>2, BalancedStays DEF AllBalanced
  <2>4. Balanced(m)'
    <3>1. \A i \in DOMAIN refunds : refunds[i].order \in DOMAIN orders
      BY <1>0 DEF References
    <3>2. RefundsOf(m)' = {}
      BY <2>1, <2>2, <3>1 DEF RefundsOf
    <3>3. m \in DOMAIN orders' /\ orders'[m].status # "refunded"
      BY <2>1, <2>2
    <3> QED BY <1>6, <3>2, <3>3 DEF NewBalanced
  <2> QED BY <2>2, <2>3, <2>4 DEF AllBalanced
<1>2. ASSUME NEW s \in Sessions, NEW r \in RefundRequests, NEW t \in Tokens,
             Refunds(s, r, t), txn[s].request = r
      PROVE  AllBalanced'
  <2> DEFINE row == RefundOf(r, t)
             k == r.order
  <2>1. /\ Added(refunds, refunds', row) /\ OrdersStay(k) /\ k \in DOMAIN orders
        /\ orders[k].status = "server_confirmed" /\ orders'[k].status = StatusAfter(r)
        /\ row.order = k /\ row.amount = r.amount /\ row.items = r.items
        /\ r.amount \in Nat \ {0} /\ r.items \in Items
    BY <1>2, RefundsKeeps DEF RefundOf
  <2>2. /\ RefundedAmount(k) + r.amount <= TotalOf(orders[k])
        /\ \A p \in DOMAIN r.items : /\ p \in DOMAIN orders[k].lines
                                     /\ RefundedQuantity(k, p) + r.items[p] <= orders[k].lines[p].qty
        /\ RestockValue(k, r.items) <= r.amount
    BY <1>2 DEF Refunds, Refundable, WithinBalance, RefundCommits, Restockable
  <2> HIDE DEF row
  <2>3. ASSUME NEW n \in DOMAIN orders, n # k PROVE Balanced(n)'
    <3>1. /\ RefundsOf(n)' = RefundsOf(n)
          /\ RefundedAmount(n)' = RefundedAmount(n) + 0
          /\ \A p : RefundedQuantity(n, p)' = RefundedQuantity(n, p) + 0
      BY <1>0, <2>1, <2>3, RefundAdds
    <3>2. /\ RefundedAmount(n)' = RefundedAmount(n)
          /\ \A p : RefundedQuantity(n, p)' = RefundedQuantity(n, p)
      BY <1>0, <3>1, RefundSums
    <3>3. orders'[n] = orders[n]
      BY <2>1, <2>3 DEF OrdersStay
    <3>4. ReturnedValue(n)' = ReturnedValue(n)
      BY <3>2, <3>3 DEF ReturnedValue
    <3>5. Balanced(n)
      BY DEF AllBalanced
    <3> QED BY <3>1, <3>2, <3>3, <3>4, <3>5 DEF Balanced
  <2>4. Balanced(k)'
    <3>1. Balanced(k) /\ TotalOf(orders'[k]) = TotalOf(orders[k]) /\ orders'[k].lines = orders[k].lines
      BY <2>1 DEF AllBalanced, OrdersStay
    <3>2. /\ RefundsOf(k)' # {}
          /\ RefundedAmount(k)' = RefundedAmount(k) + r.amount
          /\ \A p : RefundedQuantity(k, p)' = RefundedQuantity(k, p) + QuantityIn(r.items, p)
      <4>1. /\ row.order = k => RefundsOf(k)' = RefundsOf(k) \union {Len(refunds) + 1}
            /\ RefundedAmount(k)' = RefundedAmount(k) + IF row.order = k THEN row.amount ELSE 0
            /\ \A p : RefundedQuantity(k, p)' =
                        RefundedQuantity(k, p) + IF row.order = k THEN QuantityIn(row.items, p) ELSE 0
        <5> HIDE DEF k
        <5> QED BY <1>0, <2>1, RefundAdds
      <4>2. RefundsOf(k)' # {}
        BY <2>1, <4>1
      <4> QED BY <2>1, <4>1, <4>2
    <3>3. RefundedAmount(k) \in Nat /\ \A p : RefundedQuantity(k, p) \in Nat
      BY <1>0, RefundSums
    <3>4. RefundedAmount(k)' <= TotalOf(orders'[k])
      BY <2>2, <3>1, <3>2
    <3>5. ASSUME NEW p \in DOMAIN orders[k].lines
          PROVE  RefundedQuantity(k, p)' <= orders[k].lines[p].qty
      <4>1. RefundedQuantity(k, p) <= orders[k].lines[p].qty
        BY <3>1 DEF Balanced
      <4>2. RefundedQuantity(k, p)' = RefundedQuantity(k, p) + QuantityIn(r.items, p)
        BY <3>2
      <4>3. CASE p \in DOMAIN r.items
        BY <2>2, <4>2, <4>3 DEF QuantityIn
      <4>4. CASE p \notin DOMAIN r.items
        BY <3>3, <4>1, <4>2, <4>4 DEF QuantityIn
      <4> QED BY <4>3, <4>4
    <3>6. ReturnedValue(k)' <= RefundedAmount(k)'
      <4>1. /\ ReturnedValue(k)' = ReturnedValue(k) + RestockValue(k, r.items)
            /\ ReturnedValue(k) \in Int /\ RestockValue(k, r.items) \in Int
        BY <1>0, <2>1, <2>2, <3>1, ValueAdds
      <4>2. ReturnedValue(k) <= RefundedAmount(k)
        BY <3>1 DEF Balanced
      <4> QED BY <2>1, <2>2, <3>2, <3>3, <4>1, <4>2
    <3>7. orders'[k].status = "refunded" <=> RefundedAmount(k)' = TotalOf(orders'[k])
      BY <2>1, <3>1, <3>2 DEF StatusAfter
    <3> QED BY <3>1, <3>2, <3>4, <3>5, <3>6, <3>7 DEF Balanced
  <2> QED BY <2>1, <2>3, <2>4 DEF AllBalanced, OrdersStay
<1>3. ASSUME NEW r \in VoidRequests, VoidOrder(r) PROVE AllBalanced'
  <2>1. OrdersStay(r.order) /\ r.order \in DOMAIN orders /\ orders'[r.order].status = "voided"
        /\ refunds' = refunds
    BY <1>3, VoidKeeps DEF VoidOrder
  <2>2. ASSUME NEW n \in DOMAIN orders PROVE Balanced(n)'
    <3>1. Balanced(n)
      BY DEF AllBalanced
    <3>2. orders'[n].lines = orders[n].lines
      BY <2>1 DEF OrdersStay
    <3>3. orders'[n].status = orders[n].status \/ orders'[n].status = "voided"
      BY <2>1 DEF OrdersStay
    <3> QED BY <2>1, <3>1, <3>2, <3>3, BalancedStays
  <2> QED BY <2>1, <2>2 DEF AllBalanced, OrdersStay
<1>4. ASSUME UNCHANGED <<orders, refunds>> PROVE AllBalanced'
  <2>1. ASSUME NEW n \in DOMAIN orders PROVE Balanced(n)'
    BY <1>4, BalancedStays DEF AllBalanced
  <2> QED BY <1>4, <2>1 DEF AllBalanced
<1>5. (\E s \in Sessions, r \in AdjustRequests : Adjusts(s, r))
        \/ (\E r \in ImportRequests : ImportCatalog(r)) \/ Drawer \/ Quiet
      => UNCHANGED <<orders, refunds>>
  BY DEF Adjusts, ImportCatalog, Drawer, storeVars, Quiet, tables
<1> QED BY <1>0, <1>1, <1>2, <1>3, <1>4, <1>5, Steps

(* The refunds of an order never exceed what was paid for it, line by line and in    *)
(* all, never hand out goods worth more than the money, and the order is marked as   *)
(* refunded exactly when nothing is left.                                            *)
THEOREM RefundsStayWithinPayment == Spec => []RefundsWithinPayment
<1>1. Init => AllBalanced
  BY DEF Init, AllBalanced
<1>2. Types /\ AllBalanced => RefundsWithinPayment
  <2> SUFFICES ASSUME References, AllBalanced, NEW n \in DOMAIN orders
               PROVE  /\ RefundedAmount(n) <= orders[n].cash + orders[n].card
                      /\ \A p \in DOMAIN orders[n].lines :
                           RefundedQuantity(n, p) <= orders[n].lines[p].qty
                      /\ ReturnedValue(n) <= RefundedAmount(n)
                      /\ orders[n].status # "voided" =>
                           (orders[n].status = "refunded" <=>
                              RefundsOf(n) # {} /\ RefundedAmount(n) = TotalOf(orders[n]))
    BY DEF Types, RefundsWithinPayment
  <2>1. Balanced(n) /\ orders[n].cash + orders[n].card = TotalOf(orders[n])
    BY DEF AllBalanced, References
  <2> QED BY <2>1 DEF Balanced
<1> QED BY <1>1, <1>2, BalanceKept, RowsAreTyped, PTL DEF Spec
--------------------------------------------------------------------------------
(* The cash that the tables say a shift has. *)

LEMMA Domains ==
    ASSUME StoreTables, DrawerTables
    PROVE  /\ IsFiniteSet(DOMAIN orders) /\ IsFiniteSet(DOMAIN refunds) /\ IsFiniteSet(DOMAIN voids)
           /\ IsFiniteSet(DOMAIN adjustments) /\ IsFiniteSet(DOMAIN imports)
           /\ IsFiniteSet(DOMAIN moves)
           /\ \A n \in DOMAIN orders : orders[n] \in OrderRow
           /\ \A i \in DOMAIN refunds : refunds[i] \in RefundRow
           /\ \A i \in DOMAIN voids : voids[i] \in VoidRow
           /\ \A i \in DOMAIN adjustments : adjustments[i] \in AdjustmentRow
           /\ \A i \in DOMAIN imports : imports[i] \in ImportRow
           /\ \A i \in DOMAIN moves : moves[i] \in MoveRow
<1>1. /\ orders \in Seq(OrderRow) /\ refunds \in Seq(RefundRow) /\ voids \in Seq(VoidRow)
      /\ adjustments \in Seq(AdjustmentRow) /\ imports \in Seq(ImportRow) /\ moves \in Seq(MoveRow)
  BY DEF StoreTables, DrawerTables
<1>2. \A T : \A table \in Seq(T) : IsFiniteSet(DOMAIN table) /\ \A i \in DOMAIN table : table[i] \in T
  <2>1. ASSUME NEW T, NEW table \in Seq(T) PROVE IsFiniteSet(DOMAIN table)
    <3>1. DOMAIN table = 1 .. Len(table) /\ Len(table) \in Nat
      OBVIOUS
    <3> QED BY <3>1, FS_Interval
  <2>2. ASSUME NEW T, NEW table \in Seq(T) PROVE \A i \in DOMAIN table : table[i] \in T
    OBVIOUS
  <2> QED BY <2>1, <2>2
<1> QED BY <1>1, <1>2

(* A row of the cash movements by its effect on the drawer. *)
Signed(row) == IF row.type \in Outflows THEN -row.amount ELSE row.amount

LEMMA MovesAdd ==
    ASSUME StoreTables, DrawerTables, DrawerTables', NEW row, Added(moves, moves', row), NEW n
    PROVE  /\ Expected(n) \in Int /\ ManualCash(n) \in Int /\ Signed(row) \in Int
           /\ Expected(n)' = Expected(n) + IF row.shift = n THEN Signed(row) ELSE 0
           /\ ManualCash(n)' =
                ManualCash(n) + IF row.shift = n /\ row.type \in ManualTypes THEN Signed(row) ELSE 0
<1> DEFINE f == [i \in DOMAIN moves |-> SignedAmount(i)]
           g == [i \in DOMAIN moves' |-> SignedAmount(i)']
           S == MovesOf(n)
           M == {i \in S : moves[i].type \in ManualTypes}
<1>1. PICK x : /\ DOMAIN moves' = DOMAIN moves \union {x} /\ x \notin DOMAIN moves
               /\ \A i \in DOMAIN moves : moves'[i] = moves[i]
               /\ moves'[x] = row
  BY DEF Added
<1>2. IsFiniteSet(DOMAIN moves) /\ \A i \in DOMAIN moves : moves[i] \in MoveRow
  BY Domains
<1>3. row \in MoveRow
  <2>1. \A i \in DOMAIN moves' : moves'[i] \in MoveRow
    BY DEF DrawerTables
  <2> QED BY <1>1, <2>1
<1>4. \A q \in MoveRow : Signed(q) \in Int
  BY DEF MoveRow, Signed
<1>5. /\ \A i \in DOMAIN moves : f[i] = Signed(moves[i])
      /\ \A i \in DOMAIN moves' : g[i] = Signed(moves'[i])
  BY DEF SignedAmount, Signed
<1>6. /\ \A i \in DOMAIN moves : g[i] = f[i] /\ g[i] \in Int
      /\ g[x] = Signed(row) /\ g[x] \in Int
  BY <1>1, <1>2, <1>3, <1>4, <1>5
<1>7. S \subseteq DOMAIN moves /\ IsFiniteSet(S) /\ M \subseteq DOMAIN moves /\ IsFiniteSet(M)
  BY <1>2, FS_Subset DEF MovesOf
<1>8. /\ Expected(n) = SumFunctionOnSet(f, S) /\ Expected(n)' = SumFunctionOnSet(g, S')
      /\ ManualCash(n) = SumFunctionOnSet(f, M) /\ ManualCash(n)' = SumFunctionOnSet(g, M')
  BY DEF Expected, ManualCash
<1>9. /\ S' = (IF row.shift = n THEN S \union {x} ELSE S)
      /\ M' = (IF row.shift = n /\ row.type \in ManualTypes THEN M \union {x} ELSE M)
      /\ x \notin S /\ x \notin M
  BY <1>1 DEF MovesOf
<1> PICK U, V : U = S' /\ V = M'
  OBVIOUS
<1> HIDE DEF f, g, S, M
<1>10. /\ SumFunctionOnSet(f, S) \in Int
       /\ SumFunctionOnSet(g, U) = SumFunctionOnSet(f, S) + IF x \in U THEN g[x] ELSE 0
  <2>1. U = S \/ (U = S \union {x} /\ g[x] \in Int)
    BY <1>6, <1>9
  <2>2. IsFiniteSet(S) /\ x \notin S
        /\ \A y \in S : g[y] = f[y] /\ g[y] \in Int
    BY <1>6, <1>7, <1>9
  <2>3. SumFunctionOnSet(f, S) \in Int
    BY <2>2, SumInt
  <2>4. SumFunctionOnSet(g, S) = SumFunctionOnSet(f, S)
    BY <2>2, SumSame
  <2>5. x \in U => SumFunctionOnSet(g, S \union {x}) = SumFunctionOnSet(f, S) + g[x]
    BY <2>1, <2>2, SumGrows
  <2>6. CASE U = S
    <3>1. SumFunctionOnSet(g, U) = SumFunctionOnSet(f, S) /\ x \notin U
      BY <2>2, <2>4, <2>6
    <3> QED BY <2>3, <3>1
  <2>7. CASE U = S \union {x}
    <3>1. SumFunctionOnSet(g, U) = SumFunctionOnSet(f, S) + g[x] /\ x \in U
      BY <2>5, <2>7
    <3> QED BY <2>3, <3>1
  <2> QED BY <2>1, <2>6, <2>7
<1>11. /\ SumFunctionOnSet(f, M) \in Int
       /\ SumFunctionOnSet(g, V) = SumFunctionOnSet(f, M) + IF x \in V THEN g[x] ELSE 0
  <2>1. V = M \/ (V = M \union {x} /\ g[x] \in Int)
    BY <1>6, <1>9
  <2>2. IsFiniteSet(M) /\ x \notin M
        /\ \A y \in M : g[y] = f[y] /\ g[y] \in Int
    BY <1>6, <1>7, <1>9
  <2>3. SumFunctionOnSet(f, M) \in Int
    BY <2>2, SumInt
  <2>4. SumFunctionOnSet(g, M) = SumFunctionOnSet(f, M)
    BY <2>2, SumSame
  <2>5. x \in V => SumFunctionOnSet(g, M \union {x}) = SumFunctionOnSet(f, M) + g[x]
    BY <2>1, <2>2, SumGrows
  <2>6. CASE V = M
    <3>1. SumFunctionOnSet(g, V) = SumFunctionOnSet(f, M) /\ x \notin V
      BY <2>2, <2>4, <2>6
    <3> QED BY <2>3, <3>1
  <2>7. CASE V = M \union {x}
    <3>1. SumFunctionOnSet(g, V) = SumFunctionOnSet(f, M) + g[x] /\ x \in V
      BY <2>5, <2>7
    <3> QED BY <2>3, <3>1
  <2> QED BY <2>1, <2>6, <2>7
<1>12. /\ x \in U <=> row.shift = n
       /\ x \in V <=> row.shift = n /\ row.type \in ManualTypes
  BY <1>9
<1> QED BY <1>3, <1>4, <1>6, <1>8, <1>10, <1>11, <1>12

(* Orders stay, or one is added. *)
OrdersKept ==
  /\ \A n \in DOMAIN orders : n \in DOMAIN orders' /\ orders'[n].shift = orders[n].shift
                              /\ orders'[n].cash = orders[n].cash
                              /\ orders'[n].lines = orders[n].lines
                              /\ TotalOf(orders'[n]) = TotalOf(orders[n])

LEMMA CashAmounts ==
    ASSUME StoreTables, DrawerTables, References, NEW n
    PROVE  CashSales(n) \in Int /\ CashRefunds(n) \in Int /\ CashVoids(n) \in Int
<1>1. CashSales(n) \in Int
  <2> DEFINE f == [k \in DOMAIN orders |-> orders[k].cash]
             S == {k \in DOMAIN orders : orders[k].shift = n}
  <2>1. IsFiniteSet(S) /\ \A k \in S : f[k] \in Int
    BY Domains, FS_Subset DEF OrderRow
  <2> HIDE DEF f, S
  <2>2. SumFunctionOnSet(f, S) \in Int
    BY <2>1, SumInt
  <2> QED BY <2>2 DEF CashSales, f, S
<1>2. CashRefunds(n) \in Int
  <2> DEFINE f == [i \in DOMAIN refunds |-> refunds[i].amount]
             S == {i \in DOMAIN refunds : orders[refunds[i].order].shift = n}
  <2>1. IsFiniteSet(S) /\ \A i \in S : f[i] \in Int
    BY Domains, FS_Subset DEF RefundRow
  <2> HIDE DEF f, S
  <2>2. SumFunctionOnSet(f, S) \in Int
    BY <2>1, SumInt
  <2> QED BY <2>2 DEF CashRefunds, f, S
<1>3. CashVoids(n) \in Int
  <2> DEFINE f == [i \in DOMAIN voids |-> TotalOf(orders[voids[i].order])]
             S == {i \in DOMAIN voids : orders[voids[i].order].shift = n}
  <2>1. \A k \in DOMAIN orders : TotalOf(orders[k]) \in Nat
    BY Domains, TotalIsNat DEF OrderRow
  <2>2. IsFiniteSet(S) /\ \A i \in S : f[i] \in Int
    BY <2>1, Domains, FS_Subset DEF References
  <2> HIDE DEF f, S
  <2>3. SumFunctionOnSet(f, S) \in Int
    BY <2>2, SumInt
  <2> QED BY <2>3 DEF CashVoids, f, S
<1> QED BY <1>1, <1>2, <1>3

(* A sale adds its cash to its shift; a change of a status adds none. *)
LEMMA SalesCash ==
    ASSUME StoreTables, StoreTables', DrawerTables, NEW row, Added(orders, orders', row), NEW n
    PROVE  /\ CashSales(n)' = CashSales(n) + IF row.shift = n THEN row.cash ELSE 0
           /\ OrdersKept
<1> DEFINE f == [k \in DOMAIN orders |-> orders[k].cash]
           g == [k \in DOMAIN orders' |-> orders'[k].cash]
           S == {k \in DOMAIN orders : orders[k].shift = n}
<1>1. PICK x : /\ DOMAIN orders' = DOMAIN orders \union {x} /\ x \notin DOMAIN orders
               /\ \A k \in DOMAIN orders : orders'[k] = orders[k]
               /\ orders'[x] = row
  BY DEF Added
<1>2. \A k \in DOMAIN orders' : orders'[k] \in OrderRow
  BY DEF StoreTables
<1>3. /\ \A k \in S : g[k] = f[k] /\ g[k] \in Int
      /\ g[x] = row.cash /\ g[x] \in Int
  BY <1>1, <1>2 DEF OrderRow
<1>4. IsFiniteSet(S) /\ x \notin S
  BY <1>1, Domains, FS_Subset
<1>5. S' = IF row.shift = n THEN S \union {x} ELSE S
  BY <1>1
<1>6. CashSales(n) = SumFunctionOnSet(f, S) /\ CashSales(n)' = SumFunctionOnSet(g, S')
  BY DEF CashSales
<1> PICK T : T = S'
  OBVIOUS
<1> HIDE DEF f, g, S
<1>7. SumFunctionOnSet(g, T) = SumFunctionOnSet(f, S) + IF x \in T THEN g[x] ELSE 0
  <2>1. T = S \/ (T = S \union {x} /\ g[x] \in Int)
    BY <1>3, <1>5
  <2>2. IsFiniteSet(S) /\ x \notin S
        /\ \A y \in S : g[y] = f[y] /\ g[y] \in Int
    BY <1>3, <1>4
  <2>3. SumFunctionOnSet(f, S) \in Int
    BY <2>2, SumInt
  <2>4. SumFunctionOnSet(g, S) = SumFunctionOnSet(f, S)
    BY <2>2, SumSame
  <2>5. x \in T => SumFunctionOnSet(g, S \union {x}) = SumFunctionOnSet(f, S) + g[x]
    BY <2>1, <2>2, SumGrows
  <2>6. CASE T = S
    <3>1. SumFunctionOnSet(g, T) = SumFunctionOnSet(f, S) /\ x \notin T
      BY <2>2, <2>4, <2>6
    <3> QED BY <2>3, <3>1
  <2>7. CASE T = S \union {x}
    <3>1. SumFunctionOnSet(g, T) = SumFunctionOnSet(f, S) + g[x] /\ x \in T
      BY <2>5, <2>7
    <3> QED BY <2>3, <3>1
  <2> QED BY <2>1, <2>6, <2>7
<1>8. x \in T <=> row.shift = n
  BY <1>4, <1>5
<1>9. OrdersKept
  BY <1>1 DEF OrdersKept
<1> QED BY <1>3, <1>6, <1>7, <1>8, <1>9

LEMMA SalesCashSame ==
    ASSUME StoreTables, DrawerTables, NEW k, OrdersStay(k), NEW n
    PROVE  CashSales(n)' = CashSales(n) /\ OrdersKept
<1>1. [j \in DOMAIN orders' |-> orders'[j].cash] = [j \in DOMAIN orders |-> orders[j].cash]
  BY DEF OrdersStay
<1>2. {j \in DOMAIN orders' : orders'[j].shift = n} = {j \in DOMAIN orders : orders[j].shift = n}
  BY DEF OrdersStay
<1>3. CashSales(n)' = CashSales(n)
  BY <1>1, <1>2 DEF CashSales
<1> QED BY <1>3 DEF OrdersStay, OrdersKept

LEMMA ReversalCashSame ==
    ASSUME References, OrdersKept, NEW n
    PROVE  /\ refunds' = refunds => CashRefunds(n)' = CashRefunds(n)
           /\ voids' = voids => CashVoids(n)' = CashVoids(n)
<1>1. ASSUME refunds' = refunds PROVE CashRefunds(n)' = CashRefunds(n)
  <2>1. {i \in DOMAIN refunds : orders'[refunds[i].order].shift = n} =
          {i \in DOMAIN refunds : orders[refunds[i].order].shift = n}
    BY DEF References, OrdersKept
  <2> QED BY <1>1, <2>1 DEF CashRefunds
<1>2. ASSUME voids' = voids PROVE CashVoids(n)' = CashVoids(n)
  <2>1. {i \in DOMAIN voids : orders'[voids[i].order].shift = n} =
          {i \in DOMAIN voids : orders[voids[i].order].shift = n}
    BY DEF References, OrdersKept
  <2>2. [i \in DOMAIN voids |-> TotalOf(orders'[voids[i].order])] =
          [i \in DOMAIN voids |-> TotalOf(orders[voids[i].order])]
    BY DEF References, OrdersKept
  <2> QED BY <1>2, <2>1, <2>2 DEF CashVoids
<1> QED BY <1>1, <1>2

LEMMA RefundsCash ==
    ASSUME StoreTables, StoreTables', DrawerTables, References, OrdersKept,
           NEW row, Added(refunds, refunds', row), row.order \in DOMAIN orders, NEW n
    PROVE  CashRefunds(n)' = CashRefunds(n) + IF orders[row.order].shift = n THEN row.amount ELSE 0
<1> DEFINE f == [i \in DOMAIN refunds |-> refunds[i].amount]
           g == [i \in DOMAIN refunds' |-> refunds'[i].amount]
           S == {i \in DOMAIN refunds : orders[refunds[i].order].shift = n}
<1>1. PICK x : /\ DOMAIN refunds' = DOMAIN refunds \union {x} /\ x \notin DOMAIN refunds
               /\ \A i \in DOMAIN refunds : refunds'[i] = refunds[i]
               /\ refunds'[x] = row
  BY DEF Added
<1>2. \A i \in DOMAIN refunds' : refunds'[i] \in RefundRow
  BY DEF StoreTables
<1>3. /\ \A i \in S : g[i] = f[i] /\ g[i] \in Int
      /\ g[x] = row.amount /\ g[x] \in Int
  BY <1>1, <1>2 DEF RefundRow
<1>4. IsFiniteSet(S) /\ x \notin S
  BY <1>1, Domains, FS_Subset
<1>5. S' = IF orders[row.order].shift = n THEN S \union {x} ELSE S
  <2>1. \A i \in DOMAIN refunds : orders'[refunds[i].order].shift = orders[refunds[i].order].shift
    BY DEF References, OrdersKept
  <2>2. orders'[row.order].shift = orders[row.order].shift
    BY DEF OrdersKept
  <2> QED BY <1>1, <2>1, <2>2
<1>6. CashRefunds(n) = SumFunctionOnSet(f, S) /\ CashRefunds(n)' = SumFunctionOnSet(g, S')
  BY DEF CashRefunds
<1> PICK T : T = S'
  OBVIOUS
<1> HIDE DEF f, g, S
<1>7. SumFunctionOnSet(g, T) = SumFunctionOnSet(f, S) + IF x \in T THEN g[x] ELSE 0
  <2>1. T = S \/ (T = S \union {x} /\ g[x] \in Int)
    BY <1>3, <1>5
  <2>2. IsFiniteSet(S) /\ x \notin S
        /\ \A y \in S : g[y] = f[y] /\ g[y] \in Int
    BY <1>3, <1>4
  <2>3. SumFunctionOnSet(f, S) \in Int
    BY <2>2, SumInt
  <2>4. SumFunctionOnSet(g, S) = SumFunctionOnSet(f, S)
    BY <2>2, SumSame
  <2>5. x \in T => SumFunctionOnSet(g, S \union {x}) = SumFunctionOnSet(f, S) + g[x]
    BY <2>1, <2>2, SumGrows
  <2>6. CASE T = S
    <3>1. SumFunctionOnSet(g, T) = SumFunctionOnSet(f, S) /\ x \notin T
      BY <2>2, <2>4, <2>6
    <3> QED BY <2>3, <3>1
  <2>7. CASE T = S \union {x}
    <3>1. SumFunctionOnSet(g, T) = SumFunctionOnSet(f, S) + g[x] /\ x \in T
      BY <2>5, <2>7
    <3> QED BY <2>3, <3>1
  <2> QED BY <2>1, <2>6, <2>7
<1>8. x \in T <=> orders[row.order].shift = n
  BY <1>4, <1>5
<1> QED BY <1>3, <1>6, <1>7, <1>8

LEMMA VoidsCash ==
    ASSUME StoreTables, StoreTables', DrawerTables, References, OrdersKept,
           NEW row, Added(voids, voids', row), row.order \in DOMAIN orders, NEW n
    PROVE  CashVoids(n)' = CashVoids(n) + IF orders[row.order].shift = n
                                          THEN TotalOf(orders[row.order]) ELSE 0
<1> DEFINE f == [i \in DOMAIN voids |-> TotalOf(orders[voids[i].order])]
           g == [i \in DOMAIN voids' |-> TotalOf(orders'[voids'[i].order])]
           S == {i \in DOMAIN voids : orders[voids[i].order].shift = n}
<1>1. PICK x : /\ DOMAIN voids' = DOMAIN voids \union {x} /\ x \notin DOMAIN voids
               /\ \A i \in DOMAIN voids : voids'[i] = voids[i]
               /\ voids'[x] = row
  BY DEF Added
<1>2. \A k \in DOMAIN orders : TotalOf(orders[k]) \in Nat
  BY Domains, TotalIsNat DEF OrderRow
<1>3. \A i \in DOMAIN voids : voids[i].order \in DOMAIN orders
  BY DEF References
<1>4. /\ \A i \in S : g[i] = f[i] /\ g[i] \in Int
      /\ g[x] = TotalOf(orders[row.order]) /\ g[x] \in Int
  BY <1>1, <1>2, <1>3 DEF OrdersKept
<1>5. IsFiniteSet(S) /\ x \notin S
  BY <1>1, Domains, FS_Subset
<1>6. S' = IF orders[row.order].shift = n THEN S \union {x} ELSE S
  <2>1. \A i \in DOMAIN voids : orders'[voids[i].order].shift = orders[voids[i].order].shift
    BY <1>3 DEF OrdersKept
  <2>2. orders'[row.order].shift = orders[row.order].shift
    BY DEF OrdersKept
  <2> QED BY <1>1, <2>1, <2>2
<1>7. CashVoids(n) = SumFunctionOnSet(f, S) /\ CashVoids(n)' = SumFunctionOnSet(g, S')
  BY DEF CashVoids
<1> PICK T : T = S'
  OBVIOUS
<1> HIDE DEF f, g, S
<1>8. SumFunctionOnSet(g, T) = SumFunctionOnSet(f, S) + IF x \in T THEN g[x] ELSE 0
  <2>1. T = S \/ (T = S \union {x} /\ g[x] \in Int)
    BY <1>4, <1>6
  <2>2. IsFiniteSet(S) /\ x \notin S
        /\ \A y \in S : g[y] = f[y] /\ g[y] \in Int
    BY <1>4, <1>5
  <2>3. SumFunctionOnSet(f, S) \in Int
    BY <2>2, SumInt
  <2>4. SumFunctionOnSet(g, S) = SumFunctionOnSet(f, S)
    BY <2>2, SumSame
  <2>5. x \in T => SumFunctionOnSet(g, S \union {x}) = SumFunctionOnSet(f, S) + g[x]
    BY <2>1, <2>2, SumGrows
  <2>6. CASE T = S
    <3>1. SumFunctionOnSet(g, T) = SumFunctionOnSet(f, S) /\ x \notin T
      BY <2>2, <2>4, <2>6
    <3> QED BY <2>3, <3>1
  <2>7. CASE T = S \union {x}
    <3>1. SumFunctionOnSet(g, T) = SumFunctionOnSet(f, S) + g[x] /\ x \in T
      BY <2>5, <2>7
    <3> QED BY <2>3, <3>1
  <2> QED BY <2>1, <2>6, <2>7
<1>9. x \in T <=> orders[row.order].shift = n
  BY <1>5, <1>6
<1> QED BY <1>4, <1>7, <1>8, <1>9

--------------------------------------------------------------------------------
(* The drawer. *)

Explained(n) ==
  Expected(n) = shifts[n].float + CashSales(n) - CashRefunds(n) - CashVoids(n) + ManualCash(n)

(* A shift that is not open yet has no cash. *)
LEMMA NoShiftNoCash ==
    ASSUME Types, NEW n, n \notin DOMAIN shifts
    PROVE  /\ Expected(n) = 0 /\ ManualCash(n) = 0
           /\ CashSales(n) = 0 /\ CashRefunds(n) = 0 /\ CashVoids(n) = 0
<1>1. DrawerTypeOK /\ References
  BY DEF Types, DrawerInv
<1>2. MovesOf(n) = {} /\ {i \in MovesOf(n) : moves[i].type \in ManualTypes} = {}
  BY <1>1 DEF DrawerTypeOK, MovesOf
<1>3. {k \in DOMAIN orders : orders[k].shift = n} = {}
  BY <1>1 DEF References
<1>4. {i \in DOMAIN refunds : orders[refunds[i].order].shift = n} = {}
  BY <1>1 DEF References
<1>5. {i \in DOMAIN voids : orders[voids[i].order].shift = n} = {}
  BY <1>1 DEF References
<1>6. Expected(n) = 0 /\ ManualCash(n) = 0
  BY <1>2, SumEmpty DEF Expected, ManualCash
<1>7. CashSales(n) = 0
  BY <1>3, SumEmpty DEF CashSales
<1>8. CashRefunds(n) = 0
  BY <1>4, SumEmpty DEF CashRefunds
<1>9. CashVoids(n) = 0
  BY <1>5, SumEmpty DEF CashVoids
<1> QED BY <1>6, <1>7, <1>8, <1>9

(* Unchanged tables have unchanged sums. *)
LEMMA CashSame ==
    ASSUME NEW n
    PROVE  /\ UNCHANGED moves => Expected(n)' = Expected(n) /\ ManualCash(n)' = ManualCash(n)
           /\ UNCHANGED orders => CashSales(n)' = CashSales(n)
           /\ UNCHANGED <<orders, refunds>> => CashRefunds(n)' = CashRefunds(n)
           /\ UNCHANGED <<orders, voids>> => CashVoids(n)' = CashVoids(n)
<1>1. UNCHANGED moves => Expected(n)' = Expected(n) /\ ManualCash(n)' = ManualCash(n)
  BY DEF Expected, ManualCash, MovesOf, SignedAmount
<1>2. UNCHANGED orders => CashSales(n)' = CashSales(n)
  BY DEF CashSales
<1>3. UNCHANGED <<orders, refunds>> => CashRefunds(n)' = CashRefunds(n)
  BY DEF CashRefunds
<1>4. UNCHANGED <<orders, voids>> => CashVoids(n)' = CashVoids(n)
  <2> SUFFICES ASSUME UNCHANGED <<orders, voids>> PROVE CashVoids(n)' = CashVoids(n)
    OBVIOUS
  <2>1. \A i \in DOMAIN voids : TotalOf(orders'[voids'[i].order]) = TotalOf(orders[voids[i].order])
    OBVIOUS
  <2>2. [i \in DOMAIN voids' |-> TotalOf(orders'[voids'[i].order])] =
          [i \in DOMAIN voids |-> TotalOf(orders[voids[i].order])]
    BY <2>1
  <2> QED BY <2>2 DEF CashVoids
<1> QED BY <1>1, <1>2, <1>3, <1>4

(* The cash that joins or leaves a shift's drawer on both sides of the equation. *)
LEMMA StaysExplained ==
    ASSUME Types, NEW n \in DOMAIN shifts, Explained(n), NEW float, float = shifts[n].float,
           NEW a \in Int, NEW b \in Int, NEW c \in Int, NEW d \in Int,
           shifts'[n].float = float,
           CashSales(n)' = CashSales(n) + a, CashRefunds(n)' = CashRefunds(n) + b,
           CashVoids(n)' = CashVoids(n) + c, ManualCash(n)' = ManualCash(n) + d,
           Expected(n)' = Expected(n) + (a - b - c + d), ManualCash(n) \in Int
    PROVE  Explained(n)'
<1>1. CashSales(n) \in Int /\ CashRefunds(n) \in Int /\ CashVoids(n) \in Int
  BY CashAmounts DEF Types, DrawerInv
<1>2. float \in Int
  <2>1. shifts \in Seq(ShiftRow)
    BY DEF Types, DrawerInv, DrawerTables
  <2>2. shifts[n] \in ShiftRow
    BY <2>1
  <2> QED BY <2>2 DEF ShiftRow
<1>3. Expected(n) = float + CashSales(n) - CashRefunds(n) - CashVoids(n) + ManualCash(n)
  BY DEF Explained
<1>4. Expected(n)' = float + CashSales(n)' - CashRefunds(n)' - CashVoids(n)' + ManualCash(n)'
  BY <1>1, <1>2, <1>3
<1> QED BY <1>4 DEF Explained

LEMMA OpenExplained ==
    ASSUME Types, Types', UNCHANGED storeVars, NEW r \in OpenRequests, OpenShift(r),
           \A n \in DOMAIN shifts : Explained(n)
    PROVE  \A n \in DOMAIN shifts' : Explained(n)'
<1>0. StoreTables /\ References /\ DrawerTables /\ DrawerTables'
  BY DEF Types, DrawerInv
<1> PICK m : m = Len(shifts) + 1
  OBVIOUS
<1> DEFINE row == [shift |-> m, type |-> "opening_float", amount |-> r.float]
<1>1. /\ DOMAIN shifts' = DOMAIN shifts \union {m} /\ m \notin DOMAIN shifts
      /\ \A n \in DOMAIN shifts : shifts'[n] = shifts[n]
      /\ shifts'[m].float = r.float
      /\ r.float \in Int
  <2>1. /\ DOMAIN shifts = 1 .. Len(shifts) /\ DOMAIN shifts' = 1 .. Len(shifts) + 1
        /\ \A n \in DOMAIN shifts : shifts'[n] = shifts[n]
        /\ shifts'[Len(shifts) + 1] = [register |-> r.register, cashier |-> r.cashier,
                                       float |-> r.float, status |-> "open", counted |-> NotCounted]
    BY <1>0, Opened
  <2>2. Len(shifts) \in Nat
    BY <1>0 DEF DrawerTables
  <2>3. r.float \in Int
    BY DrawerAssumption
  <2> QED BY <2>1, <2>2, <2>3
<1>2. Added(moves, moves', row)
  <2>1. row \in MoveRow
    BY <1>0, DrawerAssumption DEF OpenShift, DrawerTables, MoveRow, MoveTypes
  <2>2. moves' = Append(moves, row)
    BY DEF OpenShift
  <2>3. moves \in Seq(MoveRow)
    BY <1>0 DEF DrawerTables
  <2> HIDE DEF row
  <2> QED BY <2>1, <2>2, <2>3, RowAdded
<1>3. row.shift = m /\ row.type \notin ManualTypes /\ Signed(row) = r.float
  BY DEF ManualTypes, Signed, Outflows
<1> HIDE DEF row
<1>4. ASSUME NEW n
      PROVE  /\ Expected(n) \in Int /\ ManualCash(n) \in Int
             /\ Expected(n)' = Expected(n) + IF row.shift = n THEN Signed(row) ELSE 0
             /\ ManualCash(n)' =
                  ManualCash(n) + IF row.shift = n /\ row.type \in ManualTypes THEN Signed(row) ELSE 0
  BY <1>0, <1>2, MovesAdd
<1>5. ASSUME NEW n
      PROVE  CashSales(n)' = CashSales(n) /\ CashRefunds(n)' = CashRefunds(n)
               /\ CashVoids(n)' = CashVoids(n)
  BY CashSame DEF storeVars
<1>6. ASSUME NEW n \in DOMAIN shifts PROVE Explained(n)'
  <2>1. Explained(n) /\ n # m /\ shifts'[n].float = shifts[n].float
    BY <1>1
  <2>2. Expected(n)' = Expected(n) /\ ManualCash(n)' = ManualCash(n)
    BY <1>3, <1>4, <2>1
  <2>3. Expected(n)' = shifts'[n].float + CashSales(n)' - CashRefunds(n)' - CashVoids(n)' + ManualCash(n)'
    BY <1>5, <2>1, <2>2 DEF Explained
  <2> QED BY <2>3 DEF Explained
<1>7. Explained(m)'
  <2>1. /\ Expected(m) = 0 /\ ManualCash(m) = 0
        /\ CashSales(m) = 0 /\ CashRefunds(m) = 0 /\ CashVoids(m) = 0
    BY <1>1, NoShiftNoCash
  <2>2. Expected(m)' = r.float /\ ManualCash(m)' = 0
    <3>1. /\ Expected(m)' = Expected(m) + IF row.shift = m THEN Signed(row) ELSE 0
          /\ ManualCash(m)' =
               ManualCash(m) + IF row.shift = m /\ row.type \in ManualTypes THEN Signed(row) ELSE 0
      BY <1>4
    <3>2. Expected(m)' = 0 + r.float /\ ManualCash(m)' = 0 + 0
      BY <1>3, <2>1, <3>1
    <3> QED BY <1>1, <3>2
  <2>3. Expected(m)' = shifts'[m].float + CashSales(m)' - CashRefunds(m)' - CashVoids(m)' + ManualCash(m)'
    BY <1>1, <1>5, <2>1, <2>2
  <2> QED BY <2>3 DEF Explained
<1> QED BY <1>1, <1>6, <1>7

LEMMA CloseExplained ==
    ASSUME Types, UNCHANGED storeVars, NEW r \in CloseRequests, CloseShift(r),
           \A n \in DOMAIN shifts : Explained(n)
    PROVE  \A n \in DOMAIN shifts' : Explained(n)'
<1>1. /\ moves' = moves /\ DOMAIN shifts' = DOMAIN shifts
      /\ shifts'[r.shift].float = shifts[r.shift].float
      /\ \A n \in DOMAIN shifts \ {r.shift} : shifts'[n] = shifts[n]
  BY Closed DEF Types, DrawerInv
<1>2. ASSUME NEW n \in DOMAIN shifts PROVE Explained(n)'
  <2>1. Explained(n) /\ shifts'[n].float = shifts[n].float
    BY <1>1
  <2>2. /\ Expected(n)' = Expected(n) /\ ManualCash(n)' = ManualCash(n)
        /\ CashSales(n)' = CashSales(n) /\ CashRefunds(n)' = CashRefunds(n)
        /\ CashVoids(n)' = CashVoids(n)
    BY <1>1, CashSame DEF storeVars
  <2>3. Expected(n)' = shifts'[n].float + CashSales(n)' - CashRefunds(n)' - CashVoids(n)' + ManualCash(n)'
    BY <2>1, <2>2 DEF Explained
  <2> QED BY <2>3 DEF Explained
<1> QED BY <1>1, <1>2

(* A row of the cash movements and what explains it. *)
LEMMA MoveExplained ==
    ASSUME Types, Types', NEW row, Added(moves, moves', row), shifts' = shifts,
           \A n \in DOMAIN shifts : Explained(n),
           NEW a, NEW b, NEW c, a \in Int, b \in Int, c \in Int,
           Signed(row) = (a - b - c) + IF row.type \in ManualTypes THEN Signed(row) ELSE 0,
           \A n \in DOMAIN shifts :
             /\ CashSales(n)' = CashSales(n) + IF row.shift = n THEN a ELSE 0
             /\ CashRefunds(n)' = CashRefunds(n) + IF row.shift = n THEN b ELSE 0
             /\ CashVoids(n)' = CashVoids(n) + IF row.shift = n THEN c ELSE 0
    PROVE  \A n \in DOMAIN shifts' : Explained(n)'
<1>0. StoreTables /\ References /\ DrawerTables /\ DrawerTables'
  BY DEF Types, DrawerInv
<1> SUFFICES ASSUME NEW n \in DOMAIN shifts PROVE Explained(n)'
  OBVIOUS
<1>1. /\ Expected(n) \in Int /\ ManualCash(n) \in Int /\ Signed(row) \in Int
      /\ Expected(n)' = Expected(n) + IF row.shift = n THEN Signed(row) ELSE 0
      /\ ManualCash(n)' =
           ManualCash(n) + IF row.shift = n /\ row.type \in ManualTypes THEN Signed(row) ELSE 0
  BY <1>0, MovesAdd
<1>2. CashSales(n) \in Int /\ CashRefunds(n) \in Int /\ CashVoids(n) \in Int
  BY <1>0, CashAmounts
<1>3. Explained(n) /\ shifts'[n].float = shifts[n].float
  OBVIOUS
<1>4. PICK d : d = IF row.type \in ManualTypes THEN Signed(row) ELSE 0
  OBVIOUS
<1>5. d \in Int /\ Signed(row) = a - b - c + d
  BY <1>1, <1>4
<1>6. CASE row.shift = n
  <2>1. /\ CashSales(n)' = CashSales(n) + a /\ CashRefunds(n)' = CashRefunds(n) + b
        /\ CashVoids(n)' = CashVoids(n) + c /\ ManualCash(n)' = ManualCash(n) + d
        /\ Expected(n)' = Expected(n) + (a - b - c + d)
    BY <1>1, <1>4, <1>5, <1>6
  <2> QED BY <1>1, <1>3, <1>5, <2>1, StaysExplained
<1>7. CASE row.shift # n
  <2>1. /\ CashSales(n)' = CashSales(n) + 0 /\ CashRefunds(n)' = CashRefunds(n) + 0
        /\ CashVoids(n)' = CashVoids(n) + 0 /\ ManualCash(n)' = ManualCash(n) + 0
        /\ Expected(n)' = Expected(n) + (0 - 0 - 0 + 0) /\ 0 \in Int
    BY <1>1, <1>7
  <2> QED BY <1>1, <1>3, <2>1, StaysExplained
<1> QED BY <1>6, <1>7

LEMMA RecordExplained ==
    ASSUME Types, Types', UNCHANGED storeVars, NEW r \in CashRequests, RecordCashMovement(r),
           \A n \in DOMAIN shifts : Explained(n)
    PROVE  \A n \in DOMAIN shifts' : Explained(n)'
<1>0. StoreTables /\ References /\ DrawerTables /\ DrawerTables'
  BY DEF Types, DrawerInv
<1> DEFINE row == CashPayload(r)
<1>1. Added(moves, moves', row) /\ row.type \in ManualTypes /\ shifts' = shifts
  <2>1. r.shift \in DOMAIN shifts /\ row.type \in ManualTypes /\ shifts' = shifts
    BY DEF RecordCashMovement, CashPayload, IsOpen
  <2>2. row \in MoveRow
    BY <1>0, <2>1, DrawerAssumption DEF RecordCashMovement, DrawerTables, CashPayload, MoveRow, MoveTypes
  <2>3. moves' = Append(moves, row) /\ moves \in Seq(MoveRow)
    BY <1>0 DEF RecordCashMovement, DrawerTables
  <2> HIDE DEF row
  <2> QED BY <2>1, <2>2, <2>3, RowAdded
<1> HIDE DEF row
<1>2. \A n \in DOMAIN shifts :
        /\ CashSales(n)' = CashSales(n) + IF row.shift = n THEN 0 ELSE 0
        /\ CashRefunds(n)' = CashRefunds(n) + IF row.shift = n THEN 0 ELSE 0
        /\ CashVoids(n)' = CashVoids(n) + IF row.shift = n THEN 0 ELSE 0
  <2> SUFFICES ASSUME NEW n \in DOMAIN shifts
               PROVE  /\ CashSales(n)' = CashSales(n) + IF row.shift = n THEN 0 ELSE 0
                      /\ CashRefunds(n)' = CashRefunds(n) + IF row.shift = n THEN 0 ELSE 0
                      /\ CashVoids(n)' = CashVoids(n) + IF row.shift = n THEN 0 ELSE 0
    OBVIOUS
  <2>1. /\ CashSales(n)' = CashSales(n) /\ CashRefunds(n)' = CashRefunds(n)
        /\ CashVoids(n)' = CashVoids(n)
    BY CashSame DEF storeVars
  <2>2. CashSales(n) \in Int /\ CashRefunds(n) \in Int /\ CashVoids(n) \in Int
    BY <1>0, CashAmounts
  <2> QED BY <2>1, <2>2
<1>3. Signed(row) \in Int
  BY <1>0, <1>1, MovesAdd
<1>4. 0 \in Int /\ Signed(row) = (0 - 0 - 0) + IF row.type \in ManualTypes THEN Signed(row) ELSE 0
  BY <1>1, <1>3
<1> QED BY <1>1, <1>2, <1>4, MoveExplained

LEMMA SaleExplained ==
    ASSUME Types, Types', NEW s \in Sessions, NEW r \in CheckoutRequests, NEW k \in Nat \ {0},
           Sells(s, r, k), txn[s].request = r, \A n \in DOMAIN shifts : Explained(n)
    PROVE  \A n \in DOMAIN shifts' : Explained(n)'
<1>0. StoreTables /\ StoreTables' /\ References /\ DrawerTables /\ DrawerTables'
  BY DEF Types, DrawerInv
<1> DEFINE sale == OrderOf(r, k)
           row == [shift |-> k, type |-> "cash_sale", amount |-> r.cash]
<1>1. /\ Added(orders, orders', sale) /\ sale.shift = k /\ sale.cash = r.cash
      /\ (r.cash = 0 /\ moves' = moves) \/ (r.cash # 0 /\ Added(moves, moves', row))
      /\ refunds' = refunds /\ voids' = voids /\ shifts' = shifts /\ r.cash \in Int
  <2>1. /\ Added(orders, orders', sale)
        /\ (r.cash = 0 /\ moves' = moves) \/ (r.cash # 0 /\ Added(moves, moves', row))
    BY SellsKeeps
  <2>2. sale.shift = k /\ sale.cash = r.cash /\ r.cash \in Int
    BY StoreAssumption DEF OrderOf
  <2>3. refunds' = refunds /\ voids' = voids /\ shifts' = shifts
    BY DEF Sells, CheckoutCommits
  <2> QED BY <2>1, <2>2, <2>3
<1>2. row.shift = k /\ row.type \notin ManualTypes /\ Signed(row) = r.cash
  BY DEF ManualTypes, Signed, Outflows
<1> HIDE DEF sale, row
<1>3. ASSUME NEW n
      PROVE  /\ CashSales(n)' = CashSales(n) + IF k = n THEN r.cash ELSE 0
             /\ CashRefunds(n)' = CashRefunds(n) + IF k = n THEN 0 ELSE 0
             /\ CashVoids(n)' = CashVoids(n) + IF k = n THEN 0 ELSE 0
  <2>1. CashSales(n)' = CashSales(n) + (IF sale.shift = n THEN sale.cash ELSE 0) /\ OrdersKept
    BY <1>0, <1>1, SalesCash
  <2>2. CashRefunds(n)' = CashRefunds(n) /\ CashVoids(n)' = CashVoids(n)
    BY <1>0, <1>1, <2>1, ReversalCashSame
  <2>3. CashSales(n) \in Int /\ CashRefunds(n) \in Int /\ CashVoids(n) \in Int
    BY <1>0, CashAmounts
  <2> QED BY <1>1, <2>1, <2>2, <2>3
<1>4. CASE r.cash = 0 /\ moves' = moves
  <2> SUFFICES ASSUME NEW n \in DOMAIN shifts PROVE Explained(n)'
    BY <1>1
  <2>1. Explained(n) /\ shifts'[n].float = shifts[n].float
    BY <1>1
  <2>2. CashSales(n) \in Int /\ CashRefunds(n) \in Int /\ CashVoids(n) \in Int
    BY <1>0, CashAmounts
  <2>3. /\ Expected(n)' = Expected(n) /\ ManualCash(n)' = ManualCash(n)
        /\ CashSales(n)' = CashSales(n) /\ CashRefunds(n)' = CashRefunds(n)
        /\ CashVoids(n)' = CashVoids(n)
    BY <1>3, <1>4, <2>2, CashSame
  <2>4. Expected(n)' = shifts'[n].float + CashSales(n)' - CashRefunds(n)' - CashVoids(n)' + ManualCash(n)'
    BY <2>1, <2>3 DEF Explained
  <2> QED BY <2>4 DEF Explained
<1>5. CASE r.cash # 0 /\ Added(moves, moves', row)
  <2>1. \A n \in DOMAIN shifts :
          /\ CashSales(n)' = CashSales(n) + IF row.shift = n THEN r.cash ELSE 0
          /\ CashRefunds(n)' = CashRefunds(n) + IF row.shift = n THEN 0 ELSE 0
          /\ CashVoids(n)' = CashVoids(n) + IF row.shift = n THEN 0 ELSE 0
    BY <1>2, <1>3
  <2>2. Signed(row) = (r.cash - 0 - 0) + (IF row.type \in ManualTypes THEN Signed(row) ELSE 0)
        /\ 0 \in Int
    BY <1>1, <1>2
  <2> QED BY <1>1, <1>5, <2>1, <2>2, MoveExplained
<1> QED BY <1>1, <1>4, <1>5

LEMMA RefundExplained ==
    ASSUME Types, Types', NEW s \in Sessions, NEW r \in RefundRequests, NEW t \in Tokens,
           Refunds(s, r, t), txn[s].request = r, \A n \in DOMAIN shifts : Explained(n)
    PROVE  \A n \in DOMAIN shifts' : Explained(n)'
<1>0. StoreTables /\ StoreTables' /\ References /\ DrawerTables /\ DrawerTables'
  BY DEF Types, DrawerInv
<1> DEFINE refund == RefundOf(r, t)
           k == orders[r.order].shift
           row == [shift |-> k, type |-> "cash_refund", amount |-> r.amount]
<1>1. /\ Added(refunds, refunds', refund) /\ refund.order = r.order /\ refund.amount = r.amount
      /\ OrdersStay(r.order) /\ r.order \in DOMAIN orders
      /\ Added(moves, moves', row)
      /\ voids' = voids /\ shifts' = shifts /\ r.amount \in Int
  <2>1. /\ Added(refunds, refunds', refund) /\ OrdersStay(r.order) /\ r.order \in DOMAIN orders
        /\ r.amount \in Nat \ {0} /\ Added(moves, moves', row)
    BY RefundsKeeps
  <2>2. refund.order = r.order /\ refund.amount = r.amount
    BY DEF RefundOf
  <2>3. voids' = voids /\ shifts' = shifts
    BY DEF Refunds, RefundCommits
  <2> QED BY <2>1, <2>2, <2>3
<1>2. row.shift = k /\ row.type \notin ManualTypes /\ Signed(row) = -r.amount
  BY DEF ManualTypes, Signed, Outflows
<1> HIDE DEF refund, row
<1>3. ASSUME NEW n
      PROVE  /\ CashSales(n)' = CashSales(n) + IF row.shift = n THEN 0 ELSE 0
             /\ CashRefunds(n)' = CashRefunds(n) + IF row.shift = n THEN r.amount ELSE 0
             /\ CashVoids(n)' = CashVoids(n) + IF row.shift = n THEN 0 ELSE 0
  <2>1. CashSales(n)' = CashSales(n) /\ OrdersKept
    BY <1>0, <1>1, SalesCashSame
  <2>2. CashVoids(n)' = CashVoids(n)
    BY <1>0, <1>1, <2>1, ReversalCashSame
  <2>3. CashSales(n) \in Int /\ CashRefunds(n) \in Int /\ CashVoids(n) \in Int
    BY <1>0, CashAmounts
  <2>4. refund.order \in DOMAIN orders
    BY <1>1
  <2>5. CashRefunds(n)' =
          CashRefunds(n) + IF orders[refund.order].shift = n THEN refund.amount ELSE 0
    BY <1>0, <1>1, <2>1, <2>4, RefundsCash
  <2>6. CashRefunds(n)' = CashRefunds(n) + IF row.shift = n THEN r.amount ELSE 0
    BY <1>1, <1>2, <2>5
  <2> QED BY <2>1, <2>2, <2>3, <2>6
<1>4. Signed(row) = (0 - r.amount - 0) + (IF row.type \in ManualTypes THEN Signed(row) ELSE 0)
      /\ 0 \in Int
  BY <1>1, <1>2
<1> QED BY <1>1, <1>3, <1>4, MoveExplained

LEMMA VoidExplained ==
    ASSUME Types, Types', NEW r \in VoidRequests, VoidOrder(r),
           \A n \in DOMAIN shifts : Explained(n)
    PROVE  \A n \in DOMAIN shifts' : Explained(n)'
<1>0. StoreTables /\ StoreTables' /\ References /\ DrawerTables /\ DrawerTables'
  BY DEF Types, DrawerInv
<1> DEFINE void == [key |-> r.key, order |-> r.order]
           k == orders[r.order].shift
           total == TotalOf(orders[r.order])
           row == [shift |-> k, type |-> "cash_refund", amount |-> total]
<1>1. /\ Added(voids, voids', void) /\ void.order = r.order
      /\ OrdersStay(r.order) /\ r.order \in DOMAIN orders
      /\ Added(moves, moves', row)
      /\ refunds' = refunds /\ shifts' = shifts
  BY VoidKeeps DEF VoidOrder
<1>2. total \in Int
  <2>1. \A n \in DOMAIN orders : orders[n] \in OrderRow
    BY <1>0, Domains
  <2> QED BY <1>1, <2>1, TotalIsNat DEF OrderRow
<1>3. row.shift = k /\ row.type \notin ManualTypes /\ Signed(row) = -total
  BY DEF ManualTypes, Signed, Outflows
<1> PICK amount : amount = total
  OBVIOUS
<1> HIDE DEF void, row, total
<1>4. ASSUME NEW n
      PROVE  /\ CashSales(n)' = CashSales(n) + IF row.shift = n THEN 0 ELSE 0
             /\ CashRefunds(n)' = CashRefunds(n) + IF row.shift = n THEN 0 ELSE 0
             /\ CashVoids(n)' = CashVoids(n) + IF row.shift = n THEN amount ELSE 0
  <2>1. CashSales(n)' = CashSales(n) /\ OrdersKept
    BY <1>0, <1>1, SalesCashSame
  <2>2. CashRefunds(n)' = CashRefunds(n)
    BY <1>0, <1>1, <2>1, ReversalCashSame
  <2>3. CashSales(n) \in Int /\ CashRefunds(n) \in Int /\ CashVoids(n) \in Int
    BY <1>0, CashAmounts
  <2>4. void.order \in DOMAIN orders
    BY <1>1
  <2>5. CashVoids(n)' = CashVoids(n) + IF orders[void.order].shift = n
                                       THEN TotalOf(orders[void.order]) ELSE 0
    BY <1>0, <1>1, <2>1, <2>4, VoidsCash
  <2>6. CashVoids(n)' = CashVoids(n) + IF row.shift = n THEN amount ELSE 0
    BY <1>1, <1>3, <2>5 DEF total
  <2> QED BY <2>1, <2>2, <2>3, <2>6
<1>5. Signed(row) = (0 - 0 - amount) + (IF row.type \in ManualTypes THEN Signed(row) ELSE 0)
      /\ 0 \in Int /\ amount \in Int
  BY <1>2, <1>3
<1> QED BY <1>1, <1>4, <1>5, MoveExplained

(* The cash a shift expects in its drawer is the one that the orders, refunds,    *)
(* voids and recorded movements of the store account for.                         *)
THEOREM DrawersAreExplained == Spec => []DrawerIsExplained
<1>1. Init => DrawerIsExplained
  BY DEF Init, DrawerInit, DrawerIsExplained
<1>2. ASSUME Types, Types', DrawerIsExplained, [Next]_vars PROVE DrawerIsExplained'
  <2>0. StoreTables /\ DrawerTables /\ \A n \in DOMAIN shifts : Explained(n)
    BY <1>2 DEF Types, DrawerInv, DrawerIsExplained, Explained
  <2>1. ASSUME \A n \in DOMAIN shifts' : Explained(n)' PROVE DrawerIsExplained'
    BY <2>1 DEF DrawerIsExplained, Explained
  <2>2. ASSUME UNCHANGED <<drawerVars, orders, refunds, voids>> PROVE DrawerIsExplained'
    <3>1. ASSUME NEW n \in DOMAIN shifts PROVE Explained(n)'
      <4>1. /\ Expected(n)' = Expected(n) /\ ManualCash(n)' = ManualCash(n)
            /\ CashSales(n)' = CashSales(n) /\ CashRefunds(n)' = CashRefunds(n)
            /\ CashVoids(n)' = CashVoids(n)
        BY <2>2, CashSame DEF drawerVars
      <4>2. Explained(n) /\ shifts' = shifts
        BY <2>0, <2>2 DEF drawerVars
      <4>3. Expected(n)' = shifts'[n].float + CashSales(n)' - CashRefunds(n)' - CashVoids(n)' + ManualCash(n)'
        BY <4>1, <4>2 DEF Explained
      <4> QED BY <4>3 DEF Explained
    <3> QED BY <2>1, <2>2, <3>1 DEF drawerVars
  <2>3. CASE Drawer
    BY <1>2, <2>0, <2>1, <2>3, OpenExplained, CloseExplained, RecordExplained DEF Drawer, DrawerNext
  <2>4. (\E s \in Sessions, r \in AdjustRequests : Adjusts(s, r))
          \/ (\E r \in ImportRequests : ImportCatalog(r)) \/ Quiet
        => UNCHANGED <<drawerVars, orders, refunds, voids>>
    BY DEF Adjusts, ImportCatalog, Quiet, tables
  <2>5. ASSUME NEW s \in Sessions, NEW r \in CheckoutRequests, NEW k \in Nat \ {0},
               Sells(s, r, k), txn[s].request = r
        PROVE  DrawerIsExplained'
    BY <1>2, <2>0, <2>1, <2>5, SaleExplained
  <2>6. ASSUME NEW s \in Sessions, NEW r \in RefundRequests, NEW t \in Tokens,
               Refunds(s, r, t), txn[s].request = r
        PROVE  DrawerIsExplained'
    BY <1>2, <2>0, <2>1, <2>6, RefundExplained
  <2>7. ASSUME NEW r \in VoidRequests, VoidOrder(r) PROVE DrawerIsExplained'
    BY <1>2, <2>0, <2>1, <2>7, VoidExplained
  <2> QED BY <1>2, <2>0, <2>2, <2>3, <2>4, <2>5, <2>6, <2>7, Steps
<1> QED BY <1>1, <1>2, RowsAreTyped, PTL DEF Spec

--------------------------------------------------------------------------------
(* The stock. *)

(* What the rows of the tables give or take are numbers. *)
LEMMA Amounts ==
    ASSUME NEW p
    PROVE  /\ \A o \in OrderRow : QuantityIn(Quantities(o), p) \in Int
           /\ \A row \in RefundRow : QuantityIn(row.items, p) \in Int
           /\ \A row \in ImportRow : QuantityIn(row.deltas, p) \in Int
           /\ \A row \in AdjustmentRow : row.delta \in Int
<1>1. ASSUME NEW o \in OrderRow PROVE QuantityIn(Quantities(o), p) \in Int
  <2>1. o.lines \in Carts
    BY DEF OrderRow
  <2>2. \A x \in DOMAIN o.lines : o.lines[x] \in Lines
    BY <2>1 DEF Carts
  <2>3. \A x \in DOMAIN o.lines : o.lines[x].qty \in Int
    BY <2>2 DEF Lines
  <2> QED BY <2>3 DEF Quantities, QuantityIn
<1>2. ASSUME NEW row \in RefundRow PROVE QuantityIn(row.items, p) \in Int
  <2>1. row.items \in Items
    BY DEF RefundRow
  <2>2. \A x \in DOMAIN row.items : row.items[x] \in Int
    BY <2>1 DEF Items
  <2> QED BY <2>2 DEF QuantityIn
<1>3. ASSUME NEW row \in ImportRow PROVE QuantityIn(row.deltas, p) \in Int
  <2>1. row.deltas \in Deltas
    BY DEF ImportRow
  <2>2. \A x \in DOMAIN row.deltas : row.deltas[x] \in Int
    BY <2>1 DEF Deltas
  <2> QED BY <2>2 DEF QuantityIn
<1>4. ASSUME NEW row \in AdjustmentRow PROVE row.delta \in Int
  BY DEF AdjustmentRow
<1> QED BY <1>1, <1>2, <1>3, <1>4

(* A new row of a table adds what it gives or takes to the table's sum. *)
LEMMA SoldAdds ==
    ASSUME StoreTables, StoreTables', DrawerTables, NEW row, Added(orders, orders', row), NEW p
    PROVE  Sold(p)' = Sold(p) + QuantityIn(Quantities(row), p)
<1> DEFINE f == [n \in DOMAIN orders |-> QuantityIn(Quantities(orders[n]), p)]
           g == [n \in DOMAIN orders' |-> QuantityIn(Quantities(orders'[n]), p)]
<1>1. PICK x : /\ DOMAIN orders' = DOMAIN orders \union {x} /\ x \notin DOMAIN orders
               /\ \A n \in DOMAIN orders : orders'[n] = orders[n]
               /\ orders'[x] = row
  BY DEF Added
<1>2. \A n \in DOMAIN orders' : orders'[n] \in OrderRow
  BY DEF StoreTables
<1>3. \A n \in DOMAIN orders' : g[n] \in Int
  BY <1>2, Amounts
<1>4. IsFiniteSet(DOMAIN f) /\ x \notin DOMAIN f /\ DOMAIN g = DOMAIN f \union {x}
  BY <1>1, Domains
<1>5. (\A y \in DOMAIN f : g[y] = f[y] /\ g[y] \in Int) /\ g[x] \in Int
      /\ g[x] = QuantityIn(Quantities(row), p)
  BY <1>1, <1>3
<1>6. Sold(p) = SumFunction(f) /\ Sold(p)' = SumFunction(g)
  BY DEF Sold
<1> HIDE DEF f, g
<1>7. SumFunction(g) = SumFunction(f) + g[x]
  BY <1>4, <1>5, SumWhole
<1> QED BY <1>5, <1>6, <1>7

LEMMA ReturnedAdds ==
    ASSUME StoreTables, StoreTables', DrawerTables, NEW row, Added(refunds, refunds', row), NEW p
    PROVE  Returned(p)' = Returned(p) + QuantityIn(row.items, p)
<1> DEFINE f == [i \in DOMAIN refunds |-> QuantityIn(refunds[i].items, p)]
           g == [i \in DOMAIN refunds' |-> QuantityIn(refunds'[i].items, p)]
<1>1. PICK x : /\ DOMAIN refunds' = DOMAIN refunds \union {x} /\ x \notin DOMAIN refunds
               /\ \A i \in DOMAIN refunds : refunds'[i] = refunds[i]
               /\ refunds'[x] = row
  BY DEF Added
<1>2. \A i \in DOMAIN refunds' : refunds'[i] \in RefundRow
  BY DEF StoreTables
<1>3. \A i \in DOMAIN refunds' : g[i] \in Int
  BY <1>2, Amounts
<1>4. IsFiniteSet(DOMAIN f) /\ x \notin DOMAIN f /\ DOMAIN g = DOMAIN f \union {x}
  BY <1>1, Domains
<1>5. (\A y \in DOMAIN f : g[y] = f[y] /\ g[y] \in Int) /\ g[x] \in Int
      /\ g[x] = QuantityIn(row.items, p)
  BY <1>1, <1>3
<1>6. Returned(p) = SumFunction(f) /\ Returned(p)' = SumFunction(g)
  BY DEF Returned
<1> HIDE DEF f, g
<1>7. SumFunction(g) = SumFunction(f) + g[x]
  BY <1>4, <1>5, SumWhole
<1> QED BY <1>5, <1>6, <1>7

LEMMA ImportedAdds ==
    ASSUME StoreTables, StoreTables', DrawerTables, NEW row, Added(imports, imports', row), NEW p
    PROVE  Imported(p)' = Imported(p) + QuantityIn(row.deltas, p)
<1> DEFINE f == [i \in DOMAIN imports |-> QuantityIn(imports[i].deltas, p)]
           g == [i \in DOMAIN imports' |-> QuantityIn(imports'[i].deltas, p)]
<1>1. PICK x : /\ DOMAIN imports' = DOMAIN imports \union {x} /\ x \notin DOMAIN imports
               /\ \A i \in DOMAIN imports : imports'[i] = imports[i]
               /\ imports'[x] = row
  BY DEF Added
<1>2. \A i \in DOMAIN imports' : imports'[i] \in ImportRow
  BY DEF StoreTables
<1>3. \A i \in DOMAIN imports' : g[i] \in Int
  BY <1>2, Amounts
<1>4. IsFiniteSet(DOMAIN f) /\ x \notin DOMAIN f /\ DOMAIN g = DOMAIN f \union {x}
  BY <1>1, Domains
<1>5. (\A y \in DOMAIN f : g[y] = f[y] /\ g[y] \in Int) /\ g[x] \in Int
      /\ g[x] = QuantityIn(row.deltas, p)
  BY <1>1, <1>3
<1>6. Imported(p) = SumFunction(f) /\ Imported(p)' = SumFunction(g)
  BY DEF Imported
<1> HIDE DEF f, g
<1>7. SumFunction(g) = SumFunction(f) + g[x]
  BY <1>4, <1>5, SumWhole
<1> QED BY <1>5, <1>6, <1>7

LEMMA VoidedAdds ==
    ASSUME StoreTables, StoreTables', DrawerTables, References, OrdersKept,
           NEW row, Added(voids, voids', row), row.order \in DOMAIN orders, NEW p
    PROVE  Voided(p)' = Voided(p) + QuantityIn(Quantities(orders[row.order]), p)
<1> DEFINE f == [i \in DOMAIN voids |-> QuantityIn(Quantities(orders[voids[i].order]), p)]
           g == [i \in DOMAIN voids' |-> QuantityIn(Quantities(orders'[voids'[i].order]), p)]
<1>1. PICK x : /\ DOMAIN voids' = DOMAIN voids \union {x} /\ x \notin DOMAIN voids
               /\ \A i \in DOMAIN voids : voids'[i] = voids[i]
               /\ voids'[x] = row
  BY DEF Added
<1>2. \A n \in DOMAIN orders : QuantityIn(Quantities(orders[n]), p) \in Int
  BY Domains, Amounts
<1>3. \A n \in DOMAIN orders : QuantityIn(Quantities(orders'[n]), p) = QuantityIn(Quantities(orders[n]), p)
  <2>1. \A n \in DOMAIN orders : orders'[n].lines = orders[n].lines
    BY DEF OrdersKept
  <2>2. \A n \in DOMAIN orders : Quantities(orders'[n]) = Quantities(orders[n])
    BY <2>1 DEF Quantities
  <2> QED BY <2>2
<1>4. \A i \in DOMAIN voids : voids[i].order \in DOMAIN orders
  BY DEF References
<1>5. IsFiniteSet(DOMAIN f) /\ x \notin DOMAIN f /\ DOMAIN g = DOMAIN f \union {x}
  BY <1>1, Domains
<1>6. (\A y \in DOMAIN f : g[y] = f[y] /\ g[y] \in Int) /\ g[x] \in Int
      /\ g[x] = QuantityIn(Quantities(orders[row.order]), p)
  BY <1>1, <1>2, <1>3, <1>4
<1>7. Voided(p) = SumFunction(f) /\ Voided(p)' = SumFunction(g)
  BY DEF Voided
<1> HIDE DEF f, g
<1>8. SumFunction(g) = SumFunction(f) + g[x]
  BY <1>5, <1>6, SumWhole
<1> QED BY <1>6, <1>7, <1>8

LEMMA AdjustedAdds ==
    ASSUME StoreTables, StoreTables', DrawerTables,
           NEW row, Added(adjustments, adjustments', row), NEW p
    PROVE  Adjusted(p)' = Adjusted(p) + IF p \in row.products THEN row.delta ELSE 0
<1> DEFINE f == [i \in DOMAIN adjustments |-> adjustments[i].delta]
           g == [i \in DOMAIN adjustments' |-> adjustments'[i].delta]
           S == {i \in DOMAIN adjustments : p \in adjustments[i].products}
<1>1. PICK x : /\ DOMAIN adjustments' = DOMAIN adjustments \union {x} /\ x \notin DOMAIN adjustments
               /\ \A i \in DOMAIN adjustments : adjustments'[i] = adjustments[i]
               /\ adjustments'[x] = row
  BY DEF Added
<1>2. \A i \in DOMAIN adjustments' : adjustments'[i] \in AdjustmentRow
  BY DEF StoreTables
<1>3. \A i \in DOMAIN adjustments' : g[i] \in Int
  BY <1>2, Amounts
<1>4. IsFiniteSet(S) /\ x \notin S
      /\ (\A y \in S : g[y] = f[y] /\ g[y] \in Int) /\ g[x] \in Int /\ g[x] = row.delta
  BY <1>1, <1>3, Domains, FS_Subset
<1>5. S' = IF p \in row.products THEN S \union {x} ELSE S
  BY <1>1
<1>6. Adjusted(p) = SumFunctionOnSet(f, S) /\ Adjusted(p)' = SumFunctionOnSet(g, S')
  BY DEF Adjusted
<1> PICK T : T = S'
  OBVIOUS
<1> HIDE DEF f, g, S
<1>7. CASE p \in row.products
  <2>1. SumFunctionOnSet(g, S \union {x}) = SumFunctionOnSet(f, S) + g[x]
    BY <1>4, SumGrows
  <2> QED BY <1>4, <1>5, <1>6, <1>7, <2>1
<1>8. CASE p \notin row.products
  <2>1. SumFunctionOnSet(g, S) = SumFunctionOnSet(f, S)
    BY <1>4, SumSame
  <2>2. \A y \in S : f[y] \in Int
    BY <1>4
  <2>3. SumFunctionOnSet(f, S) \in Int
    BY <1>4, <2>2, SumInt
  <2> QED BY <1>4, <1>5, <1>6, <1>8, <2>1, <2>3
<1> QED BY <1>7, <1>8

(* The sums are numbers, and a table that stays keeps its sum. *)
LEMMA StockSums ==
    ASSUME StoreTables, DrawerTables, References, NEW p
    PROVE  /\ Sold(p) \in Int /\ Returned(p) \in Int /\ Voided(p) \in Int
           /\ Adjusted(p) \in Int /\ Imported(p) \in Int
<1>1. Sold(p) \in Int
  <2> DEFINE f == [n \in DOMAIN orders |-> QuantityIn(Quantities(orders[n]), p)]
  <2>1. IsFiniteSet(DOMAIN f) /\ \A n \in DOMAIN f : f[n] \in Int
    BY Domains, Amounts
  <2>2. Sold(p) = SumFunctionOnSet(f, DOMAIN f)
    BY DEF Sold, SumFunction
  <2> HIDE DEF f
  <2> QED BY <2>1, <2>2, SumInt
<1>2. Returned(p) \in Int
  <2> DEFINE f == [i \in DOMAIN refunds |-> QuantityIn(refunds[i].items, p)]
  <2>1. IsFiniteSet(DOMAIN f) /\ \A i \in DOMAIN f : f[i] \in Int
    BY Domains, Amounts
  <2>2. Returned(p) = SumFunctionOnSet(f, DOMAIN f)
    BY DEF Returned, SumFunction
  <2> HIDE DEF f
  <2> QED BY <2>1, <2>2, SumInt
<1>3. Voided(p) \in Int
  <2> DEFINE f == [i \in DOMAIN voids |-> QuantityIn(Quantities(orders[voids[i].order]), p)]
  <2>1. IsFiniteSet(DOMAIN f) /\ \A i \in DOMAIN f : f[i] \in Int
    BY Domains, Amounts DEF References
  <2>2. Voided(p) = SumFunctionOnSet(f, DOMAIN f)
    BY DEF Voided, SumFunction
  <2> HIDE DEF f
  <2> QED BY <2>1, <2>2, SumInt
<1>4. Adjusted(p) \in Int
  <2> DEFINE f == [i \in DOMAIN adjustments |-> adjustments[i].delta]
             S == {i \in DOMAIN adjustments : p \in adjustments[i].products}
  <2>1. IsFiniteSet(S) /\ \A i \in S : f[i] \in Int
    BY Domains, Amounts, FS_Subset
  <2>2. Adjusted(p) = SumFunctionOnSet(f, S)
    BY DEF Adjusted
  <2> HIDE DEF f, S
  <2> QED BY <2>1, <2>2, SumInt
<1>5. Imported(p) \in Int
  <2> DEFINE f == [i \in DOMAIN imports |-> QuantityIn(imports[i].deltas, p)]
  <2>1. IsFiniteSet(DOMAIN f) /\ \A i \in DOMAIN f : f[i] \in Int
    BY Domains, Amounts
  <2>2. Imported(p) = SumFunctionOnSet(f, DOMAIN f)
    BY DEF Imported, SumFunction
  <2> HIDE DEF f
  <2> QED BY <2>1, <2>2, SumInt
<1> QED BY <1>1, <1>2, <1>3, <1>4, <1>5

LEMMA StockSumsSame ==
    ASSUME References, NEW p
    PROVE  /\ UNCHANGED orders => Sold(p)' = Sold(p) /\ OrdersKept
           /\ UNCHANGED refunds => Returned(p)' = Returned(p)
           /\ UNCHANGED voids /\ OrdersKept => Voided(p)' = Voided(p)
           /\ UNCHANGED adjustments => Adjusted(p)' = Adjusted(p)
           /\ UNCHANGED imports => Imported(p)' = Imported(p)
           /\ \A k : OrdersStay(k) => Sold(p)' = Sold(p) /\ OrdersKept
<1>1. UNCHANGED orders => Sold(p)' = Sold(p) /\ OrdersKept
  BY DEF Sold, OrdersKept
<1>2. UNCHANGED refunds => Returned(p)' = Returned(p)
  BY DEF Returned
<1>3. UNCHANGED voids /\ OrdersKept => Voided(p)' = Voided(p)
  <2> SUFFICES ASSUME UNCHANGED voids, OrdersKept PROVE Voided(p)' = Voided(p)
    OBVIOUS
  <2>1. \A i \in DOMAIN voids : orders'[voids[i].order].lines = orders[voids[i].order].lines
    BY DEF References, OrdersKept
  <2>2. \A i \in DOMAIN voids : Quantities(orders'[voids[i].order]) = Quantities(orders[voids[i].order])
    BY <2>1 DEF Quantities
  <2>3. [i \in DOMAIN voids' |-> QuantityIn(Quantities(orders'[voids'[i].order]), p)] =
          [i \in DOMAIN voids |-> QuantityIn(Quantities(orders[voids[i].order]), p)]
    BY <2>2
  <2> QED BY <2>3 DEF Voided
<1>4. UNCHANGED adjustments => Adjusted(p)' = Adjusted(p)
  BY DEF Adjusted
<1>5. UNCHANGED imports => Imported(p)' = Imported(p)
  BY DEF Imported
<1>6. ASSUME NEW k, OrdersStay(k) PROVE Sold(p)' = Sold(p) /\ OrdersKept
  <2>1. \A n \in DOMAIN orders : orders'[n].lines = orders[n].lines /\ DOMAIN orders' = DOMAIN orders
    BY <1>6 DEF OrdersStay
  <2>2. \A n \in DOMAIN orders : Quantities(orders'[n]) = Quantities(orders[n])
    BY <2>1 DEF Quantities
  <2>3. [n \in DOMAIN orders' |-> QuantityIn(Quantities(orders'[n]), p)] =
          [n \in DOMAIN orders |-> QuantityIn(Quantities(orders[n]), p)]
    BY <1>6, <2>2 DEF OrdersStay
  <2>4. Sold(p)' = Sold(p)
    BY <2>3 DEF Sold
  <2> QED BY <1>6, <2>4 DEF OrdersStay, OrdersKept
<1> QED BY <1>1, <1>2, <1>3, <1>4, <1>5, <1>6

(* What a step does to the stock of a product and to its ledger. *)
StockMoves(p, d) ==
  /\ stock'[p] = stock[p] + d
  /\ \/ d = 0 /\ ledger'[p] = ledger[p]
     \/ ledger'[p] = Append(ledger[p], [delta |-> d, result |-> stock[p] + d])

(* The stock before the i-th row of a product's ledger. *)
Before(p, i) == IF i = 1 THEN OpeningStock[p] ELSE ledger[p][i - 1].result

Continues(p) ==
  /\ \A i \in DOMAIN ledger[p] : ledger[p][i].result = Before(p, i) + ledger[p][i].delta
  /\ stock[p] = Before(p, Len(ledger[p]) + 1)

LEMMA LedgerIsContinued == LedgerContinues <=> \A p \in Products : Continues(p)
BY DEF LedgerContinues, Continues, Before

LEMMA MovesContinue ==
    ASSUME StoreTables, NEW p \in Products, Continues(p), NEW d \in Int, StockMoves(p, d)
    PROVE  Continues(p)'
<1> PICK old, new : old = ledger[p] /\ new = ledger'[p]
  OBVIOUS
<1>1. old \in Seq(LedgerRow) /\ stock[p] \in Nat
  BY DEF StoreTables
<1>2. CASE new = old
  <2>1. d = 0 /\ stock'[p] = stock[p]
    <3>1. Append(old, [delta |-> d, result |-> stock[p] + d]) # old
      <4>1. Len(Append(old, [delta |-> d, result |-> stock[p] + d])) = Len(old) + 1 /\ Len(old) \in Nat
        BY <1>1
      <4> QED BY <4>1
    <3> QED BY <1>1, <1>2, <3>1 DEF StockMoves
  <2> QED BY <1>2, <2>1 DEF Continues, Before
<1>3. CASE new = Append(old, [delta |-> d, result |-> stock[p] + d])
  <2> PICK x : x = Len(old) + 1
    OBVIOUS
  <2>1. /\ x \in Nat /\ x > 0 /\ DOMAIN old = 1 .. (x - 1) /\ DOMAIN new = 1 .. x /\ Len(new) = x
        /\ \A i \in DOMAIN old : new[i] = old[i]
        /\ new[x].delta = d /\ new[x].result = stock[p] + d
    BY <1>1, <1>3
  <2>2. stock'[p] = stock[p] + d
    BY DEF StockMoves
  <2>3. \A i \in DOMAIN new : Before(p, i)' = Before(p, i)
    <3> SUFFICES ASSUME NEW i \in DOMAIN new PROVE Before(p, i)' = Before(p, i)
      OBVIOUS
    <3>1. i # 1 => i - 1 \in DOMAIN old
      BY <2>1
    <3> QED BY <2>1, <3>1 DEF Before
  <2>4. stock[p] = Before(p, x)
    BY DEF Continues
  <2>5. \A i \in DOMAIN old : old[i].result = Before(p, i) + old[i].delta
    BY DEF Continues
  <2>6. \A i \in DOMAIN new : new[i].result = Before(p, i)' + new[i].delta
    <3> SUFFICES ASSUME NEW i \in DOMAIN new PROVE new[i].result = Before(p, i)' + new[i].delta
      OBVIOUS
    <3>1. Before(p, i)' = Before(p, i)
      BY <2>3
    <3>2. CASE i = x
      BY <2>1, <2>4, <3>1, <3>2
    <3>3. CASE i # x
      <4>1. i \in DOMAIN old
        BY <2>1, <3>3
      <4> QED BY <2>1, <2>5, <3>1, <4>1
    <3> QED BY <3>2, <3>3
  <2>7. stock'[p] = Before(p, Len(new) + 1)'
    <3>1. x + 1 # 1 /\ (x + 1) - 1 = x /\ Len(ledger'[p]) = x
      BY <2>1
    <3>2. ledger'[p][x].result = stock[p] + d
      BY <2>1
    <3> QED BY <2>1, <2>2, <3>1, <3>2 DEF Before
  <2> QED BY <2>6, <2>7 DEF Continues
<1> QED BY <1>2, <1>3 DEF StockMoves

LEMMA DeltaMoves ==
    ASSUME StoreTables, NEW delta \in Deltas, MoveStock(delta), NEW p \in Products
    PROVE  QuantityIn(delta, p) \in Int /\ StockMoves(p, QuantityIn(delta, p))
<1>1. QuantityIn(delta, p) \in Int
  BY DEF Deltas, QuantityIn
<1>2. stock'[p] = stock[p] + QuantityIn(delta, p)
  BY DEF MoveStock
<1>3. CASE p \in DOMAIN delta
  <2>1. QuantityIn(delta, p) = delta[p]
    BY <1>3 DEF QuantityIn
  <2>2. ledger'[p] = Append(ledger[p], [delta |-> delta[p], result |-> stock[p] + delta[p]])
    BY <1>3 DEF MoveStock
  <2> QED BY <1>1, <1>2, <2>1, <2>2 DEF StockMoves
<1>4. CASE p \notin DOMAIN delta
  <2>1. QuantityIn(delta, p) = 0 /\ ledger'[p] = ledger[p]
    BY <1>4 DEF MoveStock, QuantityIn
  <2> QED BY <1>1, <1>2, <2>1 DEF StockMoves
<1> QED BY <1>3, <1>4

(* The imports of a store that add stock, or set it to a count. *)
ImportsOnlyAdd == \A r \in ImportRequests : \A p \in DOMAIN r.items : r.items[p].delta \subseteq Nat

LEMMA ImportMoves ==
    ASSUME StoreTables, ImportsOnlyAdd, NEW r \in ImportRequests, ImportCatalog(r), NEW p \in Products
    PROVE  LET deltas == [q \in ImportChanged(r) |-> ImportEffect(r, q).delta]
           IN  QuantityIn(deltas, p) \in Int /\ StockMoves(p, QuantityIn(deltas, p))
<1> DEFINE deltas == [q \in ImportChanged(r) |-> ImportEffect(r, q).delta]
<1>0. stock[p] \in Nat /\ ledger \in [Products -> Seq(LedgerRow)]
  BY DEF StoreTables
<1>1. stock'[p] = IF p \in ImportChanged(r) THEN ImportEffect(r, p).result ELSE stock[p]
  BY DEF ImportCatalog, ImportChanged, ImportEffect, ImportRows
<1>2. ledger'[p] = IF p \in ImportChanged(r) THEN Append(ledger[p], ImportEffect(r, p)) ELSE ledger[p]
  BY DEF ImportCatalog, ImportChanged, ImportEffect, ImportRows
<1>3. CASE p \notin ImportChanged(r)
  <2>1. QuantityIn(deltas, p) = 0
    BY <1>3 DEF QuantityIn
  <2> QED BY <1>0, <1>1, <1>2, <1>3, <2>1 DEF StockMoves
<1>4. CASE p \in ImportChanged(r)
  <2>1. ImportEffect(r, p) \in ImportRows(r, p)
    BY <1>4 DEF ImportChanged, ImportEffect
  <2>2. PICK d \in Int : ImportEffect(r, p) = [delta |-> d, result |-> stock[p] + d]
    <3>1. p \in DOMAIN r.items /\ ImportEffect(r, p) \in ImportChanges(r.mode, r.items[p], stock[p])
      BY <2>1 DEF ImportRows
    <3>2. \A d \in r.items[p].delta : d \in Nat
      BY <3>1 DEF ImportsOnlyAdd
    <3>3. \A c \in r.items[p].count : c \in Nat
      BY <3>1, StoreAssumption
    <3>4. ASSUME NEW d \in r.items[p].delta,
                 ImportEffect(r, p) = [delta |-> d, result |-> IF stock[p] + d > 0 THEN stock[p] + d ELSE 0]
          PROVE  d \in Int /\ ImportEffect(r, p) = [delta |-> d, result |-> stock[p] + d]
      <4>1. d \in Nat /\ (IF stock[p] + d > 0 THEN stock[p] + d ELSE 0) = stock[p] + d
        BY <1>0, <3>2
      <4> QED BY <3>4, <4>1
    <3>5. ASSUME NEW c \in r.items[p].count,
                 ImportEffect(r, p) = [delta |-> c - stock[p], result |-> c]
          PROVE  \E d \in Int : ImportEffect(r, p) = [delta |-> d, result |-> stock[p] + d]
      <4>1. c - stock[p] \in Int /\ stock[p] + (c - stock[p]) = c
        BY <1>0, <3>3
      <4> QED BY <3>5, <4>1
    <3> QED BY <3>1, <3>4, <3>5 DEF ImportChanges
  <2>3. QuantityIn(deltas, p) = d
    BY <1>4, <2>2 DEF QuantityIn
  <2> QED BY <1>1, <1>2, <1>4, <2>2, <2>3 DEF StockMoves
<1> QED BY <1>3, <1>4

Accounted(p) ==
  stock[p] = OpeningStock[p] - Sold(p) + Returned(p) + Voided(p) + Adjusted(p) + Imported(p)

StockInv == \A p \in Products : Continues(p) /\ Accounted(p)

(* The units that join or leave the stock on both sides of the equation. *)
LEMMA StaysAccounted ==
    ASSUME Types, NEW p \in Products, Continues(p), Accounted(p), NEW d \in Int, StockMoves(p, d),
           NEW a, NEW b, NEW c, NEW e, NEW f,
           a \in Int, b \in Int, c \in Int, e \in Int, f \in Int, d = -a + b + c + e + f,
           Sold(p)' = Sold(p) + a, Returned(p)' = Returned(p) + b, Voided(p)' = Voided(p) + c,
           Adjusted(p)' = Adjusted(p) + e, Imported(p)' = Imported(p) + f
    PROVE  Continues(p)' /\ Accounted(p)'
<1>0. StoreTables /\ References /\ DrawerTables
  BY DEF Types, DrawerInv
<1>1. Continues(p)'
  BY <1>0, MovesContinue
<1>2. /\ Sold(p) \in Int /\ Returned(p) \in Int /\ Voided(p) \in Int
      /\ Adjusted(p) \in Int /\ Imported(p) \in Int
  BY <1>0, StockSums
<1>3. OpeningStock[p] \in Int /\ stock'[p] = stock[p] + d
  BY StoreAssumption DEF StockMoves
<1>4. stock[p] = OpeningStock[p] - Sold(p) + Returned(p) + Voided(p) + Adjusted(p) + Imported(p)
  BY DEF Accounted
<1>5. stock'[p] = OpeningStock[p] - Sold(p)' + Returned(p)' + Voided(p)' + Adjusted(p)' + Imported(p)'
  BY <1>2, <1>3, <1>4
<1> QED BY <1>1, <1>5 DEF Accounted

LEMMA SaleAccounted ==
    ASSUME Types, Types', NEW s \in Sessions, NEW r \in CheckoutRequests, NEW k \in Nat \ {0},
           Sells(s, r, k), txn[s].request = r, NEW p \in Products, Continues(p), Accounted(p)
    PROVE  Continues(p)' /\ Accounted(p)'
<1>0. StoreTables /\ StoreTables' /\ References /\ DrawerTables
  BY DEF Types, DrawerInv
<1> DEFINE row == OrderOf(r, k)
           delta == [q \in DOMAIN r.lines |-> -r.lines[q].qty]
<1> PICK a : a = QuantityIn(Quantities(row), p)
  OBVIOUS
<1>1. Added(orders, orders', row) /\ refunds' = refunds /\ voids' = voids
        /\ adjustments' = adjustments /\ imports' = imports /\ MoveStock(delta)
  BY SellsKeeps DEF Sells, CheckoutCommits
<1>2. row \in OrderRow
  <2>1. \A n \in DOMAIN orders' : orders'[n] \in OrderRow
    BY <1>0 DEF StoreTables
  <2> QED BY <1>1, <2>1 DEF Added
<1>3. a \in Int
  BY <1>2, Amounts
<1>4. delta \in Deltas /\ QuantityIn(delta, p) = -a
  <2>1. row.lines = r.lines /\ \A q \in DOMAIN r.lines : r.lines[q].qty \in Nat /\ q \in Products
    BY StoreAssumption DEF OrderOf, Lines
  <2>2. delta \in Deltas
    BY <2>1 DEF Deltas
  <2>3. Quantities(row) = [q \in DOMAIN r.lines |-> r.lines[q].qty]
    BY <2>1 DEF Quantities
  <2>4. a = IF p \in DOMAIN r.lines THEN r.lines[p].qty ELSE 0
    BY <2>3 DEF QuantityIn
  <2>5. QuantityIn(delta, p) = IF p \in DOMAIN r.lines THEN -r.lines[p].qty ELSE 0
    BY DEF QuantityIn
  <2> QED BY <2>2, <2>4, <2>5
<1>5. QuantityIn(delta, p) \in Int /\ StockMoves(p, QuantityIn(delta, p))
  BY <1>0, <1>1, <1>4, DeltaMoves
<1> HIDE DEF row, delta
<1>6. Sold(p)' = Sold(p) + a
  BY <1>0, <1>1, SoldAdds
<1>7. /\ Returned(p)' = Returned(p) + 0 /\ Adjusted(p)' = Adjusted(p) + 0
      /\ Imported(p)' = Imported(p) + 0 /\ Voided(p)' = Voided(p) + 0
  <2>1. OrdersKept
    BY <1>0, <1>1, SalesCash
  <2> QED BY <1>0, <1>1, <2>1, StockSumsSame, StockSums
<1>8. QuantityIn(delta, p) = -a + 0 + 0 + 0 + 0 /\ 0 \in Int
  BY <1>3, <1>4
<1> QED BY <1>3, <1>5, <1>6, <1>7, <1>8, StaysAccounted

LEMMA RefundAccounted ==
    ASSUME Types, Types', NEW s \in Sessions, NEW r \in RefundRequests, NEW t \in Tokens,
           Refunds(s, r, t), txn[s].request = r, NEW p \in Products, Continues(p), Accounted(p)
    PROVE  Continues(p)' /\ Accounted(p)'
<1>0. StoreTables /\ StoreTables' /\ References /\ DrawerTables
  BY DEF Types, DrawerInv
<1> DEFINE row == RefundOf(r, t)
<1> PICK delta : delta = r.items
  OBVIOUS
<1>1. Added(refunds, refunds', row) /\ OrdersStay(r.order) /\ delta \in Items /\ row.items = delta
  BY RefundsKeeps DEF RefundOf
<1>2. voids' = voids /\ adjustments' = adjustments /\ imports' = imports /\ MoveStock(delta)
  BY DEF Refunds, RefundCommits
<1>3. delta \in Deltas
  BY <1>1 DEF Items, Deltas
<1>4. QuantityIn(delta, p) \in Int /\ StockMoves(p, QuantityIn(delta, p))
  BY <1>0, <1>2, <1>3, DeltaMoves
<1> HIDE DEF row
<1>5. Returned(p)' = Returned(p) + QuantityIn(delta, p)
  BY <1>0, <1>1, ReturnedAdds
<1>6. /\ Sold(p)' = Sold(p) + 0 /\ Adjusted(p)' = Adjusted(p) + 0
      /\ Imported(p)' = Imported(p) + 0 /\ Voided(p)' = Voided(p) + 0
  BY <1>0, <1>1, <1>2, StockSumsSame, StockSums
<1>7. QuantityIn(delta, p) = -0 + QuantityIn(delta, p) + 0 + 0 + 0 /\ 0 \in Int
  BY <1>4
<1> QED BY <1>4, <1>5, <1>6, <1>7, StaysAccounted

LEMMA VoidAccounted ==
    ASSUME Types, Types', NEW r \in VoidRequests, VoidOrder(r),
           NEW p \in Products, Continues(p), Accounted(p)
    PROVE  Continues(p)' /\ Accounted(p)'
<1>0. StoreTables /\ StoreTables' /\ References /\ DrawerTables
  BY DEF Types, DrawerInv
<1> DEFINE row == [key |-> r.key, order |-> r.order]
<1> PICK delta : delta = Quantities(orders[r.order])
  OBVIOUS
<1>1. Added(voids, voids', row) /\ OrdersStay(r.order) /\ r.order \in DOMAIN orders
        /\ row.order = r.order
  BY VoidKeeps
<1>2. refunds' = refunds /\ adjustments' = adjustments /\ imports' = imports /\ MoveStock(delta)
  BY DEF VoidOrder
<1>3. delta \in Deltas
  <2>1. orders[r.order] \in OrderRow
    BY <1>0, <1>1, Domains
  <2>2. orders[r.order].lines \in Carts
    BY <2>1 DEF OrderRow
  <2>3. /\ DOMAIN orders[r.order].lines \subseteq Products
        /\ \A q \in DOMAIN orders[r.order].lines : orders[r.order].lines[q] \in Lines
    BY <2>2 DEF Carts
  <2>4. \A q \in DOMAIN orders[r.order].lines : orders[r.order].lines[q].qty \in Int
    BY <2>3 DEF Lines
  <2> QED BY <2>3, <2>4 DEF Quantities, Deltas
<1>4. QuantityIn(delta, p) \in Int /\ StockMoves(p, QuantityIn(delta, p))
  BY <1>0, <1>2, <1>3, DeltaMoves
<1> HIDE DEF row
<1>5. Sold(p)' = Sold(p) /\ OrdersKept
  BY <1>0, <1>1, StockSumsSame
<1>6. Voided(p)' = Voided(p) + QuantityIn(delta, p)
  <2>1. row.order \in DOMAIN orders
    BY <1>1
  <2>2. Voided(p)' = Voided(p) + QuantityIn(Quantities(orders[row.order]), p)
    BY <1>0, <1>1, <1>5, <2>1, VoidedAdds
  <2> QED BY <1>1, <2>2
<1>7. /\ Sold(p)' = Sold(p) + 0 /\ Adjusted(p)' = Adjusted(p) + 0
      /\ Imported(p)' = Imported(p) + 0 /\ Returned(p)' = Returned(p) + 0
  BY <1>0, <1>2, <1>5, StockSumsSame, StockSums
<1>8. QuantityIn(delta, p) = -0 + 0 + QuantityIn(delta, p) + 0 + 0 /\ 0 \in Int
  BY <1>4
<1> QED BY <1>4, <1>6, <1>7, <1>8, StaysAccounted

LEMMA AdjustmentAccounted ==
    ASSUME Types, Types', NEW s \in Sessions, NEW r \in AdjustRequests,
           Adjusts(s, r), txn[s].request = r, NEW p \in Products, Continues(p), Accounted(p)
    PROVE  Continues(p)' /\ Accounted(p)'
<1>0. StoreTables /\ StoreTables' /\ References /\ DrawerTables
  BY DEF Types, DrawerInv
<1> DEFINE row == [key |-> r.key, products |-> r.products, delta |-> r.delta]
           delta == [q \in r.products |-> r.delta]
<1>1. Added(adjustments, adjustments', row) /\ row.products = r.products /\ row.delta = r.delta
  BY AdjustsKeeps
<1>2. orders' = orders /\ refunds' = refunds /\ voids' = voids /\ imports' = imports /\ MoveStock(delta)
  BY DEF Adjusts
<1>3. delta \in Deltas
  BY StoreAssumption DEF Deltas
<1>4. QuantityIn(delta, p) \in Int /\ StockMoves(p, QuantityIn(delta, p))
  BY <1>0, <1>2, <1>3, DeltaMoves
<1>5. QuantityIn(delta, p) = IF p \in r.products THEN r.delta ELSE 0
  BY DEF QuantityIn
<1> HIDE DEF row, delta
<1>6. Adjusted(p)' = Adjusted(p) + QuantityIn(delta, p)
  <2>1. Adjusted(p)' = Adjusted(p) + IF p \in row.products THEN row.delta ELSE 0
    BY <1>0, <1>1, AdjustedAdds
  <2> QED BY <1>1, <1>5, <2>1
<1>7. /\ Sold(p)' = Sold(p) + 0 /\ Voided(p)' = Voided(p) + 0
      /\ Imported(p)' = Imported(p) + 0 /\ Returned(p)' = Returned(p) + 0
  BY <1>0, <1>2, StockSumsSame, StockSums
<1>8. QuantityIn(delta, p) = -0 + 0 + 0 + QuantityIn(delta, p) + 0 /\ 0 \in Int
  BY <1>4
<1> QED BY <1>4, <1>6, <1>7, <1>8, StaysAccounted

LEMMA ImportAccounted ==
    ASSUME ImportsOnlyAdd, Types, Types', NEW r \in ImportRequests, ImportCatalog(r),
           NEW p \in Products, Continues(p), Accounted(p)
    PROVE  Continues(p)' /\ Accounted(p)'
<1>0. StoreTables /\ StoreTables' /\ References /\ DrawerTables
  BY DEF Types, DrawerInv
<1> PICK delta : delta = [q \in ImportChanged(r) |-> ImportEffect(r, q).delta]
  OBVIOUS
<1> DEFINE row == [key |-> r.key, deltas |-> delta]
<1>1. Added(imports, imports', row) /\ row.deltas = delta
  BY ImportKeeps
<1>2. orders' = orders /\ refunds' = refunds /\ voids' = voids /\ adjustments' = adjustments
  BY DEF ImportCatalog
<1>4. QuantityIn(delta, p) \in Int /\ StockMoves(p, QuantityIn(delta, p))
  BY <1>0, ImportMoves
<1> HIDE DEF row
<1>6. Imported(p)' = Imported(p) + QuantityIn(delta, p)
  BY <1>0, <1>1, ImportedAdds
<1>7. /\ Sold(p)' = Sold(p) + 0 /\ Voided(p)' = Voided(p) + 0
      /\ Adjusted(p)' = Adjusted(p) + 0 /\ Returned(p)' = Returned(p) + 0
  BY <1>0, <1>2, StockSumsSame, StockSums
<1>8. QuantityIn(delta, p) = -0 + 0 + 0 + 0 + QuantityIn(delta, p) /\ 0 \in Int
  BY <1>4
<1> QED BY <1>4, <1>6, <1>7, <1>8, StaysAccounted

(* The stock of a product is the one that the sales, refunds, voids, adjustments  *)
(* and imports of the store account for, and its ledger leads there row by row,   *)
(* in a store whose imports add stock or set it to a count.                       *)
THEOREM StocksAreExplained == ASSUME ImportsOnlyAdd PROVE Spec => []StockIsExplained
<1>1. Init => StockInv
  <2> SUFFICES ASSUME Init, NEW p \in Products PROVE Continues(p) /\ Accounted(p)
    BY DEF StockInv
  <2>1. /\ orders = << >> /\ refunds = << >> /\ voids = << >> /\ adjustments = << >>
        /\ imports = << >> /\ ledger[p] = << >> /\ stock[p] = OpeningStock[p]
    BY DEF Init
  <2>2. \A f : DOMAIN f = {} => SumFunction(f) = 0
    BY SumEmpty DEF SumFunction
  <2>3. Sold(p) = 0 /\ Returned(p) = 0 /\ Voided(p) = 0 /\ Imported(p) = 0
    BY <2>1, <2>2 DEF Sold, Returned, Voided, Imported
  <2>4. Adjusted(p) = 0
    <3>1. {i \in DOMAIN adjustments : p \in adjustments[i].products} = {}
      BY <2>1
    <3> QED BY <3>1, SumEmpty DEF Adjusted
  <2>5. OpeningStock[p] \in Nat
    BY StoreAssumption
  <2>6. Accounted(p)
    BY <2>1, <2>3, <2>4, <2>5 DEF Accounted
  <2>7. Continues(p)
    BY <2>1 DEF Continues, Before
  <2> QED BY <2>6, <2>7
<1>2. ASSUME Types, Types', StockInv, [Next]_vars PROVE StockInv'
  <2>0. StoreTables /\ DrawerTables /\ References
    BY <1>2 DEF Types, DrawerInv
  <2> SUFFICES ASSUME NEW p \in Products PROVE Continues(p)' /\ Accounted(p)'
    BY DEF StockInv
  <2>1. Continues(p) /\ Accounted(p)
    BY <1>2 DEF StockInv
  <2>2. ASSUME UNCHANGED tables PROVE Continues(p)' /\ Accounted(p)'
    <3>1. /\ orders' = orders /\ refunds' = refunds /\ voids' = voids /\ adjustments' = adjustments
          /\ imports' = imports /\ stock' = stock /\ ledger' = ledger
      BY <2>2 DEF tables
    <3>2. /\ Sold(p)' = Sold(p) /\ Returned(p)' = Returned(p) /\ Voided(p)' = Voided(p)
          /\ Adjusted(p)' = Adjusted(p) /\ Imported(p)' = Imported(p)
      BY <2>0, <3>1, StockSumsSame
    <3> QED BY <2>1, <3>1, <3>2 DEF Accounted, Continues, Before
  <2>3. Drawer \/ Quiet => UNCHANGED tables
    BY DEF Drawer, Quiet, storeVars, tables
  <2>4. ASSUME NEW s \in Sessions, NEW r \in CheckoutRequests, NEW k \in Nat \ {0},
               Sells(s, r, k), txn[s].request = r
        PROVE  Continues(p)' /\ Accounted(p)'
    BY <1>2, <2>1, <2>4, SaleAccounted
  <2>5. ASSUME NEW s \in Sessions, NEW r \in RefundRequests, NEW t \in Tokens,
               Refunds(s, r, t), txn[s].request = r
        PROVE  Continues(p)' /\ Accounted(p)'
    BY <1>2, <2>1, <2>5, RefundAccounted
  <2>6. ASSUME NEW s \in Sessions, NEW r \in AdjustRequests, Adjusts(s, r), txn[s].request = r
        PROVE  Continues(p)' /\ Accounted(p)'
    BY <1>2, <2>1, <2>6, AdjustmentAccounted
  <2>7. ASSUME NEW r \in VoidRequests, VoidOrder(r) PROVE Continues(p)' /\ Accounted(p)'
    BY <1>2, <2>1, <2>7, VoidAccounted
  <2>8. ASSUME NEW r \in ImportRequests, ImportCatalog(r) PROVE Continues(p)' /\ Accounted(p)'
    BY <1>2, <2>1, <2>8, ImportAccounted
  <2> QED BY <1>2, <2>0, <2>2, <2>3, <2>4, <2>5, <2>6, <2>7, <2>8, Steps
<1>3. StockInv => StockIsExplained
  BY LedgerIsContinued DEF StockInv, StockIsExplained, Accounted
<1> QED BY <1>1, <1>2, <1>3, RowsAreTyped, PTL DEF Spec
================================================================================
