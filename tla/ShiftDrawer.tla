------------------------------ MODULE ShiftDrawer ------------------------------
(* The cash drawer of a store: server/shift/shift-service.ts and the tables      *)
(* prodx_shifts, prodx_cash_movements and prodx_shift_operations.                *)
(*                                                                               *)
(* Each operation is one transaction whose first statement claims its key: a     *)
(* second call with the key waits for the first one to end.  The register row    *)
(* (opening) or the shift row (closing, moving cash) is locked before anything   *)
(* is read from it and until the commit, so a committed operation is one step.   *)
(* A replay, and an operation that fails, leave the tables as they are.          *)
EXTENDS Integers, Sequences, FiniteSets, FiniteSetsExt

CONSTANTS
  OpenRequests,    \* calls of openShift: [key, register, cashier, float]
  CloseRequests,   \* calls of closeShift: [key, shift, counted]
  CashRequests     \* calls of recordCashMovement: [key, shift, type, amount]

(* What cents() lets through. *)
ASSUME DrawerAssumption ==
  /\ \A r \in OpenRequests : r.float \in Nat
  /\ \A r \in CloseRequests : r.counted \in Nat
  /\ \A r \in CashRequests : r.amount \in Nat

VARIABLES
  shifts,   \* prodx_shifts in the order of their inserts: [register, cashier, float, status, counted]
  moves,    \* prodx_cash_movements in the order of their inserts: [shift, type, amount]
  ops       \* prodx_shift_operations: [type, key, payload, result]

drawerVars == <<shifts, moves, ops>>

ManualTypes == {"paid_in", "paid_out", "drawer_drop"}
MoveTypes   == ManualTypes \union {"opening_float", "cash_sale", "cash_refund"}
\* Mutant of Outflows: a refund counts as money taken in.
OutflowsManual == {"paid_out", "drawer_drop"}

Outflows    == {"cash_refund", "paid_out", "drawer_drop"}
OpTypes     == {"open_shift", "close_shift", "cash_movement"}

NotCounted == -1   \* actual_counted_cash_amount IS NULL

(* A request without its key: what operation() hashes. *)
OpenPayload(r)  == [register |-> r.register, cashier |-> r.cashier, float |-> r.float]
ClosePayload(r) == [shift |-> r.shift, counted |-> r.counted]
CashPayload(r)  == [shift |-> r.shift, type |-> r.type, amount |-> r.amount]

\* Mutant of Unclaimed: a replay does not return early.
ReplayRunsAgain(type, key) == type \in OpTypes /\ key = key

(* The key of an operation is free: the claiming INSERT returns a row. *)
Unclaimed(type, key) == \A o \in ops : ~(o.type = type /\ o.key = key)

Operation(type, key, payload, result) ==
  [type |-> type, key |-> key, payload |-> payload, result |-> result]

IsOpen(n) == n \in DOMAIN shifts /\ shifts[n].status = "open"

OpenShiftsOf(register) == {n \in DOMAIN shifts : IsOpen(n) /\ shifts[n].register = register}

SignedAmount(i) == IF moves[i].type \in Outflows THEN -moves[i].amount ELSE moves[i].amount

MovesOf(n) == {i \in DOMAIN moves : moves[i].shift = n}

(* loadShift: the cash a shift expects in its drawer. *)
Expected(n) == SumFunctionOnSet([i \in DOMAIN moves |-> SignedAmount(i)], MovesOf(n))

DrawerInit ==
  /\ shifts = << >>
  /\ moves = << >>
  /\ ops = {}

\* Mutant of OpenShift: the look at the register's open shifts is left out.
OpenShiftUnchecked(r) ==
  /\ Unclaimed("open_shift", r.key)
  /\ r.float > 0
  /\ LET n == Len(shifts) + 1 IN
       /\ shifts' = Append(shifts, [register |-> r.register, cashier |-> r.cashier,
                                    float |-> r.float, status |-> "open", counted |-> NotCounted])
       /\ moves' = Append(moves, [shift |-> n, type |-> "opening_float", amount |-> r.float])
       /\ ops' = ops \union {Operation("open_shift", r.key, OpenPayload(r), n)}

(* openShift.  The movement of the float must have an amount above zero           *)
(* (prodx_cash_valid): a float of zero passes the service and fails there.        *)
OpenShift(r) ==
  /\ Unclaimed("open_shift", r.key)
  /\ OpenShiftsOf(r.register) = {}
  /\ r.float > 0
  /\ LET n == Len(shifts) + 1 IN
       /\ shifts' = Append(shifts, [register |-> r.register, cashier |-> r.cashier,
                                    float |-> r.float, status |-> "open", counted |-> NotCounted])
       /\ moves' = Append(moves, [shift |-> n, type |-> "opening_float", amount |-> r.float])
       /\ ops' = ops \union {Operation("open_shift", r.key, OpenPayload(r), n)}

CloseShift(r) ==
  /\ Unclaimed("close_shift", r.key)
  /\ IsOpen(r.shift)
  /\ shifts' = [shifts EXCEPT ![r.shift].status = "closed", ![r.shift].counted = r.counted]
  /\ ops' = ops \union {Operation("close_shift", r.key, ClosePayload(r), r.shift)}
  /\ UNCHANGED moves

RecordCashMovement(r) ==
  /\ Unclaimed("cash_movement", r.key)
  /\ r.type \in ManualTypes
  /\ r.amount > 0
  /\ IsOpen(r.shift)
  /\ moves' = Append(moves, CashPayload(r))
  /\ ops' = ops \union {Operation("cash_movement", r.key, CashPayload(r), Len(moves) + 1)}
  /\ UNCHANGED shifts

(* The three operations, for a specification that adds tables of its own. *)
DrawerNext ==
  \/ \E r \in OpenRequests : OpenShift(r)
  \/ \E r \in CloseRequests : CloseShift(r)
  \/ \E r \in CashRequests : RecordCashMovement(r)

DrawerSpec == DrawerInit /\ [][DrawerNext]_drawerVars

--------------------------------------------------------------------------------
(* The three tables hold rows of their types, and a row refers to rows that exist. *)
DrawerTypeOK ==
  /\ \A n \in DOMAIN shifts :
       /\ shifts[n].status \in {"open", "closed"}
       /\ shifts[n].float \in Nat \ {0}
       /\ shifts[n].counted \in Nat \union {NotCounted}
       /\ shifts[n].status = "open" <=> shifts[n].counted = NotCounted
  /\ \A i \in DOMAIN moves :
       /\ moves[i].shift \in DOMAIN shifts
       /\ moves[i].type \in MoveTypes
       /\ moves[i].amount \in Nat \ {0}
  /\ \A o \in ops : o.type \in OpTypes

(* Two cashiers, or one cashier twice, never have two open shifts on one register: *)
(* every sale of a register finds one drawer.                                      *)
OneOpenShift ==
  \A m, n \in DOMAIN shifts :
    IsOpen(m) /\ IsOpen(n) /\ shifts[m].register = shifts[n].register => m = n

(* However often a call is repeated, under its key or with another payload, its    *)
(* effect is in the tables once: shifts and openings, closings and counts, manual  *)
(* movements and their operations match one to one.                                *)
OperationsOnce ==
  LET Done(type) == {o \in ops : o.type = type}
      Manual == {i \in DOMAIN moves : moves[i].type \in ManualTypes}
      Floats == {i \in DOMAIN moves : moves[i].type = "opening_float"}
  IN
  /\ \A o, q \in ops : o.type = q.type /\ (o.key = q.key \/ o.result = q.result) => o = q
  /\ {o.result : o \in Done("open_shift")} = DOMAIN shifts
  /\ {moves[i].shift : i \in Floats} = DOMAIN shifts /\ Cardinality(Floats) = Len(shifts)
  /\ {o.result : o \in Done("close_shift")} = {n \in DOMAIN shifts : shifts[n].status = "closed"}
  /\ {o.result : o \in Done("cash_movement")} = Manual
  /\ \A o \in Done("cash_movement") : moves[o.result] = o.payload
  /\ \A o \in Done("close_shift") : shifts[o.result].counted = o.payload.counted

(* The count of a closed shift was taken against a drawer that stays what it was:  *)
(* the shift is not opened again, counted again, or given another movement, and no *)
(* movement of it is changed.                                                      *)
ClosedIsFinal ==
  [][\A n \in DOMAIN shifts : shifts[n].status = "closed" =>
       /\ n \in DOMAIN shifts' /\ shifts'[n] = shifts[n]
       /\ MovesOf(n)' = MovesOf(n)
       /\ \A i \in MovesOf(n) : moves'[i] = moves[i]]_<<shifts, moves>>

================================================================================
