------------------------------ MODULE StoreLedger ------------------------------
(* One store's sales and their reversals: checkout-service.ts, refund-service.ts, *)
(* void-service.ts and inventory-adjustment-service.ts under server/transactions, *)
(* the stock of catalog-import-route.ts, the supervisor's authorizations they     *)
(* consume (server/auth) and the cash drawer they post to (ShiftDrawer).          *)
(*                                                                                *)
(* Checkout, refund and adjustment first look their key up without a lock; then   *)
(* they lock what they read (order or shift, products, token) and hold the locks  *)
(* to the commit.  The look-up is a step and the rest of the transaction is one   *)
(* more, at its commit: everything it decides on is locked by then, except the    *)
(* key, which the unique index of the table decides.  A void locks its order      *)
(* first, an import inserts its key first, and each is one step.                  *)
EXTENDS ShiftDrawer

CONSTANTS
  Sessions,          \* database connections of the server
  Products, OpeningStock,
  CheckoutRequests,  \* [kind, key, register, cashier, lines, cash, card]
  RefundRequests,    \* [kind, key, order, amount, items, requester, token]
  VoidRequests,      \* [key, order, requester, token]
  AdjustRequests,    \* [kind, key, products, delta]
  ImportRequests,    \* [key, mode, items]; an item may have a count and a delta: sets of at most one number
  Tokens             \* authorizations that may be granted: [id, requester, supervisor, action, order]

(* What the services let through, and the types of the tables' columns. *)
Lines == [qty : Nat \ {0}, total : Nat]

ASSUME StoreAssumption ==
  /\ OpeningStock \in [Products -> Nat]
  /\ \A r \in CheckoutRequests :
       /\ r.kind = "checkout" /\ r.cash \in Nat /\ r.card \in Nat
       /\ DOMAIN r.lines \subseteq Products /\ IsFiniteSet(DOMAIN r.lines)
       /\ r.lines \in [DOMAIN r.lines -> Lines]
  /\ \A r \in RefundRequests :
       /\ r.kind = "refund" /\ r.amount \in Nat \ {0}
       /\ DOMAIN r.items \subseteq Products /\ IsFiniteSet(DOMAIN r.items)
       /\ r.items \in [DOMAIN r.items -> Nat \ {0}]
  /\ \A r \in AdjustRequests :
       r.kind = "adjust" /\ r.delta \in Int \ {0} /\ r.products \subseteq Products
  /\ \A r \in ImportRequests :
       /\ DOMAIN r.items \subseteq Products
       /\ \A p \in DOMAIN r.items :
            /\ r.items[p].count \subseteq Nat /\ r.items[p].delta \subseteq Int
            /\ \A c, d \in r.items[p].count : c = d
            /\ \A c, d \in r.items[p].delta : c = d

VARIABLES
  orders,       \* prodx_orders with items and payments: [key, shift, lines, cash, card, status]
  refunds,      \* prodx_refunds with items: [key, order, amount, items, requester, supervisor]
  voids,        \* prodx_voids: [key, order]
  adjustments,  \* prodx_inventory_adjustments: [key, products, delta]
  imports,      \* prodx_catalog_import_operations: [key, deltas]
  stock,        \* prodx_products.current_stock
  ledger,       \* prodx_inventory_ledger, per product: [delta, result]
  tokens,       \* prodx_supervisor_authorizations: absent, granted, spent or expired
  txn           \* what each session is doing or has answered

storeVars == <<orders, refunds, voids, adjustments, imports, stock, ledger, tokens, txn>>
vars == <<drawerVars, storeVars>>

Statuses == {"server_confirmed", "refunded", "voided"}

Refused   == 0    \* the service throws, the transaction rolls back
Rejected  == -1   \* a deferred constraint trigger fails the COMMIT

--------------------------------------------------------------------------------
(* Amounts and quantities. *)

TotalOf(o) == SumFunction([p \in DOMAIN o.lines |-> o.lines[p].total])

QuantityIn(items, p) == IF p \in DOMAIN items THEN items[p] ELSE 0

Quantities(o) == [p \in DOMAIN o.lines |-> o.lines[p].qty]

RefundsOf(n) == {i \in DOMAIN refunds : refunds[i].order = n}

RefundedAmount(n) == SumFunctionOnSet([i \in DOMAIN refunds |-> refunds[i].amount], RefundsOf(n))

RefundedQuantity(n, p) ==
  SumFunctionOnSet([i \in DOMAIN refunds |-> QuantityIn(refunds[i].items, p)], RefundsOf(n))

RoundDivide(a, b) == (a + b \div 2) \div b

(* The part of a line's total that its first k units are worth. *)
Share(line, k) == RoundDivide(line.total * k, line.qty)

(* What the next q units of a line are worth: what they add to the rounded share  *)
(* of the units refunded so far.                                                  *)
Allocation(n, p, q) ==
  LET before == RefundedQuantity(n, p)
  IN Share(orders[n].lines[p], before + q) - Share(orders[n].lines[p], before)

RestockValue(n, items) == SumFunction([p \in DOMAIN items |-> Allocation(n, p, items[p])])

KeyRows(table, key) == {i \in DOMAIN table : table[i].key = key}

\* Mutant of MoveStock: resulting_stock is the stock that was read, not the one written.
MoveStockStale(delta) ==
  /\ stock' = [p \in Products |-> stock[p] + QuantityIn(delta, p)]
  /\ ledger' = [p \in Products |->
       IF p \in DOMAIN delta THEN Append(ledger[p], [delta |-> delta[p], result |-> stock[p]])
                             ELSE ledger[p]]

(* current_stock and the ledger row that records it move together. *)
MoveStock(delta) ==
  /\ stock' = [p \in Products |-> stock[p] + QuantityIn(delta, p)]
  /\ ledger' = [p \in Products |->
       IF p \in DOMAIN delta
       THEN Append(ledger[p], [delta |-> delta[p], result |-> stock[p] + delta[p]])
       ELSE ledger[p]]

PostCash(n, type, amount) ==
  moves' = IF amount > 0 THEN Append(moves, [shift |-> n, type |-> type, amount |-> amount])
                         ELSE moves

--------------------------------------------------------------------------------
(* Sessions. *)

Idle == [at |-> "idle"]
Working(r) == [at |-> "working", request |-> r]
Answered(r, answer) == [at |-> "answered", request |-> r, answer |-> answer]

Free(s) == txn[s].at # "working"
Runs(s, kind) == txn[s].at = "working" /\ txn[s].request.kind = kind
Answer(s, answer) == txn' = [txn EXCEPT ![s] = Answered(txn[s].request, answer)]

tables == <<orders, refunds, voids, adjustments, imports, stock, ledger>>

Init ==
  /\ DrawerInit
  /\ orders = << >> /\ refunds = << >> /\ voids = << >> /\ adjustments = << >> /\ imports = << >>
  /\ stock = OpeningStock
  /\ ledger = [p \in Products |-> << >>]
  /\ tokens = [t \in Tokens |-> "absent"]
  /\ txn = [s \in Sessions |-> Idle]

(* The unlocked look-up that starts a transaction: a row under the key answers it, *)
(* with Refused when the service compares the row with the request and they differ.*)
LookUp(s, r, found, same) ==
  /\ Free(s)
  /\ \/ /\ found = {}
        /\ txn' = [txn EXCEPT ![s] = Working(r)]
     \/ \E i \in found :
          txn' = [txn EXCEPT ![s] = Answered(r, IF i \in same THEN i ELSE Refused)]
  /\ UNCHANGED <<drawerVars, tables, tokens>>

--------------------------------------------------------------------------------
(* Checkout. *)

(* Neither look-up of a checkout compares the order with the request. *)
CheckoutLookUp(s, r) == LookUp(s, r, KeyRows(orders, r.key), DOMAIN orders)

\* Mutant of ShiftFor: the status of the shift is not in the query.
ShiftForAny(r) == {n \in DOMAIN shifts : shifts[n].register = r.register /\ shifts[n].cashier = r.cashier}

(* The shift a checkout locks: open, of its register and its cashier. *)
ShiftFor(r) == {n \in OpenShiftsOf(r.register) : shifts[n].cashier = r.cashier}

\* Mutant of InStock: the stock is not looked at again when it is decremented.
InStockOnce(lines) == \A p \in DOMAIN lines : stock[p] > 0

InStock(lines) == \A p \in DOMAIN lines : lines[p].qty <= stock[p]

\* Mutant of KeyTaken: the INSERT has no unique index to conflict with.
KeyTakenByNobody(table, key) == table = << >> /\ key = ""

KeyTaken(table, key) == KeyRows(table, key) # {}

OrderOf(r, n) == [key |-> r.key, shift |-> n, lines |-> r.lines, cash |-> r.cash,
                  card |-> r.card, status |-> "server_confirmed"]

(* The cash a checkout leaves in the drawer: tendered less change. *)
CashLeft(r) == r.cash

(* The new order with its items and payments, the stock it takes and the cash.    *)
CheckoutCommits(s, r, n) ==
  /\ ~KeyTaken(orders, r.key)
  /\ InStock(r.lines)
  /\ orders' = Append(orders, OrderOf(r, n))
  /\ MoveStock([p \in DOMAIN r.lines |-> -r.lines[p].qty])
  /\ PostCash(n, "cash_sale", CashLeft(r))
  /\ Answer(s, Len(orders) + 1)
  /\ UNCHANGED <<shifts, ops, refunds, voids, adjustments, imports, tokens>>

CheckoutFinish(s) ==
  LET r == txn[s].request IN
  /\ Runs(s, "checkout")
  /\ \/ \E n \in ShiftFor(r) :
          /\ r.cash + r.card = TotalOf(r)
          /\ CheckoutCommits(s, r, n)
     \/ /\ ShiftFor(r) # {} /\ r.cash + r.card = TotalOf(r)
        /\ \E i \in KeyRows(orders, r.key) : Answer(s, i)
        /\ UNCHANGED <<drawerVars, tables, tokens>>
     \/ /\ \/ ShiftFor(r) = {}
           \/ r.cash + r.card # TotalOf(r)
           \/ ~KeyTaken(orders, r.key) /\ ~InStock(r.lines)
        /\ Answer(s, Refused)
        /\ UNCHANGED <<drawerVars, tables, tokens>>

--------------------------------------------------------------------------------
(* Supervisor authorization. *)

Authorize(t) ==
  /\ tokens[t] = "absent"
  /\ tokens' = [tokens EXCEPT ![t] = "granted"]
  /\ UNCHANGED <<drawerVars, tables, txn>>

(* Two minutes pass. *)
Expire(t) ==
  /\ tokens[t] = "granted"
  /\ tokens' = [tokens EXCEPT ![t] = "expired"]
  /\ UNCHANGED <<drawerVars, tables, txn>>

\* Mutant of Consumable: consumed_at is not looked at.
ConsumableTwice(r, action) ==
  {t \in Tokens : /\ t.id = r.token /\ t.action = action
                  /\ t.order = r.order /\ t.requester = r.requester
                  /\ tokens[t] \in {"granted", "spent"}}

(* The authorization a request can consume: not consumed, not expired, and bound  *)
(* to its order, its requester (with session) and its action.                     *)
Consumable(r, action) ==
  {t \in Tokens : /\ t.id = r.token /\ t.action = action
                  /\ t.order = r.order /\ t.requester = r.requester
                  /\ tokens[t] = "granted"}

Consume(t) == tokens' = [tokens EXCEPT ![t] = "spent"]

--------------------------------------------------------------------------------
(* Refund. *)

\* Mutant of SameRefund: the amount is not compared.
SameRefundOrder(f, r) == f.order = r.order /\ f.items = r.items /\ f.requester = r.requester

SameRefund(f, r) ==
  /\ f.order = r.order /\ f.amount = r.amount
  /\ f.items = r.items /\ f.requester = r.requester

RefundLookUp(s, r) ==
  LookUp(s, r, KeyRows(refunds, r.key), {i \in DOMAIN refunds : SameRefund(refunds[i], r)})

\* Mutant of IsConfirmed: the order's status is not looked at.
IsKnown(n) == n \in DOMAIN orders

IsConfirmed(n) == n \in DOMAIN orders /\ orders[n].status = "server_confirmed"

\* Mutant of WithinBalance: the refunds made before are not read.
WithinTotal(r) == r.amount <= TotalOf(orders[r.order])

WithinBalance(r) == RefundedAmount(r.order) + r.amount <= TotalOf(orders[r.order])

(* The guards of a refund up to its INSERT. *)
Refundable(r) == /\ IsConfirmed(r.order)
                 /\ WithinBalance(r)
                 /\ IsOpen(orders[r.order].shift)

Restockable(r) ==
  /\ \A p \in DOMAIN r.items :
       /\ p \in DOMAIN orders[r.order].lines
       /\ RefundedQuantity(r.order, p) + r.items[p] <= orders[r.order].lines[p].qty
  /\ RestockValue(r.order, r.items) <= r.amount

(* prodx_validate_refund_commit looks for an audit event of the authorizer; the   *)
(* service has written one of the requester.                                      *)
AuditMatches(r, t) == t.supervisor = r.requester

RefundOf(r, t) == [key |-> r.key, order |-> r.order, amount |-> r.amount, items |-> r.items,
                   requester |-> r.requester, supervisor |-> t.supervisor]

\* Mutant of StatusAfter: the status is decided on the amount of this refund.
StatusAfterThis(r) ==
  IF r.amount = TotalOf(orders[r.order]) THEN "refunded" ELSE "server_confirmed"

StatusAfter(r) ==
  IF RefundedAmount(r.order) + r.amount = TotalOf(orders[r.order])
  THEN "refunded" ELSE "server_confirmed"

(* The refund with its items, the stock it returns, the cash it takes and the     *)
(* status it leaves.                                                              *)
RefundCommits(s, r, t) ==
  /\ Restockable(r) /\ AuditMatches(r, t)
  /\ refunds' = Append(refunds, RefundOf(r, t))
  /\ MoveStock(r.items)
  /\ PostCash(orders[r.order].shift, "cash_refund", r.amount)
  /\ orders' = [orders EXCEPT ![r.order].status = StatusAfter(r)]
  /\ Consume(t)
  /\ Answer(s, Len(refunds) + 1)
  /\ UNCHANGED <<shifts, ops, voids, adjustments, imports>>

RefundFinish(s) ==
  LET r == txn[s].request IN
  /\ Runs(s, "refund")
  /\ \/ \E t \in Consumable(r, "refund") :
          /\ Refundable(r) /\ ~KeyTaken(refunds, r.key)
          /\ RefundCommits(s, r, t)
     \/ \* A copy that lost the race for the key: its answer commits, and the token is spent.
        \E t \in Consumable(r, "refund"), i \in KeyRows(refunds, r.key) :
          /\ Refundable(r) /\ SameRefund(refunds[i], r)
          /\ Consume(t)
          /\ Answer(s, i)
          /\ UNCHANGED <<drawerVars, tables>>
     \/ /\ \/ Consumable(r, "refund") = {}
           \/ ~Refundable(r)
           \/ \E i \in KeyRows(refunds, r.key) : ~SameRefund(refunds[i], r)
           \/ Refundable(r) /\ ~KeyTaken(refunds, r.key) /\ ~Restockable(r)
        /\ Answer(s, Refused)
        /\ UNCHANGED <<drawerVars, tables, tokens>>
     \/ \E t \in Consumable(r, "refund") :
          /\ Refundable(r) /\ ~KeyTaken(refunds, r.key) /\ Restockable(r)
          /\ ~AuditMatches(r, t)
          /\ Answer(s, Rejected)
          /\ UNCHANGED <<drawerVars, tables, tokens>>

--------------------------------------------------------------------------------
(* Void: the order's whole total leaves the drawer, all its items return.  Its    *)
(* payments are in cash, and there is one.                                        *)

VoidOrder(r) ==
  /\ IsConfirmed(r.order)
  /\ \A i \in DOMAIN voids : voids[i].key # r.key /\ voids[i].order # r.order
  /\ orders[r.order].card = 0 /\ orders[r.order].cash > 0
  /\ IsOpen(orders[r.order].shift)
  /\ \E t \in Consumable(r, "void") : Consume(t)
  /\ voids' = Append(voids, [key |-> r.key, order |-> r.order])
  /\ MoveStock(Quantities(orders[r.order]))
  /\ PostCash(orders[r.order].shift, "cash_refund", TotalOf(orders[r.order]))
  /\ orders' = [orders EXCEPT ![r.order].status = "voided"]
  /\ UNCHANGED <<shifts, ops, refunds, adjustments, imports, txn>>

--------------------------------------------------------------------------------
(* Inventory adjustment. *)

SameAdjustment(a, r) == a.products = r.products /\ a.delta = r.delta

AdjustLookUp(s, r) ==
  LookUp(s, r, KeyRows(adjustments, r.key),
         {i \in DOMAIN adjustments : SameAdjustment(adjustments[i], r)})

NotNegative(r) == \A p \in r.products : stock[p] + r.delta >= 0

AdjustFinish(s) ==
  LET r == txn[s].request IN
  /\ Runs(s, "adjust")
  /\ \/ /\ NotNegative(r) /\ ~KeyTaken(adjustments, r.key)
        /\ adjustments' = Append(adjustments, [key |-> r.key, products |-> r.products, delta |-> r.delta])
        /\ MoveStock([p \in r.products |-> r.delta])
        /\ Answer(s, Len(adjustments) + 1)
        /\ UNCHANGED <<drawerVars, orders, refunds, voids, imports, tokens>>
     \/ /\ ~NotNegative(r) \/ KeyTaken(adjustments, r.key)
        /\ Answer(s, Refused)
        /\ UNCHANGED <<drawerVars, tables, tokens>>

--------------------------------------------------------------------------------
(* Catalog import of products the store has: their counted or added stock.        *)

(* What an item does to a stock of now units, if anything.  A delta below the     *)
(* stock is cut off at zero, and recorded as it was asked for.                    *)
ImportChanges(mode, item, now) ==
  IF mode # "stock_override" /\ item.delta # {}
  THEN {[delta |-> d, result |-> IF now + d > 0 THEN now + d ELSE 0] : d \in item.delta}
  ELSE {[delta |-> c - now, result |-> c] : c \in IF mode = "stock_replenish" THEN {} ELSE item.count}

(* A replay of the key is answered with the stored result, and another payload    *)
(* under it with a conflict; neither changes a table.                             *)
ImportCatalog(r) ==
  LET Rows(p) == IF p \in DOMAIN r.items
                 THEN {c \in ImportChanges(r.mode, r.items[p], stock[p]) : c.delta # 0} ELSE {}
      Row(p)  == CHOOSE c \in Rows(p) : TRUE
      Changed == {p \in Products : Rows(p) # {}}
  IN /\ \A i \in DOMAIN imports : imports[i].key # r.key
     /\ stock' = [p \in Products |-> IF p \in Changed THEN Row(p).result ELSE stock[p]]
     /\ ledger' = [p \in Products |-> IF p \in Changed THEN Append(ledger[p], Row(p)) ELSE ledger[p]]
     /\ imports' = Append(imports, [key |-> r.key, deltas |-> [p \in Changed |-> Row(p).delta]])
     /\ UNCHANGED <<drawerVars, orders, refunds, voids, adjustments, tokens, txn>>

(* A deadlock, an inactive product or member, a lost connection: nothing is kept. *)
RollBack(s) ==
  /\ txn[s].at = "working"
  /\ Answer(s, Refused)
  /\ UNCHANGED <<drawerVars, tables, tokens>>

Drawer == DrawerNext /\ UNCHANGED storeVars

Next ==
  \/ \E s \in Sessions :
       \/ \E r \in CheckoutRequests : CheckoutLookUp(s, r)
       \/ \E r \in RefundRequests : RefundLookUp(s, r)
       \/ \E r \in AdjustRequests : AdjustLookUp(s, r)
       \/ CheckoutFinish(s) \/ RefundFinish(s) \/ AdjustFinish(s) \/ RollBack(s)
  \/ \E r \in VoidRequests : VoidOrder(r)
  \/ \E r \in ImportRequests : ImportCatalog(r)
  \/ \E t \in Tokens : Authorize(t) \/ Expire(t)
  \/ Drawer

Spec == Init /\ [][Next]_vars

--------------------------------------------------------------------------------
(* The tables hold rows of their types that refer to rows that exist; no status   *)
(* but the three of the table's CHECK.                                            *)
TypeOK ==
  /\ DrawerTypeOK
  /\ \A n \in DOMAIN orders : /\ orders[n].shift \in DOMAIN shifts
                              /\ orders[n].status \in Statuses
                              /\ orders[n].cash + orders[n].card = TotalOf(orders[n])
  /\ \A i \in DOMAIN refunds : refunds[i].order \in DOMAIN orders /\ refunds[i].amount > 0
  /\ \A i \in DOMAIN voids : voids[i].order \in DOMAIN orders
  /\ stock \in [Products -> Nat]
  /\ tokens \in [Tokens -> {"absent", "granted", "spent", "expired"}]
  /\ \A s \in Sessions : txn[s].at \in {"idle", "working", "answered"}

(* Copies of a call that all missed the key in their look-up commit once. *)
KeyOnce ==
  \A table \in {orders, refunds, voids, adjustments, imports} :
    \A i, j \in DOMAIN table : table[i].key = table[j].key => i = j

(* Every row of a product's ledger continues from the row before it, and the last *)
(* one has the current stock.  It does not hold of an import of a delta below     *)
(* the stock: the row keeps the delta, the stock is cut off at zero.              *)
LedgerContinues ==
  \A p \in Products :
    LET Before(i) == IF i = 1 THEN OpeningStock[p] ELSE ledger[p][i - 1].result
    IN /\ \A i \in DOMAIN ledger[p] : ledger[p][i].result = Before(i) + ledger[p][i].delta
       /\ stock[p] = Before(Len(ledger[p]) + 1)

(* The units of a product that the tables say were sold, and came back or went.   *)
Sold(p)     == SumFunction([n \in DOMAIN orders |-> QuantityIn(Quantities(orders[n]), p)])
Returned(p) == SumFunction([i \in DOMAIN refunds |-> QuantityIn(refunds[i].items, p)])
Voided(p)   == SumFunction([i \in DOMAIN voids |-> QuantityIn(Quantities(orders[voids[i].order]), p)])
Imported(p) == SumFunction([i \in DOMAIN imports |-> QuantityIn(imports[i].deltas, p)])
Adjusted(p) == SumFunctionOnSet([i \in DOMAIN adjustments |-> adjustments[i].delta],
                                {i \in DOMAIN adjustments : p \in adjustments[i].products})

(* The stock of a product is its opening stock less what the orders took, plus    *)
(* what refunds, voids, adjustments and imports say they gave, and its ledger     *)
(* continues from row to row.  Of imports that do not go below zero.              *)
StockIsExplained ==
  /\ LedgerContinues
  /\ \A p \in Products :
       stock[p] = OpeningStock[p] - Sold(p) + Returned(p) + Voided(p) + Adjusted(p) + Imported(p)

(* The cash of a shift that the tables say came in or went out. *)
CashSales(n)   == SumFunctionOnSet([k \in DOMAIN orders |-> orders[k].cash],
                                   {k \in DOMAIN orders : orders[k].shift = n})
CashRefunds(n) == SumFunctionOnSet([i \in DOMAIN refunds |-> refunds[i].amount],
                                   {i \in DOMAIN refunds : orders[refunds[i].order].shift = n})
CashVoids(n)   == SumFunctionOnSet([i \in DOMAIN voids |-> TotalOf(orders[voids[i].order])],
                                   {i \in DOMAIN voids : orders[voids[i].order].shift = n})
ManualCash(n)  == SumFunctionOnSet([i \in DOMAIN moves |-> SignedAmount(i)],
                                   {i \in MovesOf(n) : moves[i].type \in ManualTypes})

(* The cash a shift expects is its float, the cash of its orders less their       *)
(* refunds and voids, and the movements its cashier recorded.                     *)
DrawerIsExplained ==
  \A n \in DOMAIN shifts :
    Expected(n) = shifts[n].float + CashSales(n) - CashRefunds(n) - CashVoids(n) + ManualCash(n)

(* What the units of an order that came back with refunds are worth. *)
ReturnedValue(n) ==
  SumFunction([p \in DOMAIN orders[n].lines |-> Share(orders[n].lines[p], RefundedQuantity(n, p))])

(* The refunds of an order never exceed what was paid, nor its items what was     *)
(* bought, nor the value of the items the cash given for them; and the status     *)
(* says when nothing is left.                                                     *)
RefundsWithinPayment ==
  \A n \in DOMAIN orders :
    /\ RefundedAmount(n) <= orders[n].cash + orders[n].card
    /\ \A p \in DOMAIN orders[n].lines : RefundedQuantity(n, p) <= orders[n].lines[p].qty
    /\ ReturnedValue(n) <= RefundedAmount(n)
    /\ orders[n].status # "voided" =>
         (orders[n].status = "refunded" <=>
            RefundsOf(n) # {} /\ RefundedAmount(n) = TotalOf(orders[n]))

(* Every reversal of an order consumed an authorization of its own, for it and    *)
(* its requester.                                                                 *)
ReversalsAuthorized ==
  \A n \in DOMAIN orders :
    LET Spent(action) == {t \in Tokens : tokens[t] = "spent" /\ t.order = n /\ t.action = action}
        By(who) == {t \in Spent("refund") : t.requester = who}
    IN /\ \A i \in RefundsOf(n) :
            Cardinality({j \in RefundsOf(n) : refunds[j].requester = refunds[i].requester})
              <= Cardinality(By(refunds[i].requester))
       /\ Cardinality({i \in DOMAIN voids : voids[i].order = n}) <= Cardinality(Spent("void"))

(* An answer that is not an error names a committed row under the request's key;  *)
(* a refund's or an adjustment's is the one that was asked for.                   *)
AnswerIsTrue ==
  \A s \in Sessions :
    LET a == txn[s] IN
    a.at = "answered" /\ a.answer > 0 =>
      CASE a.request.kind = "checkout" -> a.answer \in KeyRows(orders, a.request.key)
        [] a.request.kind = "refund"   -> /\ a.answer \in KeyRows(refunds, a.request.key)
                                          /\ refunds[a.answer].amount = a.request.amount
                                          /\ refunds[a.answer].order = a.request.order
        [] a.request.kind = "adjust"   -> /\ a.answer \in KeyRows(adjustments, a.request.key)
                                          /\ adjustments[a.answer].products = a.request.products
                                          /\ adjustments[a.answer].delta = a.request.delta

(* A fully refunded or voided order is settled: it changes no more, and no refund *)
(* or void of it is added.                                                        *)
ReversalIsFinal ==
  [][\A n \in DOMAIN orders : orders[n].status # "server_confirmed" =>
       /\ orders'[n] = orders[n]
       /\ RefundedAmount(n)' = RefundedAmount(n)
       /\ \A i \in DOMAIN voids' \ DOMAIN voids : voids'[i].order # n]_<<orders, refunds, voids>>

(* Cumulative refunds and voids of an order never exceed its captured payment.    *)
(* The code breaks this: a partial refund leaves the order server_confirmed, and  *)
(* a void then reverses the whole total and every item.                           *)
ReversedWithinPayment ==
  \A i \in DOMAIN voids :
    LET n == voids[i].order IN
    RefundedAmount(n) + TotalOf(orders[n]) <= orders[n].cash + orders[n].card

(* A refund that passes every check of the service, with a valid authorization of *)
(* a supervisor, commits.  The code breaks this when the supervisor is not the    *)
(* requester: the trigger looks for the audit event under the supervisor's id.    *)
SupervisedRefundCommits ==
  \A s \in Sessions : txn[s].at = "answered" => txn[s].answer # Rejected

================================================================================
