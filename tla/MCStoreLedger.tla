----------------------------- MODULE MCStoreLedger -----------------------------
(* Instances of StoreLedger: calls that contend for a key, a stock, an order, a    *)
(* token or a shift.  A line of two units for 5 makes the rounding of a partial    *)
(* restock show: its units are worth 3 and 2.                                      *)
EXTENDS StoreLedger

CONSTANTS s1, s2

Sale(key, lines, cash, card) ==
  [kind |-> "checkout", key |-> key, register |-> "front", cashier |-> "ann",
   lines |-> lines, cash |-> cash, card |-> card]

Refund(key, order, amount, items, token) ==
  [kind |-> "refund", key |-> key, order |-> order, amount |-> amount, items |-> items,
   requester |-> "ann", token |-> token]

Void(key, order, token) == [key |-> key, order |-> order, requester |-> "ann", token |-> token]

Adjust(key, products, delta) ==
  [kind |-> "adjust", key |-> key, products |-> products, delta |-> delta]

Token(id, supervisor, action, order) ==
  [id |-> id, requester |-> "ann", supervisor |-> supervisor, action |-> action, order |-> order]

Line(qty, total) == [qty |-> qty, total |-> total]
Milk(qty, total) == [p \in {"milk"} |-> Line(qty, total)]
Units(p, q) == [x \in {p} |-> q]
Nothing == [x \in {} |-> 0]

MCProducts == {"milk", "tea"}
MCOpeningStock == [p \in MCProducts |-> IF p = "milk" THEN 3 ELSE 1]
MCSessions == {s1, s2}
MCOpen  == {[key |-> "o1", register |-> "front", cashier |-> "ann", float |-> 1]}
MCClose == {[key |-> "c1", shift |-> 1, counted |-> 4]}
MCCash  == {[key |-> "m1", shift |-> 1, type |-> "paid_out", amount |-> 2]}
None == {}

Import(key, mode, items) == [key |-> key, mode |-> mode, items |-> items]
Item(count, delta) == [count |-> count, delta |-> delta]

(* The till: one register, opened twice, a closing call repeated with another count. *)
SalesOpen  == MCOpen \union {[key |-> "o2", register |-> "front", cashier |-> "bob", float |-> 2]}
SalesClose == MCClose \union {[key |-> "c1", shift |-> 2, counted |-> 2]}

(* Sales: two carts under one key, a third that needs what they may take. *)
SalesCheckouts ==
  {Sale("k1", Milk(2, 5), 5, 0),
   Sale("k1", [p \in {"tea"} |-> Line(1, 2)], 0, 2),
   Sale("k2", [p \in MCProducts |-> IF p = "milk" THEN Line(2, 5) ELSE Line(1, 2)], 4, 3)}
SalesAdjusts == {Adjust("a1", {"milk"}, -2), Adjust("a1", {"milk"}, 2), Adjust("a2", MCProducts, -1)}

(* A delivery of milk and a count of tea. *)
SalesImports == {Import("i1", "upsert", [p \in MCProducts |-> Item({2}, IF p = "milk" THEN {1} ELSE {})])}

(* Reversals: one sale, partial and full refunds, copies of them with another token,  *)
(* a refund that another supervisor authorized, and a void.                            *)
ReversalCheckouts == {Sale("k1", Milk(2, 5), 5, 0)}
ReversalRefunds ==
  {Refund("r1", 1, 3, Units("milk", 1), "t1"), Refund("r1", 1, 2, Units("milk", 1), "t2"),
   Refund("r2", 1, 2, Units("milk", 1), "t2"), Refund("r3", 1, 5, Nothing, "t1"),
   Refund("r4", 1, 2, Nothing, "t1"), Refund("r4", 1, 2, Nothing, "t2"),
   Refund("r5", 1, 1, Nothing, "t4")}
ReversalVoids == {Void("v1", 1, "t3")}
ReversalTokens == {Token("t1", "ann", "refund", 1), Token("t2", "ann", "refund", 1),
                   Token("t3", "eve", "void", 1), Token("t4", "eve", "refund", 1)}

(* A supervisor who is not the requester authorizes a refund. *)
SupervisedTokens == {Token("t1", "eve", "refund", 1)}
SupervisedRefunds == {Refund("r1", 1, 3, Units("milk", 1), "t1")}

================================================================================
