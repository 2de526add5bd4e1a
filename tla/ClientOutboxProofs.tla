-------------------------- MODULE ClientOutboxProofs --------------------------
(* What the stored outbox says of the server is true, and no stored sale is lost, *)
(* for every set of pages, payment surfaces and runs of triggerSync, and however  *)
(* often the pages, the network and the store fail.  The one fact the properties  *)
(* need besides themselves is that an answer "ok" is about a committed key: a run *)
(* marks an item after an answer, whatever became of the item in between.         *)
EXTENDS ClientOutbox, TLAPS

OkIsTrue == \A m \in net : m.kind = "ok" => m.key \in orders

(* The inductive invariant. *)
IInv == idb \in Copy /\ OkIsTrue /\ SyncedIsCommitted

(* What one step may do to the stored outbox. *)
StepKeeps ==
  \A k \in Key :
    /\ idb'[k] = "synced" => k \in orders \cup givenUp' \/ idb[k] = "synced"
    /\ Stored(k) /\ ~Stored(k)' => k \in orders \cup givenUp'

StepOK ==
  /\ idb' \in Copy
  /\ StepKeeps
  /\ OkIsTrue'
  /\ orders \subseteq orders' /\ givenUp \subseteq givenUp'

----------------------------------------------------------------------------
(* The ways in which steps change the store and the network. *)

LEMMA StoreUntouched ==
  ASSUME IInv, UNCHANGED <<idb, orders, givenUp>>, OkIsTrue'
  PROVE  StepOK
BY DEF StepOK, StepKeeps, IInv, Stored

(* Nothing that arrives on the network claims more than the server did. *)
LEMMA NoNewAnswer ==
  ASSUME IInv, orders' = orders, \A m \in net' : m \in net \/ m.kind # "ok"
  PROVE  OkIsTrue'
BY DEF IInv, OkIsTrue

LEMMA Patching ==
  ASSUME IInv, NEW k \in Key, NEW state \in SyncState,
         idb' = Patched(idb, k, state), UNCHANGED orders, givenUp \subseteq givenUp',
         state = "synced" => k \in orders \cup givenUp',
         \A m \in net' : m \in net \/ m.kind # "ok"
  PROVE  StepOK
<1>1. idb' = [idb EXCEPT ![k] = IF idb[k] = "absent" THEN idb[k] ELSE state]
  BY DEF Patched
<1>2. idb[k] \in Item /\ state \in Item /\ idb \in [Key -> Item] /\ state # "absent"
  BY DEF IInv, Copy, Item, SyncState
<1>3. idb' \in Copy
  BY <1>1, <1>2 DEF Copy
<1>4. \A j \in Key : j # k => idb'[j] = idb[j]
  BY <1>1, <1>2
<1>5. idb'[k] = IF idb[k] = "absent" THEN idb[k] ELSE state
  BY <1>1, <1>2
<1>6. StepKeeps
  BY <1>2, <1>4, <1>5 DEF StepKeeps, Stored
<1> QED BY <1>3, <1>6, NoNewAnswer DEF StepOK

(* Items leave the store by Clear only. *)
LEMMA Clearing ==
  ASSUME IInv, NEW t \in Tab, NEW gone \in SUBSET SyncState, Clear(t, gone),
         givenUp \subseteq givenUp',
         \A k \in Key : idb[k] \in gone => k \in orders \cup givenUp'
  PROVE  StepOK
<1>1. /\ idb' = [k \in Key |-> IF idb[k] \in gone THEN "absent" ELSE idb[k]]
      /\ UNCHANGED <<net, orders>>
  BY DEF Clear, Without, serverVars
<1>2. \A k \in Key : idb[k] \in Item
  BY DEF IInv, Copy
<1>3. idb' \in Copy
  BY <1>1, <1>2 DEF Copy, Item
<1>4. \A k \in Key : idb'[k] = IF idb[k] \in gone THEN "absent" ELSE idb[k]
  BY <1>1
<1>5. StepKeeps
  BY <1>1, <1>4 DEF StepKeeps, Stored
<1> QED BY <1>1, <1>3, <1>5, NoNewAnswer DEF StepOK

(* The catch of the loop: one item "failed", or the store as it was. *)
LEMMA GivingUp ==
  ASSUME IInv, NEW l \in Loop, NEW k, NEW w \in BOOLEAN, GiveUp(l, k, w),
         \A m \in net' : m \in net
  PROVE  StepOK
<1>1. /\ idb' = (IF w THEN Patched(idb, k, "failed") ELSE idb)
      /\ UNCHANGED <<orders, givenUp>>
  BY DEF GiveUp
<1>2. CASE w /\ k \in Key
  BY <1>1, <1>2, Patching DEF SyncState
<1>3. CASE idb' = idb
  BY <1>1, <1>3, NoNewAnswer, StoreUntouched
<1>4. CASE w /\ k \notin Key
  <2>1. Patched(idb, k, "failed") = idb
    BY <1>4 DEF Patched, IInv, Copy
  <2> QED BY <1>1, <1>3, <1>4, <2>1
<1> QED BY <1>1, <1>2, <1>3, <1>4

----------------------------------------------------------------------------
(* One lemma for each part of the system that writes. *)

LEMMA InitHolds == Init => IInv
<1> SUFFICES ASSUME Init PROVE IInv
  OBVIOUS
<1>1. idb = [k \in Key |-> "absent"] /\ net = {}
  BY DEF Init, Empty
<1>2. idb \in Copy /\ \A k \in Key : idb[k] = "absent"
  BY <1>1 DEF Copy, Item
<1> QED BY <1>1, <1>2 DEF IInv, OkIsTrue, SyncedIsCommitted

LEMMA PageSteps ==
  ASSUME IInv, NEW t \in Tab,
         \/ Load(t) \/ LoadFails(t) \/ Reload(t)
         \/ \E l \in Loop : Trigger(t, l)
  PROVE  StepOK
<1>1. UNCHANGED <<idb, net, orders, givenUp>>
  BY DEF Load, LoadFails, Reload, Trigger, serverVars
<1> QED BY <1>1, NoNewAnswer, StoreUntouched

LEMMA CashierSteps ==
  ASSUME IInv, NEW t \in Tab,
         KeepLocal(t) \/ KeepCloud(t) \/ ClearSynced(t) \/ ClearOutbox(t)
  PROVE  StepOK
<1>1. ASSUME NEW state \in {"queued", "synced"}, Resolve(t, state),
             givenUp' = givenUp \/ givenUp' = givenUp \cup {conflict[t]},
             state = "synced" => conflict[t] \in givenUp'
      PROVE  StepOK
  <2>1. UNCHANGED <<net, orders>>
    BY <1>1 DEF Resolve, serverVars
  <2>2. CASE idb' = idb
    <3>1. OkIsTrue'
      BY <2>1, NoNewAnswer
    <3> QED BY <1>1, <2>1, <2>2, <3>1 DEF StepOK, StepKeeps, IInv, Stored
  <2>3. CASE idb' = Patched(idb, conflict[t], state) /\ conflict[t] \in Key
    <3>1. state \in SyncState
      BY DEF SyncState
    <3> QED BY <1>1, <2>1, <2>3, <3>1, Patching
  <2>4. CASE idb' = Patched(idb, conflict[t], state) /\ conflict[t] \notin Key
    <3>1. Patched(idb, conflict[t], state) = idb
      BY <2>4 DEF Patched, IInv, Copy
    <3> QED BY <2>2, <2>4, <3>1
  <2> QED BY <1>1, <2>2, <2>3, <2>4 DEF Resolve, Write
<1>2. CASE KeepLocal(t)
  BY <1>1, <1>2 DEF KeepLocal
<1>3. CASE KeepCloud(t)
  BY <1>1, <1>3 DEF KeepCloud
<1>4. CASE ClearSynced(t)
  BY <1>4, Clearing DEF ClearSynced, SyncState, IInv, SyncedIsCommitted
<1>5. CASE ClearOutbox(t)
  BY <1>5, Clearing DEF ClearOutbox, SyncState, Stored
<1> QED BY <1>2, <1>3, <1>4, <1>5

LEMMA PaymentSteps ==
  ASSUME IInv, NEW s \in Surface,
         \/ \E k \in Key : Pay(s, k)
         \/ QueueSale(s) \/ QueueFails(s) \/ Paid(s) \/ PaymentFails(s) \/ NextSale(s)
  PROVE  StepOK
<1>1. CASE \E k \in Key : Pay(s, k)
  <2>1. PICK k \in Key : Pay(s, k)
    BY <1>1
  <2>2. UNCHANGED <<idb, orders, givenUp>> /\ net' \subseteq net \cup {Ask(s, k)}
    BY <2>1 DEF Pay
  <2> QED BY <2>2, NoNewAnswer, StoreUntouched DEF Ask
<1>2. CASE QueueSale(s)
  <2>1. /\ idb' = [idb EXCEPT ![press[s].key] = "queued"]
        /\ UNCHANGED <<net, orders, givenUp>>
    BY <1>2 DEF QueueSale, serverVars
  <2>2. idb' \in Copy /\ \A k \in Key : idb'[k] = idb[k] \/ idb'[k] = "queued"
    BY <2>1 DEF IInv, Copy, Item, SyncState
  <2>3. StepKeeps
    BY <2>2 DEF StepKeeps, Stored
  <2> QED BY <2>1, <2>2, <2>3, NoNewAnswer DEF StepOK
<1>3. CASE QueueFails(s) \/ Paid(s) \/ PaymentFails(s) \/ NextSale(s)
  <2>1. UNCHANGED <<idb, orders, givenUp>> /\ net' \subseteq net
    BY <1>3 DEF QueueFails, Paid, PaymentFails, NextSale, serverVars
  <2> QED BY <2>1, NoNewAnswer, StoreUntouched
<1> QED BY <1>1, <1>2, <1>3

(* The only step that says "ok" has the key among the orders. *)
LEMMA ServerSteps ==
  ASSUME IInv, NEW m \in net, Handle(m)
  PROVE  StepOK
<1>1. CASE Commit(m)
  <2>1. /\ orders' = orders \cup {m.key}
        /\ net' \subseteq net \cup {Answer(m.from, m.key, "ok")}
        /\ UNCHANGED <<idb, givenUp>>
    BY <1>1 DEF Commit, Reply
  <2>2. Answer(m.from, m.key, "ok").key = m.key
    BY DEF Answer
  <2>3. OkIsTrue'
    BY <2>1, <2>2 DEF IInv, OkIsTrue
  <2> QED BY <2>1, <2>3 DEF StepOK, StepKeeps, IInv, Stored
<1>2. CASE Refuse(m)
  <2>1. /\ UNCHANGED <<idb, orders, givenUp>>
        /\ net' \subseteq net \cup {Answer(m.from, m.key, "no")}
    BY <1>2 DEF Refuse, Reply
  <2> QED BY <2>1, NoNewAnswer, StoreUntouched DEF Answer
<1> QED BY <1>1, <1>2 DEF Handle

LEMMA LoopSteps ==
  ASSUME IInv, NEW l \in Loop,
         \/ Start(l)
         \/ \E k \in Key : Send(l, k) \/ SendFails(l, k)
         \/ Confirm(l) \/ SyncFails(l) \/ Finish(l)
  PROVE  StepOK
<1>1. CASE Start(l) \/ Finish(l)
  <2>1. UNCHANGED <<idb, net, orders, givenUp>>
    BY <1>1 DEF Start, Finish, serverVars
  <2> QED BY <2>1, NoNewAnswer, StoreUntouched
<1>2. ASSUME NEW k \in Key, Send(l, k) PROVE StepOK
  <2>1. /\ idb' = Patched(idb, k, "syncing") /\ UNCHANGED <<orders, givenUp>>
        /\ net' = net \cup {Ask(l, k)}
    BY <1>2 DEF Send, Write
  <2> QED BY <2>1, Patching DEF Ask, SyncState
<1>3. ASSUME NEW k \in Key, SendFails(l, k) PROVE StepOK
  <2>1. net' = net /\ \E w \in BOOLEAN : GiveUp(l, k, w)
    BY <1>3 DEF SendFails
  <2> QED BY <2>1, GivingUp
<1>4. CASE Confirm(l)
  <2> DEFINE k == loop[l].key
  <2>1. /\ idb' = Patched(idb, k, "synced") /\ UNCHANGED <<orders, givenUp>>
        /\ net' \subseteq net /\ Answer(l, k, "ok") \in net
    BY <1>4 DEF Confirm, Write
  <2>2. k \in orders
    BY <2>1 DEF IInv, OkIsTrue, Answer
  <2>3. CASE k \in Key
    BY <2>1, <2>2, <2>3, Patching DEF SyncState
  <2>4. CASE k \notin Key
    <3>1. idb' = idb
      BY <2>1, <2>4 DEF Patched, IInv, Copy
    <3> QED BY <2>1, <3>1, NoNewAnswer, StoreUntouched
  <2> QED BY <2>3, <2>4
<1>5. CASE SyncFails(l)
  <2>1. net' \subseteq net /\ \E w \in BOOLEAN : GiveUp(l, loop[l].key, w)
    BY <1>5 DEF SyncFails
  <2> QED BY <2>1, GivingUp
<1> QED BY <1>1, <1>2, <1>3, <1>4, <1>5

LEMMA StepHolds ==
  ASSUME IInv, [Next]_vars
  PROVE  StepOK /\ IInv'
<1>1. StepOK
  <2>1. CASE UNCHANGED vars
    BY <2>1, NoNewAnswer, StoreUntouched DEF vars, serverVars
  <2>2. ASSUME Connectivity PROVE StepOK
    <3>1. UNCHANGED <<idb, net, orders, givenUp>>
      BY <2>2 DEF Connectivity, serverVars
    <3> QED BY <3>1, NoNewAnswer, StoreUntouched
  <2>3. ASSUME NEW t \in Tab,
               Load(t) \/ LoadFails(t) \/ Reload(t) \/ \E l \in Loop : Trigger(t, l)
        PROVE  StepOK
    BY <2>3, PageSteps
  <2>4. ASSUME NEW t \in Tab,
               KeepLocal(t) \/ KeepCloud(t) \/ ClearSynced(t) \/ ClearOutbox(t)
        PROVE  StepOK
    BY <2>4, CashierSteps
  <2> QED BY <2>1, <2>2, <2>3, <2>4, PaymentSteps, ServerSteps, LoopSteps DEF Next
<1>2. IInv'
  BY <1>1 DEF StepOK, StepKeeps, IInv, SyncedIsCommitted
<1> QED BY <1>1, <1>2

----------------------------------------------------------------------------

LEMMA InvariantHolds == Spec => []IInv
<1>1. IInv /\ [Next]_vars => IInv'
  BY StepHolds
<1> QED BY InitHolds, <1>1, PTL DEF Spec

(* No item is marked synced that the server has not committed and the cashier has *)
(* not given up: neither runs that work through old copies of the outbox, nor     *)
(* lost answers, nor reloads, nor other pages change that.                        *)
THEOREM OutboxIsTruthful == Spec => []SyncedIsCommitted
<1>1. IInv => SyncedIsCommitted
  BY DEF IInv
<1> QED BY InvariantHolds, <1>1, PTL

(* A stored sale leaves the store only when the server has its order or the *)
(* cashier has purged it.                                                   *)
THEOREM QueuedSalesAreKept == Spec => QueuedSaleIsKept
<1> DEFINE Kept == \A k \in Key : Stored(k) /\ ~Stored(k)' => k \in orders \cup givenUp'
<1>1. IInv /\ [Next]_vars => [Kept]_vars
  BY StepHolds DEF StepOK, StepKeeps
<1>2. QueuedSaleIsKept <=> [][Kept]_vars
  BY DEF QueuedSaleIsKept
<1> HIDE DEF Kept
<1> QED BY InvariantHolds, <1>1, <1>2, PTL DEF Spec
----------------------------------------------------------------------------
(* Types *)

LoopType ==
  {Idle} \cup [at : {"called", "next"}, tab : Tab, todo : SUBSET Key]
         \cup [at : {"sent"}, tab : Tab, todo : SUBSET Key, key : Key]

PressType == {Idle} \cup [at : {"sent", "queue", "done"}, key : Key]

MessageType == [from : Loop \cup Surface, key : Key, kind : {"ask", "ok", "no"}]

LEMMA LoopFields ==
  ASSUME NEW x \in LoopType
  PROVE  /\ x # Idle => x.tab \in Tab
         /\ x.at \in {"called", "next", "sent"} => x.tab \in Tab /\ x.todo \in SUBSET Key
         /\ x.at = "sent" => x.key \in Key
BY DEF LoopType, Idle

LEMMA PressFields ==
  ASSUME NEW x \in PressType, x.at \in {"sent", "queue", "done"}
  PROVE  x.key \in Key
BY DEF PressType, Idle

LEMMA PatchedType ==
  ASSUME NEW copy \in Copy, NEW k, NEW state \in SyncState
  PROVE  Patched(copy, k, state) \in Copy
BY DEF Patched, Copy, Item

LEMMA WriteType ==
  ASSUME TypeOK, NEW t \in Tab, NEW k, NEW state \in SyncState, Write(t, k, state)
  PROVE  idb' \in Copy /\ mirror' \in [Tab -> Copy]
<1>1. idb \in Copy /\ mirror \in [Tab -> Copy]
  BY DEF TypeOK
<1>2. Patched(idb, k, state) \in Copy /\ Patched(mirror[t], k, state) \in Copy
  BY <1>1, PatchedType
<1>3. idb' = Patched(idb, k, state) /\ mirror' = [mirror EXCEPT ![t] = Patched(mirror[t], k, state)]
  BY DEF Write
<1> QED BY <1>1, <1>2, <1>3

LEMMA CopyTypes ==
  ASSUME NEW copy \in Copy, NEW gone
  PROVE  Recovered(copy) \in Copy /\ Without(copy, gone) \in Copy /\ Empty \in Copy
BY DEF Recovered, Without, Empty, Copy, Item, SyncState

LEMMA RestType ==
  ASSUME TypeOK, NEW l \in Loop, NEW k, loop[l].at \in {"next", "sent"}
  PROVE  Rest(l, k) \in LoopType
<1>1. loop[l] \in LoopType
  BY DEF TypeOK, LoopType
<1>2. loop[l].tab \in Tab /\ loop[l].todo \in SUBSET Key
  BY <1>1, LoopFields
<1>3. loop[l].todo \ {k} \in SUBSET Key
  BY <1>2
<1> QED BY <1>2, <1>3 DEF Rest, LoopType

LEMMA FaultType == ASSUME faults \in 0 .. MaxFaults, Fault PROVE faults' \in 0 .. MaxFaults
BY ClientAssumption DEF Fault

LEMMA ClientInitTypes == Init => TypeOK
<1> SUFFICES ASSUME Init PROVE TypeOK
  OBVIOUS
<1>1. Empty \in Copy
  BY DEF Empty, Copy, Item
<1>2. idb \in Copy /\ mirror \in [Tab -> Copy] /\ syncing \in [Tab -> BOOLEAN]
  BY <1>1 DEF Init
<1>3. ready \in [Tab -> {"no", "yes", "broken", "closed"}] /\ conflict \in [Tab -> Key \cup {None}]
  BY DEF Init
<1>4. loop \in [Loop -> LoopType] /\ press \in [Surface -> PressType]
  BY DEF Init, LoopType, PressType
<1>5. /\ online \in BOOLEAN /\ cart \in [Tab -> Nat \ {0}]
      /\ cartOf \in [Key -> {None} \cup (Tab \X (Nat \ {0}))]
  BY DEF Init
<1>6. net = {} /\ orders = {} /\ givenUp = {} /\ faults \in 0 .. MaxFaults
  BY ClientAssumption DEF Init
<1> QED BY <1>2, <1>3, <1>4, <1>5, <1>6 DEF TypeOK, LoopType, PressType

\* TypeOK in the names of the proofs.
LEMMA TypeParts ==
  TypeOK <=> /\ idb \in Copy
             /\ mirror \in [Tab -> Copy]
             /\ syncing \in [Tab -> BOOLEAN]
             /\ ready \in [Tab -> {"no", "yes", "broken", "closed"}]
             /\ conflict \in [Tab -> Key \cup {None}]
             /\ loop \in [Loop -> LoopType]
             /\ press \in [Surface -> PressType]
             /\ online \in BOOLEAN
             /\ cart \in [Tab -> Nat \ {0}]
             /\ cartOf \in [Key -> {None} \cup (Tab \X (Nat \ {0}))]
             /\ net \subseteq MessageType
             /\ orders \subseteq Key /\ givenUp \subseteq Key
             /\ faults \in 0 .. MaxFaults
BY DEF TypeOK, LoopType, PressType, MessageType

LEMMA AskType ==
  ASSUME NEW x \in Loop \cup Surface, NEW k \in Key, NEW kind \in {"ask", "ok", "no"}
  PROVE  Ask(x, k) \in MessageType /\ Answer(x, k, kind) \in MessageType
BY DEF Ask, Answer, MessageType

LEMMA PageTypes ==
  ASSUME TypeOK, NEW t \in Tab,
         \/ Load(t) \/ LoadFails(t) \/ Reload(t)
         \/ \E l \in Loop : Trigger(t, l)
  PROVE  TypeOK'
<1> USE DEF saleVars, serverVars
<1>1. CASE Load(t)
  <2>1. Recovered(idb) \in Copy
    BY CopyTypes, TypeParts
  <2> QED BY <1>1, <2>1 DEF Load, TypeOK
<1>2. CASE LoadFails(t)
  <2>1. faults' \in 0 .. MaxFaults
    BY <1>2, FaultType DEF LoadFails, TypeOK
  <2> QED BY <1>2, <2>1 DEF LoadFails, TypeOK
<1>3. CASE Reload(t)
  <2>1. faults' \in 0 .. MaxFaults
    BY <1>3, FaultType DEF Reload, TypeOK
  <2>2. Empty \in Copy
    BY CopyTypes, TypeParts
  <2>3. mirror' \in [Tab -> Copy] /\ syncing' \in [Tab -> BOOLEAN] /\ conflict' \in [Tab -> Key \cup {None}]
    BY <1>3, <2>2 DEF Reload, TypeOK
  <2>4. ready' \in [Tab -> {"no", "yes", "broken", "closed"}]
    BY <1>3 DEF Reload, TypeOK
  <2>5. loop' \in [Loop -> LoopType]
    BY <1>3, TypeParts DEF Reload, LoopType
  <2>6. press' \in [Surface -> PressType]
    BY <1>3, TypeParts DEF Reload, PressType
  <2>7. cart' \in [Tab -> Nat \ {0}]
    <3>1. cart \in [Tab -> Nat \ {0}]
      BY TypeParts
    <3>2. cart' = [cart EXCEPT ![t] = IF \E k \in Key : cartOf[k] = <<t, cart[t]>> THEN cart[t] + 1 ELSE cart[t]]
      BY <1>3 DEF Reload
    <3> QED BY <3>1, <3>2
  <2>8. UNCHANGED <<idb, online, cartOf, net, orders, givenUp>>
    BY <1>3 DEF Reload
  <2> QED BY <2>1, <2>3, <2>4, <2>5, <2>6, <2>7, <2>8 DEF TypeOK, LoopType, PressType
<1>4. ASSUME NEW l \in Loop, Trigger(t, l) PROVE TypeOK'
  <2>1. [at |-> "called", tab |-> t, todo |-> ToSend(t)] \in LoopType
    BY DEF LoopType, ToSend
  <2>2. loop' \in [Loop -> LoopType]
    BY <1>4, <2>1, TypeParts DEF Trigger
  <2> QED BY <1>4, <2>2 DEF Trigger, TypeOK, LoopType
<1> QED BY <1>1, <1>2, <1>3, <1>4

LEMMA CashierTypes ==
  ASSUME TypeOK, NEW t \in Tab,
         KeepLocal(t) \/ KeepCloud(t) \/ ClearSynced(t) \/ ClearOutbox(t)
  PROVE  TypeOK'
<1> USE DEF saleVars, serverVars
<1>1. ASSUME NEW state \in {"queued", "synced"}, Resolve(t, state), givenUp' \subseteq Key PROVE TypeOK'
  <2>1. idb' \in Copy /\ mirror' \in [Tab -> Copy]
    <3>1. CASE UNCHANGED <<idb, mirror>>
      BY <3>1, TypeParts
    <3>2. CASE Write(t, conflict[t], state)
      BY <3>2, WriteType DEF SyncState
    <3> QED BY <1>1, <3>1, <3>2 DEF Resolve
  <2>2. conflict' \in [Tab -> Key \cup {None}]
    BY <1>1, TypeParts DEF Resolve
  <2>3. UNCHANGED <<syncing, ready, loop, online, press, cart, cartOf, net, orders, faults>>
    BY <1>1 DEF Resolve
  <2> QED BY <1>1, <2>1, <2>2, <2>3 DEF TypeOK
<1>2. CASE KeepLocal(t)
  BY <1>1, <1>2, TypeParts DEF KeepLocal
<1>3. CASE KeepCloud(t)
  <2>1. conflict[t] \in Key
    BY <1>3, TypeParts DEF KeepCloud, Resolve
  <2> QED BY <1>1, <1>3, <2>1, TypeParts DEF KeepCloud
<1>4. ASSUME NEW gone, Clear(t, gone), givenUp' \subseteq Key PROVE TypeOK'
  <2>1. Without(idb, gone) \in Copy /\ Without(mirror[t], gone) \in Copy
    BY CopyTypes, TypeParts
  <2>2. /\ idb' = Without(idb, gone) /\ mirror' = [mirror EXCEPT ![t] = Without(mirror[t], gone)]
        /\ UNCHANGED <<syncing, ready, conflict, loop, online, press, cart, cartOf, net, orders, faults>>
    BY <1>4 DEF Clear
  <2>3. idb' \in Copy /\ mirror' \in [Tab -> Copy]
    BY <2>1, <2>2, TypeParts
  <2> QED BY <1>4, <2>2, <2>3 DEF TypeOK
<1>5. CASE ClearSynced(t)
  BY <1>4, <1>5, TypeParts DEF ClearSynced
<1>6. CASE ClearOutbox(t)
  BY <1>4, <1>6, TypeParts DEF ClearOutbox
<1> QED BY <1>2, <1>3, <1>5, <1>6

LEMMA CompleteTypes ==
  ASSUME TypeOK, NEW s \in Surface, press[s].at \in {"sent", "queue"}, Complete(s)
  PROVE  press' \in [Surface -> PressType] /\ cart' \in [Tab -> Nat \ {0}]
<1>1. /\ press[s] \in [at : {"sent", "queue", "done"}, key : Key]
      /\ press \in [Surface -> PressType] /\ cart \in [Tab -> Nat \ {0}] /\ Home[s] \in Tab
  BY ClientAssumption, TypeParts DEF PressType, Idle
<1>2. [press[s] EXCEPT !.at = "done"] \in PressType
  BY <1>1 DEF PressType
<1>3. press' = [press EXCEPT ![s] = [press[s] EXCEPT !.at = "done"]]
  BY DEF Complete
<1>4. cart' = cart \/ cart' = [cart EXCEPT ![Home[s]] = cart[Home[s]] + 1]
  BY DEF Complete
<1>5. press' \in [Surface -> PressType]
  BY <1>1, <1>2, <1>3
<1>6. cart[Home[s]] + 1 \in Nat \ {0}
  BY <1>1
<1>7. cart' \in [Tab -> Nat \ {0}]
  BY <1>1, <1>4, <1>6
<1> QED BY <1>5, <1>7

LEMMA PaymentTypes ==
  ASSUME TypeOK, NEW s \in Surface,
         \/ \E k \in Key : Pay(s, k)
         \/ QueueSale(s) \/ QueueFails(s) \/ Paid(s) \/ PaymentFails(s) \/ NextSale(s)
  PROVE  TypeOK'
<1> USE DEF pageVars, serverVars
<1>0. Home[s] \in Tab /\ press[s] \in PressType
  BY ClientAssumption, TypeParts
<1>1. ASSUME NEW k \in Key, Pay(s, k) PROVE TypeOK'
  <2>1. cart[Home[s]] \in Nat \ {0}
    BY <1>0, TypeParts
  <2>2. cartOf' \in [Key -> {None} \cup (Tab \X (Nat \ {0}))]
    BY <1>0, <1>1, <2>1, TypeParts DEF Pay
  <2>3. press' \in [Surface -> PressType]
    <3>1. \A at \in {"sent", "queue"} : [at |-> at, key |-> k] \in PressType
      BY DEF PressType
    <3> QED BY <1>1, <3>1, TypeParts DEF Pay
  <2>4. net' \subseteq MessageType
    BY <1>1, AskType, TypeParts DEF Pay
  <2>5. UNCHANGED <<idb, mirror, syncing, ready, conflict, loop, online, cart, orders, givenUp, faults>>
    BY <1>1 DEF Pay
  <2> HIDE DEF pageVars, serverVars
  <2> QED BY <2>2, <2>3, <2>4, <2>5 DEF TypeOK, PressType, MessageType
<1>2. CASE QueueSale(s)
  <2>1. press[s].key \in Key
    BY <1>0, <1>2, PressFields DEF QueueSale
  <2>2. idb' \in Copy
    BY <1>2, <2>1, TypeParts DEF QueueSale, Copy, Item, SyncState
  <2>3. mirror' \in [Tab -> Copy]
    <3>1. [mirror[Home[s]] EXCEPT ![press[s].key] = "queued"] \in Copy
      BY <1>0, <2>1, TypeParts DEF Copy, Item, SyncState
    <3>2. mirror' = [mirror EXCEPT ![Home[s]] = [mirror[Home[s]] EXCEPT ![press[s].key] = "queued"]]
      BY <1>2 DEF QueueSale
    <3> QED BY <1>0, <3>1, <3>2, TypeParts
  <2>4. press' \in [Surface -> PressType] /\ cart' \in [Tab -> Nat \ {0}]
    BY <1>2, CompleteTypes DEF QueueSale
  <2>5. UNCHANGED <<syncing, ready, conflict, loop, online, cartOf, net, orders, givenUp, faults>>
    BY <1>2 DEF QueueSale
  <2> QED BY <2>2, <2>3, <2>4, <2>5 DEF TypeOK, PressType
<1>3. CASE QueueFails(s)
  <2>1. faults' \in 0 .. MaxFaults
    BY <1>3, FaultType DEF QueueFails, TypeOK
  <2>2. press' \in [Surface -> PressType]
    BY <1>3, TypeParts DEF QueueFails, PressType
  <2>3. UNCHANGED <<idb, mirror, syncing, ready, conflict, loop, online, cart, cartOf, net, orders, givenUp>>
    BY <1>3 DEF QueueFails
  <2> QED BY <2>1, <2>2, <2>3 DEF TypeOK, PressType
<1>4. CASE Paid(s)
  <2>1. press' \in [Surface -> PressType] /\ cart' \in [Tab -> Nat \ {0}]
    BY <1>4, CompleteTypes DEF Paid
  <2>2. net' \subseteq net
    BY <1>4 DEF Paid
  <2>3. UNCHANGED <<idb, mirror, syncing, ready, conflict, loop, online, cartOf, orders, givenUp, faults>>
    BY <1>4 DEF Paid
  <2> QED BY <2>1, <2>2, <2>3 DEF TypeOK, PressType
<1>5. CASE PaymentFails(s)
  <2>1. faults' \in 0 .. MaxFaults
    BY <1>5, FaultType DEF PaymentFails, TypeOK
  <2>2. press' \in [Surface -> PressType]
    BY <1>5, TypeParts DEF PaymentFails, PressType
  <2>3. net' \subseteq net
    BY <1>5 DEF PaymentFails
  <2>4. UNCHANGED <<idb, mirror, syncing, ready, conflict, loop, online, cart, cartOf, orders, givenUp>>
    BY <1>5 DEF PaymentFails
  <2> QED BY <2>1, <2>2, <2>3, <2>4 DEF TypeOK, PressType
<1>6. CASE NextSale(s)
  <2>1. press' \in [Surface -> PressType]
    BY <1>6, TypeParts DEF NextSale, PressType
  <2>2. cart' = cart \/ cart' = [cart EXCEPT ![Home[s]] = cart[Home[s]] + 1]
    BY <1>6 DEF NextSale
  <2>3. cart[Home[s]] \in Nat /\ cart[Home[s]] + 1 \in Nat \ {0} /\ cart \in [Tab -> Nat \ {0}]
    BY <1>0, TypeParts
  <2>4. cart' \in [Tab -> Nat \ {0}]
    BY <2>2, <2>3
  <2>5. UNCHANGED <<idb, mirror, syncing, ready, conflict, loop, online, cartOf, net, orders, givenUp, faults>>
    BY <1>6 DEF NextSale
  <2> QED BY <2>1, <2>4, <2>5 DEF TypeOK, PressType
<1> QED BY <1>1, <1>2, <1>3, <1>4, <1>5, <1>6

LEMMA ServerTypes ==
  ASSUME TypeOK, NEW m \in net, Handle(m)
  PROVE  TypeOK'
<1>1. m \in MessageType /\ net \subseteq MessageType
  BY TypeParts
<1>2. m.from \in Loop \cup Surface /\ m.key \in Key
  BY <1>1 DEF MessageType
<1>3. ASSUME NEW kind \in {"ok", "no"}, Reply(m, kind) PROVE net' \subseteq MessageType
  <2>1. Answer(m.from, m.key, kind) \in MessageType
    BY <1>2, AskType
  <2> QED BY <1>1, <1>3, <2>1 DEF Reply
<1>4. net' \subseteq MessageType /\ orders' \subseteq Key
  BY <1>2, <1>3, TypeParts DEF Handle, Commit, Refuse
<1>5. UNCHANGED <<idb, mirror, syncing, ready, conflict, loop, online, press, cart, cartOf, givenUp, faults>>
  BY DEF Handle, Commit, Refuse, pageVars, saleVars
<1> QED BY <1>4, <1>5 DEF TypeOK, MessageType

LEMMA GiveUpTypes ==
  ASSUME TypeOK, NEW l \in Loop, NEW k \in Key, NEW w \in BOOLEAN, GiveUp(l, k, w),
         loop[l].at \in {"next", "sent"}, net' \subseteq MessageType, faults' \in 0 .. MaxFaults
  PROVE  TypeOK'
<1> DEFINE t == loop[l].tab
<1>1. t \in Tab /\ Rest(l, k) \in LoopType
  BY LoopFields, RestType, TypeParts
<1>2. Patched(idb, k, "failed") \in Copy /\ Patched(mirror[t], k, "failed") \in Copy
  BY <1>1, PatchedType, TypeParts DEF SyncState
<1>3. /\ idb' = IF w THEN Patched(idb, k, "failed") ELSE idb
      /\ mirror' = [mirror EXCEPT ![t] = Patched(mirror[t], k, "failed")]
      /\ conflict' = [conflict EXCEPT ![t] = k] \/ conflict' = conflict
      /\ loop' = [loop EXCEPT ![l] = Rest(l, k)]
      /\ UNCHANGED <<syncing, ready, online, press, cart, cartOf, orders, givenUp>>
  BY DEF GiveUp, saleVars
<1> HIDE DEF t
<1>4. idb' \in Copy /\ mirror' \in [Tab -> Copy]
  BY <1>1, <1>2, <1>3, TypeParts
<1>5. conflict' \in [Tab -> Key \cup {None}] /\ loop' \in [Loop -> LoopType]
  BY <1>1, <1>3, TypeParts
<1> QED BY <1>3, <1>4, <1>5 DEF TypeOK, LoopType, MessageType

LEMMA LoopTypes ==
  ASSUME TypeOK, NEW l \in Loop,
         \/ Start(l)
         \/ \E k \in Key : Send(l, k) \/ SendFails(l, k)
         \/ Confirm(l) \/ SyncFails(l) \/ Finish(l)
  PROVE  TypeOK'
<1> USE DEF saleVars, serverVars
<1>0. loop[l] \in LoopType /\ loop \in [Loop -> LoopType] /\ net \subseteq MessageType
  BY TypeParts
<1>1. CASE Start(l)
  <2>1. loop[l].tab \in Tab /\ loop[l].todo \in SUBSET Key /\ loop[l] \in [at : {"called", "next"}, tab : Tab, todo : SUBSET Key]
    BY <1>0, <1>1, LoopFields DEF Start, LoopType, Idle
  <2>2. [loop[l] EXCEPT !.at = "next"] \in LoopType
    BY <2>1 DEF LoopType
  <2>3. loop' = [loop EXCEPT ![l] = [loop[l] EXCEPT !.at = "next"]] /\ syncing' = [syncing EXCEPT ![loop[l].tab] = TRUE]
    BY <1>1 DEF Start
  <2>4. loop' \in [Loop -> LoopType] /\ syncing' \in [Tab -> BOOLEAN]
    BY <1>0, <2>2, <2>3, TypeParts
  <2>5. UNCHANGED <<idb, mirror, ready, conflict, online, press, cart, cartOf, net, orders, givenUp, faults>>
    BY <1>1 DEF Start
  <2> QED BY <2>4, <2>5 DEF TypeOK, LoopType
<1>2. ASSUME NEW k \in Key, Send(l, k) PROVE TypeOK'
  <2>1. loop[l].tab \in Tab /\ loop[l].todo \in SUBSET Key
    BY <1>0, <1>2, LoopFields DEF Send
  <2>2. idb' \in Copy /\ mirror' \in [Tab -> Copy]
    BY <1>2, <2>1, WriteType DEF Send, SyncState
  <2>3. net' \subseteq MessageType
    BY <1>0, <1>2, AskType DEF Send
  <2>4. loop' \in [Loop -> LoopType]
    <3>1. loop[l].todo \ {k} \in SUBSET Key
      BY <2>1
    <3>2. [at |-> "sent", tab |-> loop[l].tab, todo |-> loop[l].todo \ {k}, key |-> k] \in LoopType
      BY <2>1, <3>1 DEF LoopType
    <3>3. loop' = [loop EXCEPT ![l] = [at |-> "sent", tab |-> loop[l].tab, todo |-> loop[l].todo \ {k}, key |-> k]]
      BY <1>2 DEF Send
    <3> QED BY <1>0, <3>2, <3>3
  <2>5. UNCHANGED <<syncing, ready, conflict, online, press, cart, cartOf, orders, givenUp, faults>>
    BY <1>2 DEF Send
  <2> QED BY <2>2, <2>3, <2>4, <2>5 DEF TypeOK, LoopType, MessageType
<1>3. ASSUME NEW k \in Key, SendFails(l, k) PROVE TypeOK'
  <2>1. net' \subseteq MessageType /\ loop[l].at \in {"next", "sent"}
    BY <1>0, <1>3 DEF SendFails
  <2>2. faults' \in 0 .. MaxFaults
    BY <1>3, FaultType DEF SendFails, TypeOK
  <2>3. \E w \in BOOLEAN : GiveUp(l, k, w)
    BY <1>3 DEF SendFails
  <2> QED BY <2>1, <2>2, <2>3, GiveUpTypes
<1>4. CASE Confirm(l)
  <2>1. loop[l].tab \in Tab /\ loop[l].key \in Key
    BY <1>0, <1>4, LoopFields DEF Confirm
  <2>2. idb' \in Copy /\ mirror' \in [Tab -> Copy]
    BY <1>4, <2>1, WriteType DEF Confirm, SyncState
  <2>3. net' \subseteq MessageType
    BY <1>0, <1>4 DEF Confirm
  <2>4. loop' \in [Loop -> LoopType]
    BY <1>0, <1>4, RestType DEF Confirm
  <2>5. UNCHANGED <<syncing, ready, conflict, online, press, cart, cartOf, orders, givenUp, faults>>
    BY <1>4 DEF Confirm
  <2> QED BY <2>2, <2>3, <2>4, <2>5 DEF TypeOK, LoopType, MessageType
<1>5. CASE SyncFails(l)
  <2>1. loop[l].key \in Key /\ loop[l].at \in {"next", "sent"}
    BY <1>0, <1>5, LoopFields DEF SyncFails
  <2>2. net' \subseteq MessageType
    BY <1>0, <1>5 DEF SyncFails
  <2>3. faults' \in 0 .. MaxFaults
    BY <1>5, FaultType DEF SyncFails, TypeOK
  <2>4. \E w \in BOOLEAN : GiveUp(l, loop[l].key, w)
    BY <1>5 DEF SyncFails
  <2> QED BY <2>1, <2>2, <2>3, <2>4, GiveUpTypes
<1>6. CASE Finish(l)
  <2>1. loop[l].tab \in Tab
    BY <1>0, <1>6, LoopFields DEF Finish
  <2>2. loop' \in [Loop -> LoopType] /\ syncing' \in [Tab -> BOOLEAN]
    BY <1>0, <1>6, <2>1, TypeParts DEF Finish, LoopType
  <2>3. UNCHANGED <<idb, mirror, ready, conflict, online, press, cart, cartOf, net, orders, givenUp, faults>>
    BY <1>6 DEF Finish
  <2> QED BY <2>2, <2>3 DEF TypeOK, LoopType
<1> QED BY <1>1, <1>2, <1>3, <1>4, <1>5, <1>6

(* What the pages, the store, the network and the server hold is of its type: an *)
(* item is in one of the four states of an outbox item, whoever wrote it, and a   *)
(* run knows the page and the items it works for, also after that page is gone.   *)
THEOREM OutboxTypes == Spec => []TypeOK
<1>1. TypeOK /\ [Next]_vars => TypeOK'
  <2> SUFFICES ASSUME TypeOK, [Next]_vars PROVE TypeOK'
    OBVIOUS
  <2>1. CASE UNCHANGED vars
    BY <2>1 DEF vars, pageVars, saleVars, serverVars, TypeOK
  <2>2. CASE Connectivity
    BY <2>2 DEF Connectivity, pageVars, saleVars, serverVars, TypeOK
  <2>3. ASSUME NEW t \in Tab,
               Load(t) \/ LoadFails(t) \/ Reload(t) \/ \E l \in Loop : Trigger(t, l)
        PROVE  TypeOK'
    BY <2>3, PageTypes
  <2>4. ASSUME NEW t \in Tab,
               KeepLocal(t) \/ KeepCloud(t) \/ ClearSynced(t) \/ ClearOutbox(t)
        PROVE  TypeOK'
    BY <2>4, CashierTypes
  <2> QED BY <2>1, <2>2, <2>3, <2>4, PaymentTypes, ServerTypes, LoopTypes DEF Next
<1> QED BY ClientInitTypes, <1>1, PTL DEF Spec
=============================================================================
