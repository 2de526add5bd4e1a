---------------------------- MODULE ClientOutbox ----------------------------
(***************************************************************************)
(* The till in the browser: carts paid on-line or put into the off-line     *)
(* outbox, and the synchronisation of that outbox                           *)
(* (src/context/OfflineContext.tsx, src/adapters/offlineOutboxStore.ts,     *)
(* the payment surfaces under src/modules/pos, server/http/sync-route.ts).  *)
(*                                                                         *)
(* Pages of one browser share the IndexedDB store; each keeps a copy in     *)
(* React state, and a run of triggerSync works through the copy that was    *)
(* rendered when it was called.  A step ends where the code awaits          *)
(* IndexedDB or the network.  The server is checkout by key (StoreLedger):  *)
(* a key that is committed is answered from its order, any other may be     *)
(* committed or refused.                                                    *)
(***************************************************************************)
EXTENDS Integers, FiniteSets

CONSTANTS
    Tab,        \* pages of one browser
    Surface,    \* payment dialogs and drawers, each with its own isProcessing
    Home,       \* the page of each surface
    Instant,    \* surfaces that clear the cart themselves (QuickPayDrawer)
    Keys,       \* bound: presses of a payment button
    Loop,       \* bound: runs of triggerSync at one time
    LoopOf,     \* the page of each; of any page, once that one is closed
    MaxFaults,  \* bound: reloads, lost answers, failures of IndexedDB
    None

ASSUME ClientAssumption ==
    /\ LoopOf \in [Loop -> Tab]
    /\ Home \in [Surface -> Tab]
    /\ Instant \subseteq Surface
    /\ Keys \in Nat /\ MaxFaults \in Nat
    /\ None \notin 1 .. Keys

VARIABLES
    idb,       \* IndexedDB: the sync state of each stored item
    mirror,    \* React state outbox of each page
    syncing,   \* React state isSyncing
    ready,     \* outboxReadyRef: "no", "yes", "broken" for ever; or "closed", no page
    conflict,  \* currentConflict, the item the dialog is about
    loop,      \* runs of triggerSync
    online,    \* isEffectiveOnline
    press,     \* what each surface is doing
    cart,      \* number of the cart each page is ringing up
    cartOf,    \* the cart a key was made for
    net,       \* requests and answers on their way
    orders,    \* keys of the orders the server has committed
    givenUp,   \* keys the cashier gave up: cloud version kept, outbox purged
    faults

pageVars == <<mirror, syncing, ready, conflict, loop>>
saleVars == <<press, cart, cartOf>>
serverVars == <<net, orders>>
vars == <<idb, pageVars, online, saleVars, serverVars, givenUp, faults>>

Key == 1 .. Keys
SyncState == {"queued", "syncing", "synced", "failed"}
Item == SyncState \cup {"absent"}
Copy == [Key -> Item]
Idle == [at |-> "idle"]
Ask(x, k) == [from |-> x, key |-> k, kind |-> "ask"]
Answer(x, k, kind) == [from |-> x, key |-> k, kind |-> kind]

TypeOK ==
    /\ idb \in Copy
    /\ mirror \in [Tab -> Copy]
    /\ syncing \in [Tab -> BOOLEAN]
    /\ ready \in [Tab -> {"no", "yes", "broken", "closed"}]
    /\ conflict \in [Tab -> Key \cup {None}]
    /\ loop \in [Loop -> {Idle} \cup [at : {"called", "next"}, tab : Tab, todo : SUBSET Key]
                   \cup [at : {"sent"}, tab : Tab, todo : SUBSET Key, key : Key]]
    /\ press \in [Surface -> {Idle} \cup [at : {"sent", "queue", "done"}, key : Key]]
    /\ online \in BOOLEAN
    /\ cart \in [Tab -> Nat \ {0}]
    /\ cartOf \in [Key -> {None} \cup (Tab \X (Nat \ {0}))]
    /\ net \subseteq [from : Loop \cup Surface, key : Key, kind : {"ask", "ok", "no"}]
    /\ orders \subseteq Key /\ givenUp \subseteq Key
    /\ faults \in 0 .. MaxFaults

Empty == [k \in Key |-> "absent"]

Init ==
    /\ idb = Empty
    /\ mirror = [t \in Tab |-> Empty]
    /\ syncing = [t \in Tab |-> FALSE]
    /\ ready \in [Tab -> {"no", "closed"}]
    /\ \A s \in Surface : ready[Home[s]] = "no"
    /\ conflict = [t \in Tab |-> None]
    /\ loop = [l \in Loop |-> Idle]
    /\ online \in BOOLEAN
    /\ press = [s \in Surface |-> Idle]
    /\ cart = [t \in Tab |-> 1]
    /\ cartOf = [k \in Key |-> None]
    /\ net = {}
    /\ orders = {}
    /\ givenUp = {}
    /\ faults = 0

Fault == faults < MaxFaults /\ faults' = faults + 1
Stored(k) == idb[k] # "absent"

\* A patch of one item, in the store and in a page's copy of the outbox.
Patched(copy, k, state) == [copy EXCEPT ![k] = IF @ = "absent" THEN @ ELSE state]

Write(t, k, state) ==
    /\ idb' = Patched(idb, k, state)
    /\ mirror' = [mirror EXCEPT ![t] = Patched(@, k, state)]

-----------------------------------------------------------------------------
(* The page *)

\* Mutants of Recovered: the stored states as they are; a state of its own.
RecoveredAsStored(items) == items
RecoveredPending(items) ==
    [k \in Key |-> IF items[k] = "syncing" THEN "pending" ELSE items[k]]

\* normalizeOutboxForRecovery: nobody is sending what an earlier page sent.
Recovered(items) ==
    [k \in Key |-> IF items[k] = "syncing" THEN "queued" ELSE items[k]]

\* ensureOutboxReady reads the store, once for a page.  (The migration of a
\* localStorage snapshot of older versions is left out.)
Load(t) ==
    /\ ready[t] = "no"
    /\ ready' = [ready EXCEPT ![t] = "yes"]
    /\ mirror' = [mirror EXCEPT ![t] = Recovered(idb)]
    /\ UNCHANGED <<idb, syncing, conflict, loop, online, saleVars, serverVars, givenUp, faults>>

\* The promise that failed is kept: the page never reads its outbox again.
LoadFails(t) ==
    /\ ready[t] = "no"
    /\ ready' = [ready EXCEPT ![t] = "broken"]
    /\ Fault
    /\ UNCHANGED <<idb, mirror, syncing, conflict, loop, online, saleVars, serverVars, givenUp>>

\* A reload or a crash: memory is gone, with the cart that was rung up; what is
\* on the network is not.
Reload(t) ==
    /\ ready[t] # "closed"
    /\ mirror' = [mirror EXCEPT ![t] = Empty]
    /\ syncing' = [syncing EXCEPT ![t] = FALSE]
    /\ ready' = [ready EXCEPT ![t] = "no"]
    /\ conflict' = [conflict EXCEPT ![t] = None]
    /\ loop' = [l \in Loop |-> IF loop[l] # Idle /\ loop[l].tab = t THEN Idle ELSE loop[l]]
    /\ press' = [s \in Surface |-> IF Home[s] = t THEN Idle ELSE press[s]]
    /\ cart' = [cart EXCEPT ![t] = IF \E k \in Key : cartOf[k] = <<t, @>> THEN @ + 1 ELSE @]
    /\ Fault
    /\ UNCHANGED <<idb, online, cartOf, serverVars, givenUp>>

Connectivity ==
    /\ online' = ~online
    /\ UNCHANGED <<idb, pageVars, saleVars, serverVars, givenUp, faults>>

-----------------------------------------------------------------------------
(* Paying *)

Fresh(k) == cartOf[k] = None /\ \A j \in 1 .. k - 1 : cartOf[j] # None

\* The button is pressed.  Only the surface's own isProcessing and its completed
\* order stop it: Escape closes a dialog while its checkout is under way, and
\* another surface of the page offers the same cart (QuickPayDrawer forgets its
\* isProcessing when it is opened again: a surface stands for one opening of it).
\* Every press makes a key.
Pay(s, k) ==
    /\ press[s] = Idle
    /\ Fresh(k)
    /\ cartOf' = [cartOf EXCEPT ![k] = <<Home[s], cart[Home[s]]>>]
    /\ IF online
         THEN /\ press' = [press EXCEPT ![s] = [at |-> "sent", key |-> k]]
              /\ net' = net \cup {Ask(s, k)}
         ELSE /\ press' = [press EXCEPT ![s] = [at |-> "queue", key |-> k]]
              /\ UNCHANGED net
    /\ UNCHANGED <<idb, pageVars, online, cart, orders, givenUp, faults>>

\* completedOrder is set; QuickPayDrawer clears the cart, the dialog leaves that
\* to the next sale.
Complete(s) ==
    /\ press' = [press EXCEPT ![s].at = "done"]
    /\ cart' = IF s \in Instant THEN [cart EXCEPT ![Home[s]] = @ + 1] ELSE cart

\* queueOutboxItem: the put is durable before the sale is reported.
QueueSale(s) ==
    /\ press[s].at = "queue"
    /\ ready[Home[s]] = "yes"
    /\ idb' = [idb EXCEPT ![press[s].key] = "queued"]
    /\ mirror' = [mirror EXCEPT ![Home[s]][press[s].key] = "queued"]
    /\ Complete(s)
    /\ UNCHANGED <<syncing, ready, conflict, loop, online, cartOf, serverVars, givenUp, faults>>

\* The catch of a press: the cart stays, for another press with another key.
QueueFails(s) ==
    /\ press[s].at = "queue"
    /\ \/ ready[Home[s]] = "broken" /\ UNCHANGED faults
       \/ ready[Home[s]] = "yes" /\ Fault
    /\ press' = [press EXCEPT ![s] = Idle]
    /\ UNCHANGED <<idb, pageVars, online, cart, cartOf, serverVars, givenUp>>

Paid(s) ==
    /\ press[s].at = "sent"
    /\ Answer(s, press[s].key, "ok") \in net
    /\ net' = net \ {Answer(s, press[s].key, "ok")}
    /\ Complete(s)
    /\ UNCHANGED <<idb, pageVars, online, cartOf, orders, givenUp, faults>>

\* The server refuses, or no answer comes back from it.
PaymentFails(s) ==
    /\ press[s].at = "sent"
    /\ LET no == Answer(s, press[s].key, "no") IN
         \/ no \in net /\ net' = net \ {no} /\ UNCHANGED faults
         \/ net' = net \ {Answer(s, press[s].key, "ok"), no} /\ Fault
    /\ press' = [press EXCEPT ![s] = Idle]
    /\ UNCHANGED <<idb, pageVars, online, cart, cartOf, orders, givenUp>>

\* handleNextSale clears the cart.
NextSale(s) ==
    /\ press[s].at = "done"
    /\ press' = [press EXCEPT ![s] = Idle]
    /\ cart' = IF s \in Instant \/ ~\E k \in Key : cartOf[k] = <<Home[s], cart[Home[s]]>>
                 THEN cart ELSE [cart EXCEPT ![Home[s]] = @ + 1]
    /\ UNCHANGED <<idb, pageVars, online, cartOf, serverVars, givenUp, faults>>

-----------------------------------------------------------------------------
(* The server: checkout by key, for both routes *)

IsAwaited(m) ==
    IF m.from \in Surface THEN press[m.from] = [at |-> "sent", key |-> m.key]
    ELSE loop[m.from].at = "sent" /\ loop[m.from].key = m.key

Reply(m, kind) ==
    net' = (net \ {m}) \cup (IF IsAwaited(m) THEN {Answer(m.from, m.key, kind)} ELSE {})

\* Committed, or answered from the order that the key has.
Commit(m) ==
    /\ m.kind = "ask"
    /\ orders' = orders \cup {m.key}
    /\ Reply(m, "ok")
    /\ UNCHANGED <<idb, pageVars, online, saleVars, givenUp, faults>>

\* Any other answer: no open shift, no stock, another total, not a checkout.
Refuse(m) ==
    /\ m.kind = "ask"
    /\ m.key \notin orders
    /\ Reply(m, "no")
    /\ UNCHANGED <<idb, pageVars, online, saleVars, orders, givenUp, faults>>

Handle(m) == m \in net /\ (Commit(m) \/ Refuse(m))

-----------------------------------------------------------------------------
(* triggerSync *)

ToSend(t) == {k \in Key : mirror[t][k] \in {"queued", "failed"}}

\* Guarded by the isSyncing of the rendering whose handler or effect is called;
\* it will work through the outbox of that rendering.
Trigger(t, l) ==
    /\ online
    /\ ~syncing[t]
    /\ LoopOf[l] = t \/ ready[LoopOf[l]] = "closed"
    /\ loop[l] = Idle
    /\ ToSend(t) # {}
    /\ loop' = [loop EXCEPT ![l] = [at |-> "called", tab |-> t, todo |-> ToSend(t)]]
    /\ UNCHANGED <<idb, mirror, syncing, ready, conflict, online, saleVars, serverVars, givenUp, faults>>

\* The effect that runs after a rendering calls it only for queued items.
AutoTrigger(t, l) ==
    /\ \E k \in Key : mirror[t][k] = "queued"
    /\ Trigger(t, l)

\* isSyncing is set after the outbox was awaited, and no handler sees it before
\* the next rendering: another run may have been called meanwhile.
Start(l) ==
    /\ loop[l].at = "called"
    /\ loop' = [loop EXCEPT ![l].at = "next"]
    /\ syncing' = [syncing EXCEPT ![loop[l].tab] = TRUE]
    /\ UNCHANGED <<idb, mirror, ready, conflict, online, saleVars, serverVars, givenUp, faults>>

Rest(l, k) == [at |-> "next", tab |-> loop[l].tab, todo |-> loop[l].todo \ {k}]

\* An item is marked and sent, whatever has become of it since.
Send(l, k) ==
    /\ loop[l].at = "next"
    /\ k \in loop[l].todo
    /\ Stored(k)
    /\ Write(loop[l].tab, k, "syncing")
    /\ net' = net \cup {Ask(l, k)}
    /\ loop' = [loop EXCEPT ![l] = [at |-> "sent", tab |-> @.tab, todo |-> @.todo \ {k}, key |-> k]]
    /\ UNCHANGED <<syncing, ready, conflict, online, saleVars, orders, givenUp, faults>>

\* The catch of the loop: 'failed' in the page and, unless that write fails too,
\* in the store.  The dialog takes the item if the loop remembers none.
GiveUp(l, k, canWrite) ==
    LET t == loop[l].tab IN
    /\ idb' = IF canWrite THEN Patched(idb, k, "failed") ELSE idb
    /\ mirror' = [mirror EXCEPT ![t] = Patched(@, k, "failed")]
    /\ conflict' \in {[conflict EXCEPT ![t] = k]}
                       \cup (IF conflict[t] = None THEN {} ELSE {conflict})
    /\ loop' = [loop EXCEPT ![l] = Rest(l, k)]
    /\ UNCHANGED <<syncing, ready, online, saleVars, orders, givenUp>>

\* The item is gone from the store, or the store fails.
SendFails(l, k) ==
    /\ loop[l].at = "next"
    /\ k \in loop[l].todo
    /\ \/ ~Stored(k) /\ GiveUp(l, k, TRUE) /\ UNCHANGED faults
       \/ \E w \in BOOLEAN : GiveUp(l, k, w) /\ Fault
    /\ UNCHANGED net

\* Mutant of Confirm: the answer is not looked at.
ConfirmAny(l) ==
    /\ loop[l].at = "sent"
    /\ Stored(loop[l].key)
    /\ \E m \in net :
          /\ m.from = l /\ m.key = loop[l].key /\ m.kind # "ask"
          /\ net' = net \ {m}
    /\ Write(loop[l].tab, loop[l].key, "synced")
    /\ loop' = [loop EXCEPT ![l] = Rest(l, loop[l].key)]
    /\ UNCHANGED <<syncing, ready, conflict, online, saleVars, orders, givenUp, faults>>

\* The server has answered with the order.
Confirm(l) ==
    /\ loop[l].at = "sent"
    /\ Stored(loop[l].key)
    /\ Answer(l, loop[l].key, "ok") \in net
    /\ net' = net \ {Answer(l, loop[l].key, "ok")}
    /\ Write(loop[l].tab, loop[l].key, "synced")
    /\ loop' = [loop EXCEPT ![l] = Rest(l, loop[l].key)]
    /\ UNCHANGED <<syncing, ready, conflict, online, saleVars, orders, givenUp, faults>>

\* The server refuses, no answer comes back, or the answer cannot be saved.
SyncFails(l) ==
    /\ loop[l].at = "sent"
    /\ LET k == loop[l].key
           ok == Answer(l, k, "ok")
           no == Answer(l, k, "no")
       IN
         \/ no \in net /\ net' = net \ {no} /\ GiveUp(l, k, TRUE) /\ UNCHANGED faults
         \/ ok \in net /\ ~Stored(k) /\ net' = net \ {ok} /\ GiveUp(l, k, TRUE) /\ UNCHANGED faults
         \/ net' = net \ {ok, no} /\ (\E w \in BOOLEAN : GiveUp(l, k, w)) /\ Fault

\* The flag falls although another run may be under way.
Finish(l) ==
    /\ loop[l].at = "next"
    /\ loop[l].todo = {}
    /\ loop' = [loop EXCEPT ![l] = Idle]
    /\ syncing' = [syncing EXCEPT ![loop[l].tab] = FALSE]
    /\ UNCHANGED <<idb, mirror, ready, conflict, online, saleVars, serverVars, givenUp, faults>>

-----------------------------------------------------------------------------
(* The cashier and the outbox *)

\* resolveConflict: "keep local" and "merge" queue the item again.  An item that is
\* gone from the store is left alone, also in the page.
Resolve(t, state) ==
    /\ conflict[t] # None
    /\ IF Stored(conflict[t]) THEN Write(t, conflict[t], state) ELSE UNCHANGED <<idb, mirror>>
    /\ conflict' = [conflict EXCEPT ![t] = None]
    /\ UNCHANGED <<syncing, ready, loop, online, saleVars, serverVars, faults>>

KeepLocal(t) == Resolve(t, "queued") /\ UNCHANGED givenUp

\* "Keep cloud" marks it synced; no server has said so.
KeepCloud(t) == Resolve(t, "synced") /\ givenUp' = givenUp \cup {conflict[t]}

Without(copy, gone) == [k \in Key |-> IF copy[k] \in gone THEN "absent" ELSE copy[k]]

Clear(t, gone) ==
    /\ \E k \in Key : mirror[t][k] \in gone
    /\ idb' = Without(idb, gone)
    /\ mirror' = [mirror EXCEPT ![t] = Without(@, gone)]
    /\ UNCHANGED <<syncing, ready, conflict, loop, online, saleVars, serverVars, faults>>

\* Mutant of ClearSynced: what has been tried goes, not what has succeeded.
ClearTried(t) == Clear(t, {"synced", "failed"}) /\ UNCHANGED givenUp

ClearSynced(t) == Clear(t, {"synced"}) /\ UNCHANGED givenUp

\* Purges the queue, whatever is in it.
ClearOutbox(t) ==
    /\ Clear(t, SyncState)
    /\ givenUp' = givenUp \cup {k \in Key : Stored(k)}

Next ==
    \/ \E t \in Tab :
          \/ Load(t) \/ LoadFails(t) \/ Reload(t)
          \/ KeepLocal(t) \/ KeepCloud(t) \/ ClearSynced(t) \/ ClearOutbox(t)
          \/ \E l \in Loop : Trigger(t, l)
    \/ Connectivity
    \/ \E s \in Surface :
          \/ \E k \in Key : Pay(s, k)
          \/ QueueSale(s) \/ QueueFails(s) \/ Paid(s) \/ PaymentFails(s) \/ NextSale(s)
    \/ \E m \in net : Handle(m)
    \/ \E l \in Loop :
          \/ Start(l)
          \/ \E k \in Key : Send(l, k) \/ SendFails(l, k)
          \/ Confirm(l) \/ SyncFails(l) \/ Finish(l)

\* A page that stays open loads and runs its effects; the server answers
\* and the loops go on.  Nobody has to press a button.
Fairness ==
    /\ \A t \in Tab :
          /\ WF_vars(Load(t))
          /\ WF_vars(\E l \in Loop : AutoTrigger(t, l))
    /\ \A l \in Loop, k \in Key : WF_vars(Handle(Ask(l, k)))
    /\ \A l \in Loop :
          /\ WF_vars(Start(l))
          /\ WF_vars(\E k \in Key : Send(l, k) \/ SendFails(l, k))
          /\ WF_vars(Confirm(l) \/ SyncFails(l))
          /\ WF_vars(Finish(l))

Spec == Init /\ [][Next]_vars
FairSpec == Spec /\ Fairness

-----------------------------------------------------------------------------
(* Properties *)

\* "Never pretend an offline transaction is server-committed": an item is marked
\* synced only when the server has its order, or the cashier kept the cloud's
\* version of it; stale runs, lost answers and reloads do not change that.
SyncedIsCommitted ==
    \A k \in Key : idb[k] = "synced" => k \in orders \cup givenUp

\* A sale that was reported as saved leaves the store only after the server has
\* it, whatever the runs, marks, purges and reloads of two pages do to the store; or
\* the cashier purged it.  The one clear of the whole store is left out: a page that
\* finds a snapshot of the old format moves it over (OfflineContext.tsx:239-251,
\* offlineOutboxStore.ts:82-91).
QueuedSaleIsKept ==
    [][\A k \in Key : Stored(k) /\ ~Stored(k)' => k \in orders \cup givenUp']_vars

\* While nothing fails a cart is sold once: committed, or waiting in the outbox,
\* under one key.
CartPaidOnce ==
    faults = 0 =>
        \A j, k \in orders \cup {i \in Key : Stored(i)} : cartOf[j] = cartOf[k] => j = k

\* In a page that stays open and on-line no item waits for ever: it is confirmed
\* or shown as failed.
QueuedIsSettled ==
    <>[]online =>
        \A t \in Tab, k \in Key :
            mirror[t][k] \in {"queued", "syncing"} ~> mirror[t][k] \notin {"queued", "syncing"}
=============================================================================
