-------------------------- MODULE TimeclockProofs --------------------------
(* Clock records and operations explain each other for every set of calls, keys *)
(* and users, and a lock is obeyed.  A call that has claimed its key is the only *)
(* one with that claim until it commits: ClaimsHeld makes the properties         *)
(* inductive.                                                                     *)
EXTENDS Timeclock, SequenceTheorems, TLAPS

Row == [user : User, open : BOOLEAN]
Trying == [at : {"trying"}, claim : Claim, pin : Pin, counted : BOOLEAN]
Running == [at : {"known", "claimed", "looked"}, claim : Claim, user : User]

InOperation(r) == call[r].at \in {"claimed", "looked"}

(* The unique index of the operations, seen from the transactions under way. *)
ClaimsHeld ==
  \A r \in Request : InOperation(r) =>
    /\ OpsOf(call[r].claim) = {}
    /\ call[r].at = "looked" => call[r].claim.type = "clock_in"
    /\ \A q \in Request \ {r} : InOperation(q) => call[q].claim # call[r].claim

(* The inductive invariant. *)
IInv == TypeOK /\ ClaimsHeld /\ OneOpenRecord /\ RecordsExplained /\ LockIsObeyed

----------------------------------------------------------------------------
(* The calls under way, by the step they have reached. *)

LEMMA CallTypes ==
  ASSUME TypeOK, NEW r \in Request
  PROVE  /\ call[r].at = "trying" => call[r] \in Trying
         /\ call[r].at \in {"known", "claimed", "looked"} => call[r] \in Running
         /\ call[r] = Idle => call[r].at = "idle"
<1>1. call[r] \in {Idle} \cup Trying \cup Running
  BY DEF TypeOK, Trying, Running
<1>2. call[r] = Idle => call[r].at = "idle"
  BY DEF Idle
<1>3. call[r] \in Trying => call[r].at = "trying"
  BY DEF Trying
<1>4. call[r] \in Running => call[r].at \in {"known", "claimed", "looked"}
  BY DEF Running
<1> QED BY <1>1, <1>2, <1>3, <1>4

LEMMA InitHolds == Init => IInv
<1> SUFFICES ASSUME Init PROVE IInv
  OBVIOUS
<1>1. TypeOK
  BY TimeclockAssumption DEF Init, TypeOK
<1>2. \A r \in Request : call[r].at = "idle"
  BY DEF Init, Idle
<1>3. ClaimsHeld /\ LockIsObeyed
  BY <1>2 DEF ClaimsHeld, LockIsObeyed, InOperation
<1>4. OneOpenRecord /\ RecordsExplained
  BY DEF Init, OneOpenRecord, RecordsExplained, OpenOf
<1> QED BY <1>1, <1>3, <1>4 DEF IInv

(* A call that goes on to another step, the tables of the clock as they were. *)
LEMMA ClockUntouched ==
  ASSUME IInv, NEW r \in Request, UNCHANGED clock,
         \A q \in Request \ {r} : call'[q] = call[q],
         \/ ~InOperation(r)'
         \/ /\ InOperation(r) /\ call'[r].claim = call[r].claim
            /\ call'[r].at = "looked" => call'[r].claim.type = "clock_in"
  PROVE  ClaimsHeld' /\ OneOpenRecord' /\ RecordsExplained'
<1>1. records' = records /\ ops' = ops /\ answers' = answers
  BY DEF clock
<1>2. OneOpenRecord' /\ RecordsExplained'
  BY <1>1 DEF IInv, OneOpenRecord, RecordsExplained, OpenOf
<1>3. \A q \in Request : InOperation(q)' => InOperation(q) /\ call'[q].claim = call[q].claim
  BY DEF InOperation
<1>4. ClaimsHeld'
  BY <1>1, <1>3 DEF IInv, ClaimsHeld, OpsOf
<1> QED BY <1>2, <1>4

(* The lock, when no call begins to try a PIN and none is locked. *)
LEMMA LockKept ==
  ASSUME IInv, NEW r \in Request, locked' \subseteq locked,
         \A q \in Request \ {r} : call'[q] = call[q],
         call'[r].at # "trying"
  PROVE  LockIsObeyed'
<1> QED BY DEF IInv, LockIsObeyed, ActorOf

----------------------------------------------------------------------------
(* What a commit does to the tables. *)

LEMMA ClockInHolds ==
  ASSUME IInv, NEW r \in Request, ClockIn(r)
  PROVE  IInv'
<1> DEFINE u == call[r].user
           row == [user |-> u, open |-> TRUE]
           n == Len(records) + 1
           o == [claim |-> call[r].claim, user |-> u, rec |-> n]
<1>1. call[r] \in Running /\ InOperation(r) /\ u \in User /\ call[r].claim \in Claim
  BY CallTypes DEF IInv, ClockIn, InOperation, Running
<1>2. /\ records' = Append(records, row) /\ ops' = ops \cup {o}
      /\ answers' \in {answers, answers \cup {o}}
      /\ call' = [call EXCEPT ![r] = Idle]
      /\ UNCHANGED <<owner, active, attempts, locked>>
  BY DEF ClockIn, CommitAs, staff, pins
<1>3. records \in Seq(Row) /\ row \in Row /\ Len(records) < MaxRecords
  BY <1>1 DEF IInv, TypeOK, ClockIn, Row
<1>4. /\ records' \in Seq(Row) /\ Len(records') = n
      /\ DOMAIN records = 1 .. Len(records) /\ DOMAIN records' = 1 .. n
      /\ \A i \in DOMAIN records : records'[i] = records[i]
      /\ records'[n] = row
  BY <1>2, <1>3
<1>5. n \in 1 .. MaxRecords /\ o \in Operation
  BY <1>1, <1>3, TimeclockAssumption DEF Operation
<1>6. /\ \A q \in Request \ {r} : call'[q] = call[q]
      /\ call'[r] = Idle
  BY <1>2 DEF IInv, TypeOK
<1>7. TypeOK'
  <2>1. call' \in [Request -> {Idle} \cup Trying \cup Running]
    BY <1>2 DEF IInv, TypeOK, Trying, Running
  <2> QED BY <1>2, <1>3, <1>4, <1>5, <2>1 DEF IInv, TypeOK, Row, Trying, Running
<1>8. call[r].claim.type = "clock_in" /\ \A p \in ops : p.claim # call[r].claim
  <2>1. OpsOf(call[r].claim) = {} /\ call[r].claim.type = "clock_in"
    BY <1>1 DEF IInv, ClaimsHeld, ClockIn
  <2> QED BY <2>1 DEF OpsOf
<1>9. ClaimsHeld'
  <2> SUFFICES ASSUME NEW q \in Request, InOperation(q)'
               PROVE  /\ OpsOf(call[q].claim)' = {}
                      /\ call'[q].at = "looked" => call'[q].claim.type = "clock_in"
                      /\ \A s \in Request \ {q} : InOperation(s)' => call'[s].claim # call'[q].claim
    BY DEF ClaimsHeld
  <2>1. q # r
    BY <1>6 DEF InOperation, Idle
  <2>2. InOperation(q) /\ call'[q] = call[q]
    BY <1>6, <2>1 DEF InOperation
  <2>3. call[r].claim # call[q].claim /\ OpsOf(call[q].claim) = {}
    BY <1>1, <2>1, <2>2 DEF IInv, ClaimsHeld
  <2>4. OpsOf(call[q].claim)' = {}
    BY <1>2, <2>2, <2>3 DEF OpsOf
  <2>5. \A s \in Request : InOperation(s)' => InOperation(s) /\ call'[s] = call[s]
    BY <1>6 DEF InOperation, Idle
  <2> QED BY <2>2, <2>4, <2>5 DEF IInv, ClaimsHeld
<1>10. OneOpenRecord'
  <2> SUFFICES ASSUME NEW v \in User, NEW i \in OpenOf(v)', NEW j \in OpenOf(v)'
               PROVE  i = j
    BY DEF OneOpenRecord
  <2>1. \A k \in OpenOf(v)' : (k = n /\ v = u) \/ k \in OpenOf(v)
    BY <1>4 DEF OpenOf
  <2>2. OpenOf(u) = {}
    BY DEF ClockIn
  <2> QED BY <2>1, <2>2 DEF IInv, OneOpenRecord
<1>11. RecordsExplained'
  <2>1. \A p \in ops : p.rec \in DOMAIN records /\ p.rec # n
    BY <1>4 DEF IInv, RecordsExplained
  <2>2. \A p, q \in ops' : p.claim = q.claim => p = q
    BY <1>2, <1>8 DEF IInv, RecordsExplained
  <2>3. \A p, q \in ops' : p.rec = q.rec /\ p.claim.type = q.claim.type => p = q
    BY <1>2, <2>1 DEF IInv, RecordsExplained
  <2>4. \A p \in ops' : p.rec \in DOMAIN records' /\ p.user = records'[p.rec].user
    BY <1>2, <1>4, <2>1 DEF IInv, RecordsExplained
  <2>5. ASSUME NEW i \in DOMAIN records'
        PROVE  /\ \E p \in ops' : p.rec = i /\ p.claim.type = "clock_in"
               /\ records'[i].open <=> ~\E p \in ops' : p.rec = i /\ p.claim.type = "clock_out"
    <3>1. CASE i = n
      <4>1. o \in ops' /\ o.rec = n /\ o.claim.type = "clock_in" /\ records'[n].open
        BY <1>2, <1>4, <1>8
      <4>2. \A p \in ops' : p.rec = n => p.claim.type = "clock_in"
        BY <1>2, <1>8, <2>1
      <4> QED BY <3>1, <4>1, <4>2
    <3>2. CASE i \in DOMAIN records
      <4>1. records'[i] = records[i] /\ i # n
        BY <1>4, <3>2
      <4> QED BY <1>2, <3>2, <4>1 DEF IInv, RecordsExplained
    <3> QED BY <1>4, <3>1, <3>2
  <2>6. answers' \subseteq ops'
    BY <1>2 DEF IInv, RecordsExplained
  <2> QED BY <2>2, <2>3, <2>4, <2>5, <2>6 DEF RecordsExplained
<1>12. LockIsObeyed'
  BY <1>2, <1>6, LockKept DEF Idle
<1> QED BY <1>7, <1>9, <1>10, <1>11, <1>12 DEF IInv

LEMMA ClockOutHolds ==
  ASSUME IInv, NEW r \in Request, ClockOut(r)
  PROVE  IInv'
<1>1. PICK i \in OpenOf(call[r].user) :
        records' = [records EXCEPT ![i].open = FALSE] /\ CommitAs(r, i)
  BY DEF ClockOut
<1> DEFINE o == [claim |-> call[r].claim, user |-> call[r].user, rec |-> i]
<1>2. /\ call[r] \in Running /\ InOperation(r) /\ call[r].claim \in Claim
      /\ call[r].user \in User /\ call[r].claim.type = "clock_out"
  BY CallTypes DEF IInv, ClockOut, InOperation, Running
<1>3. /\ ops' = ops \cup {o}
      /\ answers' \in {answers, answers \cup {o}}
      /\ call' = [call EXCEPT ![r] = Idle]
      /\ UNCHANGED <<owner, active, attempts, locked>>
  BY <1>1 DEF CommitAs, staff, pins
<1>4. /\ records \in Seq(Row) /\ DOMAIN records = 1 .. Len(records) /\ i \in 1 .. Len(records)
      /\ Len(records) <= MaxRecords /\ records[i].open /\ records[i].user = call[r].user
  BY DEF IInv, TypeOK, Row, OpenOf
<1>5. /\ records' \in Seq(Row) /\ Len(records') = Len(records) /\ DOMAIN records' = DOMAIN records
      /\ \A j \in DOMAIN records : j # i => records'[j] = records[j]
      /\ records'[i].user = records[i].user /\ records'[i].open = FALSE
  <2>1. records[i] \in Row
    BY <1>4
  <2>2. records' = [records EXCEPT ![i] = [records[i] EXCEPT !.open = FALSE]]
    BY <1>1
  <2>3. /\ [records[i] EXCEPT !.open = FALSE] \in Row
        /\ [records[i] EXCEPT !.open = FALSE].user = records[i].user
        /\ [records[i] EXCEPT !.open = FALSE].open = FALSE
    BY <2>1 DEF Row
  <2> QED BY <1>4, <2>2, <2>3
<1>6. i \in 1 .. MaxRecords /\ o \in Operation
  BY <1>2, <1>4, TimeclockAssumption DEF Operation
<1>7. /\ \A q \in Request \ {r} : call'[q] = call[q]
      /\ call'[r] = Idle
  BY <1>3 DEF IInv, TypeOK
<1>8. TypeOK'
  <2>1. call' \in [Request -> {Idle} \cup Trying \cup Running]
    BY <1>3 DEF IInv, TypeOK, Trying, Running
  <2> QED BY <1>3, <1>4, <1>5, <1>6, <2>1 DEF IInv, TypeOK, Row, Trying, Running
<1>9. \A p \in ops : p.claim # call[r].claim
  <2>1. OpsOf(call[r].claim) = {}
    BY <1>2 DEF IInv, ClaimsHeld
  <2> QED BY <2>1 DEF OpsOf
<1>10. ClaimsHeld'
  <2> SUFFICES ASSUME NEW q \in Request, InOperation(q)'
               PROVE  /\ OpsOf(call[q].claim)' = {}
                      /\ call'[q].at = "looked" => call'[q].claim.type = "clock_in"
                      /\ \A s \in Request \ {q} : InOperation(s)' => call'[s].claim # call'[q].claim
    BY DEF ClaimsHeld
  <2>1. q # r
    BY <1>7 DEF InOperation, Idle
  <2>2. InOperation(q) /\ call'[q] = call[q]
    BY <1>7, <2>1 DEF InOperation
  <2>3. call[r].claim # call[q].claim /\ OpsOf(call[q].claim) = {}
    BY <1>2, <2>1, <2>2 DEF IInv, ClaimsHeld
  <2>4. OpsOf(call[q].claim)' = {}
    BY <1>3, <2>2, <2>3 DEF OpsOf
  <2>5. \A s \in Request : InOperation(s)' => InOperation(s) /\ call'[s] = call[s]
    BY <1>7 DEF InOperation, Idle
  <2> QED BY <2>2, <2>4, <2>5 DEF IInv, ClaimsHeld
<1>11. OneOpenRecord'
  <2>1. \A v \in User : OpenOf(v)' \subseteq OpenOf(v)
    BY <1>5 DEF OpenOf
  <2> QED BY <2>1 DEF IInv, OneOpenRecord
<1>12. RecordsExplained'
  <2>1. ~\E p \in ops : p.rec = i /\ p.claim.type = "clock_out"
    BY <1>4 DEF IInv, RecordsExplained
  <2>2. \A p, q \in ops' : p.claim = q.claim => p = q
    BY <1>3, <1>9 DEF IInv, RecordsExplained
  <2>3. \A p, q \in ops' : p.rec = q.rec /\ p.claim.type = q.claim.type => p = q
    BY <1>2, <1>3, <2>1 DEF IInv, RecordsExplained
  <2>4. \A p \in ops' : p.rec \in DOMAIN records' /\ p.user = records'[p.rec].user
    <3>1. \A j \in DOMAIN records : records'[j].user = records[j].user
      BY <1>5
    <3> QED BY <1>3, <1>4, <1>5, <3>1 DEF IInv, RecordsExplained
  <2>5. ASSUME NEW j \in DOMAIN records'
        PROVE  /\ \E p \in ops' : p.rec = j /\ p.claim.type = "clock_in"
               /\ records'[j].open <=> ~\E p \in ops' : p.rec = j /\ p.claim.type = "clock_out"
    <3>1. j \in DOMAIN records /\ \E p \in ops : p.rec = j /\ p.claim.type = "clock_in"
      BY <1>5 DEF IInv, RecordsExplained
    <3>2. CASE j = i
      <4>1. o \in ops' /\ o.rec = i /\ o.claim.type = "clock_out" /\ ~records'[i].open
        BY <1>2, <1>3, <1>5
      <4>2. \E p \in ops' : p.rec = j /\ p.claim.type = "clock_in"
        BY <1>3, <3>1
      <4> QED BY <3>2, <4>1, <4>2
    <3>3. CASE j # i
      BY <1>3, <1>5, <3>1, <3>3 DEF IInv, RecordsExplained
    <3> QED BY <3>2, <3>3
  <2>6. answers' \subseteq ops'
    BY <1>3 DEF IInv, RecordsExplained
  <2> QED BY <2>2, <2>3, <2>4, <2>5, <2>6 DEF RecordsExplained
<1>13. LockIsObeyed'
  BY <1>3, <1>7, LockKept DEF Idle
<1> QED BY <1>8, <1>10, <1>11, <1>12, <1>13 DEF IInv

----------------------------------------------------------------------------
(* The other steps. *)

(* A call that goes on, or ends, and leaves the tables of the clock alone. *)
LEMMA CallStep ==
  ASSUME IInv, NEW r \in Request, NEW x \in {Idle} \cup Trying \cup Running,
         call' = [call EXCEPT ![r] = x]
  PROVE  /\ call'[r] = x
         /\ \A q \in Request \ {r} : call'[q] = call[q]
         /\ call' \in [Request -> {Idle} \cup [at : {"trying"}, claim : Claim, pin : Pin, counted : BOOLEAN]
                 \cup [at : {"known", "claimed", "looked"}, claim : Claim, user : User]]
  BY DEF IInv, TypeOK, Trying, Running

LEMMA CheckLockHolds ==
  ASSUME IInv, NEW r \in Request, NEW c \in Claim, NEW p \in Pin, CheckLock(r, c, p)
  PROVE  IInv'
<1> DEFINE x == [at |-> "trying", claim |-> c, pin |-> p, counted |-> attempts[c.actor] > 0]
<1>1. UNCHANGED <<owner, active, attempts, locked, records, ops, answers>>
  BY DEF CheckLock, staff, pins, clock
<1>2. x \in Trying
  <2>1. (attempts[c.actor] > 0) \in BOOLEAN
    OBVIOUS
  <2> QED BY <2>1 DEF Trying
<1>3. /\ call'[r] = x /\ \A q \in Request \ {r} : call'[q] = call[q]
      /\ TypeOK'
  BY <1>1, <1>2, CallStep DEF CheckLock, TypeOK, IInv
<1>4. ClaimsHeld' /\ OneOpenRecord' /\ RecordsExplained'
  BY <1>1, <1>3, ClockUntouched DEF InOperation, clock
<1>5. LockIsObeyed'
  <2>1. c.actor \notin locked
    BY DEF CheckLock
  <2> QED BY <1>1, <1>3, <2>1 DEF LockIsObeyed, ActorOf, IInv
<1> QED BY <1>3, <1>4, <1>5 DEF IInv

LEMMA AcceptHolds ==
  ASSUME IInv, NEW r \in Request, Accept(r)
  PROVE  IInv'
<1> DEFINE x == [at |-> "known", claim |-> call[r].claim, user |-> owner[call[r].pin]]
<1>1. UNCHANGED <<owner, active, records, ops, answers>>
  BY DEF Accept, staff, clock
<1>2. call[r] \in Trying /\ x \in Running
  BY CallTypes DEF Accept, Trying, Running, IInv, TypeOK
<1>3. call' = [call EXCEPT ![r] = x]
  BY DEF Accept
<1>4. /\ call'[r] = x /\ \A q \in Request \ {r} : call'[q] = call[q]
      /\ TypeOK'
  <2>1. /\ attempts' = [attempts EXCEPT ![ActorOf(r)] = 0]
        /\ locked' = locked \ {ActorOf(r)}
    BY DEF Accept
  <2>2. 0 \in 0 .. MaxFailures
    BY TimeclockAssumption
  <2>3. attempts' \in [Actor -> 0 .. MaxFailures] /\ locked' \subseteq Actor
    BY <2>1, <2>2 DEF IInv, TypeOK
  <2> QED BY <1>1, <1>2, <1>3, <2>3, CallStep DEF TypeOK, IInv
<1>5. ClaimsHeld' /\ OneOpenRecord' /\ RecordsExplained'
  BY <1>1, <1>4, ClockUntouched DEF InOperation, clock
<1>6. LockIsObeyed'
  BY <1>4, LockKept DEF Accept
<1> QED BY <1>4, <1>5, <1>6 DEF IInv

(* The failure that locks an actor waits for the calls that hold the row. *)
LEMMA FailHolds ==
  ASSUME IInv, NEW r \in Request, Fail(r)
  PROVE  IInv'
<1>1. UNCHANGED <<owner, active, records, ops, answers>> /\ call' = [call EXCEPT ![r] = Idle]
  BY DEF Fail, staff, clock
<1>2. call[r] \in Trying /\ ActorOf(r) \in Actor
  BY CallTypes DEF Fail, Trying, IInv, ActorOf, Claim
<1>3. attempts' \in [Actor -> 0 .. MaxFailures] /\ locked' \subseteq Actor
  BY <1>2, TimeclockAssumption DEF Fail, IInv, TypeOK
<1>4. /\ call'[r] = Idle /\ \A q \in Request \ {r} : call'[q] = call[q]
      /\ TypeOK'
  BY <1>1, <1>3, CallStep DEF TypeOK, IInv
<1>5. ClaimsHeld' /\ OneOpenRecord' /\ RecordsExplained'
  BY <1>1, <1>4, ClockUntouched DEF InOperation, clock, Idle
<1>6. LockIsObeyed'
  <2> SUFFICES ASSUME NEW q \in Request, call'[q].at = "trying", call'[q].counted
               PROVE  ActorOf(q)' \notin locked'
    BY DEF LockIsObeyed
  <2>1. q # r /\ call'[q] = call[q]
    BY <1>4 DEF Idle
  <2>2. ActorOf(q) # ActorOf(r) /\ ActorOf(q) \notin locked
    BY <2>1 DEF Fail, RowTaken, IInv, LockIsObeyed
  <2> QED BY <2>1, <2>2 DEF Fail, ActorOf
<1> QED BY <1>4, <1>5, <1>6 DEF IInv

LEMMA ClaimKeyHolds ==
  ASSUME IInv, NEW r \in Request, ClaimKey(r)
  PROVE  IInv'
<1> DEFINE x == [call[r] EXCEPT !.at = "claimed"]
<1>1. UNCHANGED <<owner, active, attempts, locked, records, ops, answers>>
  BY DEF ClaimKey, staff, pins, clock
<1>2. call[r] \in Running /\ x \in Running /\ x.claim = call[r].claim /\ x.at = "claimed"
  BY CallTypes DEF ClaimKey, Running, IInv
<1>3. call' = [call EXCEPT ![r] = x]
  BY DEF ClaimKey
<1>4. /\ call'[r] = x /\ \A q \in Request \ {r} : call'[q] = call[q]
      /\ TypeOK'
  BY <1>1, <1>2, <1>3, CallStep DEF TypeOK, IInv
<1>5. OneOpenRecord' /\ RecordsExplained'
  BY <1>1 DEF IInv, OneOpenRecord, RecordsExplained, OpenOf
<1>6. ClaimsHeld'
  <2>1. \A q \in Request \ {r} : InOperation(q)' <=> InOperation(q)
    BY <1>4 DEF InOperation
  <2>2. OpsOf(call[r].claim) = {}
        /\ \A q \in Request \ {r} : InOperation(q) => call[q].claim # call[r].claim
    BY DEF ClaimKey, InOperation
  <2> SUFFICES ASSUME NEW q \in Request, InOperation(q)'
               PROVE  /\ OpsOf(call[q].claim)' = {}
                      /\ call'[q].at = "looked" => call'[q].claim.type = "clock_in"
                      /\ \A s \in Request \ {q} : InOperation(s)' => call'[s].claim # call'[q].claim
    BY DEF ClaimsHeld
  <2>3. CASE q = r
    <3>1. OpsOf(call[q].claim)' = {}
      BY <1>1, <1>2, <1>4, <2>2, <2>3 DEF OpsOf
    <3> QED BY <1>2, <1>4, <2>1, <2>2, <2>3, <3>1
  <2>4. CASE q # r
    <3>1. InOperation(q) /\ call'[q] = call[q] /\ call[q].claim # call[r].claim
      BY <1>4, <2>1, <2>2, <2>4
    <3>2. \A s \in Request \ {q} : InOperation(s)' => call'[s].claim # call[q].claim
      BY <1>2, <1>4, <2>1, <3>1 DEF IInv, ClaimsHeld
    <3>3. OpsOf(call[q].claim)' = {}
      BY <1>1, <3>1 DEF OpsOf, IInv, ClaimsHeld
    <3> QED BY <3>1, <3>2, <3>3 DEF IInv, ClaimsHeld
  <2> QED BY <2>3, <2>4
<1>7. LockIsObeyed'
  BY <1>1, <1>2, <1>4, LockKept
<1> QED BY <1>4, <1>5, <1>6, <1>7 DEF IInv

LEMMA ReplayHolds ==
  ASSUME IInv, NEW r \in Request, Replay(r)
  PROVE  IInv'
<1>1. /\ UNCHANGED <<owner, active, attempts, locked, records, ops>>
      /\ call' = [call EXCEPT ![r] = Idle]
      /\ answers' \subseteq ops
  BY DEF Replay, staff, pins, OpsOf, IInv, RecordsExplained
<1>2. /\ call'[r] = Idle /\ \A q \in Request \ {r} : call'[q] = call[q]
      /\ TypeOK'
  BY <1>1, CallStep DEF TypeOK, IInv
<1>3. OneOpenRecord' /\ RecordsExplained'
  BY <1>1 DEF IInv, OneOpenRecord, RecordsExplained, OpenOf
<1>4. ClaimsHeld'
  <2>1. \A q \in Request : InOperation(q)' => InOperation(q) /\ call'[q] = call[q]
    BY <1>2 DEF InOperation, Idle
  <2> QED BY <1>1, <2>1 DEF ClaimsHeld, IInv, OpsOf
<1>5. LockIsObeyed'
  BY <1>1, <1>2, LockKept DEF Idle
<1> QED BY <1>2, <1>3, <1>4, <1>5 DEF IInv

LEMMA LookForOpenHolds ==
  ASSUME IInv, NEW r \in Request, LookForOpen(r)
  PROVE  IInv'
<1> DEFINE x == [call[r] EXCEPT !.at = "looked"]
<1>1. UNCHANGED <<owner, active, attempts, locked, records, ops, answers>>
  BY DEF LookForOpen, staff, pins, clock
<1>2. /\ call[r] \in Running /\ x \in Running /\ x.claim = call[r].claim /\ x.at = "looked"
      /\ call[r].claim.type = "clock_in" /\ InOperation(r)
  BY CallTypes DEF LookForOpen, Running, IInv, InOperation
<1>3. call' = [call EXCEPT ![r] = x]
  BY DEF LookForOpen
<1>4. /\ call'[r] = x /\ \A q \in Request \ {r} : call'[q] = call[q]
      /\ TypeOK'
  BY <1>1, <1>2, <1>3, CallStep DEF TypeOK, IInv
<1>5. ClaimsHeld' /\ OneOpenRecord' /\ RecordsExplained'
  BY <1>1, <1>2, <1>4, ClockUntouched DEF clock
<1>6. LockIsObeyed'
  BY <1>1, <1>2, <1>4, LockKept
<1> QED BY <1>4, <1>5, <1>6 DEF IInv

LEMMA RollBackHolds ==
  ASSUME IInv, NEW r \in Request, RollBack(r)
  PROVE  IInv'
<1>1. /\ UNCHANGED <<owner, active, attempts, locked, records, ops, answers>>
      /\ call' = [call EXCEPT ![r] = Idle]
  BY DEF RollBack, staff, pins, clock
<1>2. /\ call'[r] = Idle /\ \A q \in Request \ {r} : call'[q] = call[q]
      /\ TypeOK'
  BY <1>1, CallStep DEF TypeOK, IInv
<1>3. ClaimsHeld' /\ OneOpenRecord' /\ RecordsExplained'
  BY <1>1, <1>2, ClockUntouched DEF clock, InOperation, Idle
<1>4. LockIsObeyed'
  BY <1>1, <1>2, LockKept DEF Idle
<1> QED BY <1>2, <1>3, <1>4 DEF IInv

(* No call moves and no record is written. *)
LEMMA OthersHold ==
  ASSUME IInv, UNCHANGED <<clock, call>>, locked' \subseteq locked, TypeOK'
  PROVE  IInv'
<1>1. UNCHANGED <<records, ops, answers, call>>
  BY DEF clock
<1>2. OneOpenRecord' /\ RecordsExplained'
  BY <1>1 DEF IInv, OneOpenRecord, RecordsExplained, OpenOf
<1>3. ClaimsHeld'
  BY <1>1 DEF IInv, ClaimsHeld, InOperation, OpsOf
<1>4. LockIsObeyed'
  BY <1>1 DEF IInv, LockIsObeyed, ActorOf
<1> QED BY <1>2, <1>3, <1>4 DEF IInv

LEMMA StepHolds == IInv /\ [Next]_vars => IInv'
<1> SUFFICES ASSUME IInv, [Next]_vars PROVE IInv'
  OBVIOUS
<1>1. CASE UNCHANGED vars
  BY <1>1, OthersHold DEF vars, staff, pins, clock, IInv, TypeOK
<1>2. ASSUME NEW r \in Request, NEW c \in Claim, NEW p \in Pin, CheckLock(r, c, p) PROVE IInv'
  BY <1>2, CheckLockHolds
<1>3. ASSUME NEW r \in Request, Accept(r) PROVE IInv'
  BY <1>3, AcceptHolds
<1>4. ASSUME NEW r \in Request, Fail(r) PROVE IInv'
  BY <1>4, FailHolds
<1>5. ASSUME NEW r \in Request, ClaimKey(r) PROVE IInv'
  BY <1>5, ClaimKeyHolds
<1>6. ASSUME NEW r \in Request, Replay(r) PROVE IInv'
  BY <1>6, ReplayHolds
<1>7. ASSUME NEW r \in Request, LookForOpen(r) PROVE IInv'
  BY <1>7, LookForOpenHolds
<1>8. ASSUME NEW r \in Request, ClockIn(r) PROVE IInv'
  BY <1>8, ClockInHolds
<1>9. ASSUME NEW r \in Request, ClockOut(r) PROVE IInv'
  BY <1>9, ClockOutHolds
<1>10. ASSUME NEW r \in Request, RollBack(r) PROVE IInv'
  BY <1>10, RollBackHolds
<1>11. ASSUME NEW a \in Actor, LockExpires(a) PROVE IInv'
  <2>1. UNCHANGED <<owner, active, attempts, clock, call>> /\ locked' \subseteq locked
    BY <1>11 DEF LockExpires, staff
  <2> QED BY <2>1, OthersHold DEF clock, IInv, TypeOK
<1>12. ASSUME NEW u \in User, Disable(u) PROVE IInv'
  <2>1. UNCHANGED <<owner, attempts, locked, clock, call>> /\ active' \subseteq active
    BY <1>12 DEF Disable, pins
  <2> QED BY <2>1, OthersHold DEF clock, IInv, TypeOK
<1>13. ASSUME NEW u \in User, NEW p \in Pin, ProvisionPin(u, p) PROVE IInv'
  <2>1. UNCHANGED <<active, attempts, locked, clock, call>>
    BY <1>13 DEF ProvisionPin, pins
  <2>2. owner' \in [Pin -> User \cup {None}]
    BY <1>13 DEF ProvisionPin, IInv, TypeOK
  <2> QED BY <2>1, <2>2, OthersHold DEF clock, IInv, TypeOK
<1> QED BY <1>1, <1>2, <1>3, <1>4, <1>5, <1>6, <1>7, <1>8, <1>9, <1>10, <1>11, <1>12, <1>13 DEF Next

----------------------------------------------------------------------------

(* The inductive invariant holds in every reachable state. *)
LEMMA InvariantHolds == Spec => []IInv
<1> QED BY InitHolds, StepHolds, PTL DEF Spec

(* Every table and every call under way has its type. *)
THEOREM TimeclockTypes == Spec => []TypeOK
<1>1. IInv => TypeOK
  BY DEF IInv
<1> QED BY InvariantHolds, <1>1, PTL

(* Nobody is clocked in twice in a store: the partial unique index of the open *)
(* records stops the clock-in whose check was overtaken.                       *)
THEOREM OneRecordOpen == Spec => []OneOpenRecord
<1>1. IInv => OneOpenRecord
  BY DEF IInv
<1> QED BY InvariantHolds, <1>1, PTL

(* Every key runs once, every record has the one operation that opened it and *)
(* at most one that closed it, and answers are those operations.              *)
THEOREM RecordsAndOperations == Spec => []RecordsExplained
<1>1. IInv => RecordsExplained
  BY DEF IInv
<1> QED BY InvariantHolds, <1>1, PTL

(* While an actor is locked, no call of theirs that saw a counted failure is *)
(* trying a PIN: a failure that locks waits for the row that the call holds. *)
THEOREM LockObeyed == Spec => []LockIsObeyed
<1>1. IInv => LockIsObeyed
  BY DEF IInv
<1> QED BY InvariantHolds, <1>1, PTL
=============================================================================
