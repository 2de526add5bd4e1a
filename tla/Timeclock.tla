----------------------------- MODULE Timeclock -----------------------------
(***************************************************************************)
(* Clocking staff in and out with a PIN at a store's terminals              *)
(* (server/shift/timeclock-service.ts, migrations 0024 to 0027).            *)
(*                                                                         *)
(* A call authenticates the PIN in a transaction of its own, so that a      *)
(* counted failure outlives the refused operation, and then runs the        *)
(* operation in a second one.  Transactions are READ COMMITTED: a step ends *)
(* where a call may wait for a lock or another call may commit.  A PIN has  *)
(* one owner (its HMAC is unique in a store), so a PIN that is found always *)
(* verifies and the credential's own failure counter never moves.           *)
(***************************************************************************)
EXTENDS Integers, Sequences

CONSTANTS
    Request,      \* calls under way at one time
    Actor,        \* signed-in users, whose terminals the calls come from
    User,         \* members of staff with a PIN
    Pin,
    Key,          \* idempotency keys
    MaxAttempts,  \* MAX_ATTEMPTS
    MaxRecords,   \* bound: clock records
    MaxFailures,  \* bound: refused PINs in a row
    None

ASSUME TimeclockAssumption ==
    /\ MaxAttempts \in Nat \ {0}
    /\ MaxRecords \in Nat /\ MaxFailures \in Nat
    /\ None \notin User

VARIABLES
    owner,     \* prodx_timeclock_credentials: whose PIN it is
    active,    \* prodx_users.status
    attempts,  \* prodx_timeclock_auth_attempts.failed_attempts; 0 is no row
    locked,    \* actors whose locked_until is in the future
    records,   \* prodx_timeclock_records
    ops,       \* prodx_timeclock_operations, committed
    answers,   \* answers a caller has seen: the claim, the PIN's user, the record
    call       \* the calls under way

staff == <<owner, active>>
pins == <<attempts, locked>>
clock == <<records, ops, answers>>
vars == <<staff, pins, clock, call>>

Type == {"clock_in", "clock_out"}
Claim == [actor : Actor, type : Type, key : Key]
Operation == [claim : Claim, user : User, rec : 1 .. MaxRecords]
Idle == [at |-> "idle"]

TypeOK ==
    /\ owner \in [Pin -> User \cup {None}]
    /\ active \subseteq User
    /\ attempts \in [Actor -> 0 .. MaxFailures]
    /\ locked \subseteq Actor
    /\ records \in Seq([user : User, open : BOOLEAN]) /\ Len(records) <= MaxRecords
    /\ ops \subseteq Operation
    /\ answers \subseteq Operation
    /\ call \in [Request ->
          {Idle} \cup [at : {"trying"}, claim : Claim, pin : Pin, counted : BOOLEAN]
                 \cup [at : {"known", "claimed", "looked"}, claim : Claim, user : User]]

Init ==
    /\ owner = [p \in Pin |-> None]
    /\ active = User
    /\ attempts = [a \in Actor |-> 0]
    /\ locked = {}
    /\ records = <<>>
    /\ ops = {}
    /\ answers = {}
    /\ call = [r \in Request |-> Idle]

ActorOf(r) == call[r].claim.actor

\* Mutant of RowTaken: the row is read without FOR UPDATE.
RowNeverTaken(a, r) == FALSE

\* Another transaction has locked the row of the actor's attempts, if there was one.
RowTaken(a, r) ==
    \E q \in Request \ {r} : call[q].at = "trying" /\ call[q].counted /\ ActorOf(q) = a

-----------------------------------------------------------------------------
(* Authentication: authenticatePin *)

\* assertActorNotLocked reads the row FOR UPDATE; there is none to lock before
\* the first failure.  A locked actor is refused here, with nothing changed.
CheckLock(r, c, p) ==
    /\ call[r] = Idle
    /\ ~RowTaken(c.actor, r)
    /\ c.actor \notin locked
    /\ call' = [call EXCEPT ![r] = [at |-> "trying", claim |-> c, pin |-> p, counted |-> attempts[c.actor] > 0]]
    /\ UNCHANGED <<staff, pins, clock>>

\* Mutant of Accept: a PIN that nobody has is taken for an active user's.
AcceptUnknown(r) ==
    /\ call[r].at = "trying"
    /\ ~RowTaken(ActorOf(r), r)
    /\ owner[call[r].pin] \notin User \ active
    /\ attempts' = [attempts EXCEPT ![ActorOf(r)] = 0]
    /\ locked' = locked \ {ActorOf(r)}
    /\ call' = [call EXCEPT ![r] = [at |-> "known", claim |-> @.claim, user |-> owner[@.pin]]]
    /\ UNCHANGED <<staff, clock>>

\* resetActorAttempts: the row goes, with its lock.
Accept(r) ==
    /\ call[r].at = "trying"
    /\ ~RowTaken(ActorOf(r), r)
    /\ owner[call[r].pin] \in active
    /\ attempts' = [attempts EXCEPT ![ActorOf(r)] = 0]
    /\ locked' = locked \ {ActorOf(r)}
    /\ call' = [call EXCEPT ![r] = [at |-> "known", claim |-> @.claim, user |-> owner[@.pin]]]
    /\ UNCHANGED <<staff, clock>>

\* recordFailedActorAttempt, committed before the caller gets the error.  The
\* count goes on after a lock has expired: the next failure locks again.
Fail(r) ==
    /\ call[r].at = "trying"
    /\ ~RowTaken(ActorOf(r), r)
    /\ owner[call[r].pin] \notin active
    /\ attempts[ActorOf(r)] < MaxFailures
    /\ attempts' = [attempts EXCEPT ![ActorOf(r)] = @ + 1]
    /\ locked' = IF attempts[ActorOf(r)] + 1 >= MaxAttempts THEN locked \cup {ActorOf(r)} ELSE locked
    /\ call' = [call EXCEPT ![r] = Idle]
    /\ UNCHANGED <<staff, clock>>

\* Fifteen minutes pass.
LockExpires(a) ==
    /\ a \in locked
    /\ locked' = locked \ {a}
    /\ UNCHANGED <<staff, attempts, clock, call>>

-----------------------------------------------------------------------------
(* The operation *)

OpsOf(c) == {o \in ops : o.claim = c}
OpenOf(u) == {i \in DOMAIN records : records[i].user = u /\ records[i].open}

\* INSERT ... ON CONFLICT DO NOTHING waits for a claim that is not yet committed.
ClaimKey(r) ==
    /\ call[r].at = "known"
    /\ \A q \in Request \ {r} :
          call[q].at \in {"claimed", "looked"} => call[q].claim # call[r].claim
    /\ OpsOf(call[r].claim) = {}
    /\ call' = [call EXCEPT ![r].at = "claimed"]
    /\ UNCHANGED <<staff, pins, clock>>

\* Mutant of Replay: the stored payload hash is not compared.
ReplayAnyUser(r) ==
    /\ call[r].at = "known"
    /\ \E o \in OpsOf(call[r].claim) :
          answers' = answers \cup {[o EXCEPT !.user = call[r].user]}
    /\ call' = [call EXCEPT ![r] = Idle]
    /\ UNCHANGED <<staff, pins, records, ops>>

\* A claim that is committed: answered from its record if it was for the same
\* user, else refused.
Replay(r) ==
    /\ call[r].at = "known"
    /\ \E o \in OpsOf(call[r].claim) :
          answers' = IF o.user = call[r].user THEN answers \cup {o} ELSE answers
    /\ call' = [call EXCEPT ![r] = Idle]
    /\ UNCHANGED <<staff, pins, records, ops>>

\* clockIn sees no open record of the user in the last committed state.
LookForOpen(r) ==
    /\ call[r].at = "claimed" /\ call[r].claim.type = "clock_in"
    /\ OpenOf(call[r].user) = {}
    /\ call' = [call EXCEPT ![r].at = "looked"]
    /\ UNCHANGED <<staff, pins, clock>>

\* Commits the record, the operation's result and the audit event.  The caller
\* may not see the answer.
CommitAs(r, i) ==
    LET o == [claim |-> call[r].claim, user |-> call[r].user, rec |-> i] IN
    /\ ops' = ops \cup {o}
    /\ answers' \in {answers, answers \cup {o}}
    /\ call' = [call EXCEPT ![r] = Idle]
    /\ UNCHANGED <<staff, pins>>

\* Mutant of ClockIn: no unique index prodx_timeclock_one_open_user.
ClockInUnindexed(r) ==
    /\ call[r].at = "looked"
    /\ Len(records) < MaxRecords
    /\ records' = Append(records, [user |-> call[r].user, open |-> TRUE])
    /\ CommitAs(r, Len(records) + 1)

\* The INSERT waits for another insert of the user's and fails on the index.
ClockIn(r) ==
    /\ call[r].at = "looked"
    /\ Len(records) < MaxRecords
    /\ OpenOf(call[r].user) = {}
    /\ records' = Append(records, [user |-> call[r].user, open |-> TRUE])
    /\ CommitAs(r, Len(records) + 1)

\* The open record is locked from its SELECT ... FOR UPDATE to the commit.
ClockOut(r) ==
    /\ call[r].at = "claimed" /\ call[r].claim.type = "clock_out"
    /\ \E i \in OpenOf(call[r].user) :
          /\ records' = [records EXCEPT ![i].open = FALSE]
          /\ CommitAs(r, i)

\* Refused (clocked in already, or not clocked in), failed on the index, aborted
\* in a deadlock, or disconnected: the transaction leaves nothing.
RollBack(r) ==
    /\ call[r] # Idle
    /\ call' = [call EXCEPT ![r] = Idle]
    /\ UNCHANGED <<staff, pins, clock>>

-----------------------------------------------------------------------------
(* Administration *)

\* provisionPin looks the target up, hashes the PIN and writes it later: the
\* target may have been disabled since.  A PIN of another user fails on the index.
ProvisionPin(u, p) ==
    /\ owner[p] = None
    /\ owner' = [q \in Pin |-> IF q = p THEN u ELSE IF owner[q] = u THEN None ELSE owner[q]]
    /\ UNCHANGED <<active, pins, clock, call>>

\* Users are disabled elsewhere, also while their calls are under way.
Disable(u) ==
    /\ u \in active
    /\ active' = active \ {u}
    /\ UNCHANGED <<owner, pins, clock, call>>

Next ==
    \/ \E r \in Request :
          \/ \E c \in Claim, p \in Pin : CheckLock(r, c, p)
          \/ Accept(r) \/ Fail(r)
          \/ ClaimKey(r) \/ Replay(r)
          \/ LookForOpen(r) \/ ClockIn(r) \/ ClockOut(r)
          \/ RollBack(r)
    \/ \E a \in Actor : LockExpires(a)
    \/ \E u \in User : Disable(u) \/ \E p \in Pin : ProvisionPin(u, p)

Spec == Init /\ [][Next]_vars

-----------------------------------------------------------------------------
(* Properties *)

\* Nobody is clocked in twice in a store, whatever calls race and whichever keys
\* they carry.
OneOpenRecord == \A u \in User : \A i, j \in OpenOf(u) : i = j

\* Every record was opened by one operation and is closed by one or open; every
\* key has run once, and what a caller was told under it is that operation's
\* record, for the user whose PIN the caller gave.
RecordsExplained ==
    /\ \A o, p \in ops : o.claim = p.claim => o = p
    /\ \A o, p \in ops : o.rec = p.rec /\ o.claim.type = p.claim.type => o = p
    /\ \A o \in ops : o.rec \in DOMAIN records /\ o.user = records[o.rec].user
    /\ \A i \in DOMAIN records :
          /\ \E o \in ops : o.rec = i /\ o.claim.type = "clock_in"
          /\ records[i].open <=> ~\E o \in ops : o.rec = i /\ o.claim.type = "clock_out"
    /\ answers \subseteq ops

\* Once an actor is locked no further PIN of theirs is tried, except by calls
\* that began before the actor's first failure.  A lock is the one committed with
\* the count: a failure whose count never commits would go unnoticed here.
LockIsObeyed ==
    \A r \in Request : call[r].at = "trying" /\ call[r].counted => ActorOf(r) \notin locked
=============================================================================
