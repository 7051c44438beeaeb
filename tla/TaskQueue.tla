----------------------------- MODULE TaskQueue -----------------------------
(***************************************************************************)
(* The persistent task queue: the rows of the MySQL table task_queue, and  *)
(* the clients (executors, coordinators, the operator command) that drive  *)
(* them through TaskQueueService and MySqlTaskQueueRepository.             *)
(*                                                                         *)
(* A dispatch takes its timestamp FIRST, then reads the row, computes the  *)
(* next item from what it read and writes it back only if status, phase    *)
(* and updated_at are still the ones it read.  A claim is a transaction    *)
(* that locks the best queued row nobody else has locked.  Everything that *)
(* happens between those steps, a crash included, is interleaved freely.   *)
(***************************************************************************)
EXTENDS Integers

CONSTANTS
  Tasks,          \* task ids
  Clients,        \* concurrent callers of TaskQueueService, in any process
  NoClient,
  NoTask,
  Placing,        \* tasks of type "place_single_dirt"
  MaxAttempts,    \* maxAttempts of each task's instruction
  Priority,       \* priority of each task's instruction
  IdOrder,        \* the order of the task ids in ORDER BY task_id
  Claimable,      \* the tasks of the types each client may claim
  Leased,         \* the clients that claim with an owner and a lease
  LeaseMs,        \* lease duration, in ticks of the clock
  DistinctStamps, \* do two dispatches never fall in the same millisecond?
  MaxTime,        \* bound: the last tick of the clock
  MaxClaims       \* bound: a task claimed this often is not released again

ASSUME QueueAssumption ==
  /\ NoClient \notin Clients
  /\ NoTask \notin Tasks
  /\ Placing \subseteq Tasks
  /\ MaxAttempts \in [Tasks -> Nat \ {0}]
  \* validateTaskInstruction: a placement has exactly one attempt
  /\ \A t \in Placing : MaxAttempts[t] = 1
  /\ Priority \in [Tasks -> Nat]
  /\ IdOrder \in [Tasks -> Nat]
  /\ \A s, t \in Tasks : IdOrder[s] = IdOrder[t] => s = t
  /\ Claimable \in [Clients -> SUBSET Tasks]
  /\ Leased \subseteq Clients
  /\ LeaseMs \in Nat \ {0}
  /\ DistinctStamps \in BOOLEAN
  /\ MaxTime \in Nat
  /\ MaxClaims \in Nat

VARIABLES
  now,         \* the clock the processes read, in milliseconds
  row,         \* row[t]: the table, "absent" when there is no such row
  lock,        \* lock[t]: the client whose open transaction locks the row
  pc,          \* pc[c]: where client c is in its dispatch
  req,         \* req[c]: the command being dispatched and its timestamp
  seen,        \* seen[c]: the item client c read
  claims,      \* history: how often each task was claimed
  deliveries   \* history: how often each task's delivery was started

client  == <<pc, req, seen>>
history == <<claims, deliveries>>
vars    == <<now, row, lock, pc, req, seen, claims, deliveries>>

Outcome  == {"completed", "failed", "stopped"}
Terminal == Outcome \cup {"cancelled"}
Status   == {"absent", "queued", "claimed"} \cup Terminal
Phase    == {"not_started", "delivery_started", "verified"}

\* The commands that read a row and write it back.
Update   == Outcome \cup
            {"cancel", "release", "mark_delivery_started", "mark_verified"}
Step     == {"idle", "insert", "find", "replace", "select", "commit"}

Stamp    == Nat
NoLease  == -1

Row == [status    : Status,
        attempts  : Nat,
        phase     : Phase,
        createdAt : Stamp,
        updatedAt : Stamp,
        owner     : Clients \cup {NoClient},
        expiresAt : Stamp \cup {NoLease}]

Request == [op : Update \cup {"enqueue", "claim_next"},
            task : Tasks \cup {NoTask}, at : Stamp]

NoRequest == [op |-> "claim_next", task |-> NoTask, at |-> 0]

AbsentRow == [status |-> "absent", attempts |-> 0, phase |-> "not_started",
              createdAt |-> 0, updatedAt |-> 0,
              owner |-> NoClient, expiresAt |-> NoLease]

----------------------------------------------------------------------------
(* The transitions of the domain: what each command makes of an item.      *)

\* Seeded fault: a task may also be cancelled while it is being executed.
AllowedTransitionAnyCancel(from, to) ==
  \/ from = "queued"  /\ to \in {"claimed", "cancelled"}
  \/ from = "claimed" /\ to \in {"queued", "cancelled"} \cup Outcome

AllowedTransition(from, to) ==
  \/ from = "queued"  /\ to \in {"claimed", "cancelled"}
  \/ from = "claimed" /\ to \in {"queued"} \cup Outcome

ReleasedStatus(t, r) ==
  IF r.attempts >= MaxAttempts[t] THEN "failed" ELSE "queued"

\* Does the domain function of the command accept the item, or throw
\* INVALID_TASK_TRANSITION?
Accepts(op, t, r) ==
  \/ op = "cancel"   /\ AllowedTransition(r.status, "cancelled")
  \/ op = "release"  /\ r.status = "claimed"
  \/ op \in Outcome  /\ AllowedTransition(r.status, op)
  \/ /\ op = "mark_delivery_started"
     /\ r.status = "claimed"
     /\ r.phase = "not_started"
     /\ t \in Placing
     /\ MaxAttempts[t] = 1
  \/ /\ op = "mark_verified"
     /\ r.status = "claimed"
     /\ r.phase = "delivery_started"

UpdatedStatus(op, t, r) ==
  CASE op = "cancel"  -> "cancelled"
    [] op = "release" -> ReleasedStatus(t, r)
    [] op \in Outcome -> op
    [] OTHER          -> r.status

UpdatedPhase(op, r) ==
  CASE op = "mark_delivery_started" -> "delivery_started"
    [] op = "mark_verified"         -> "verified"
    [] OTHER                        -> r.phase

----------------------------------------------------------------------------
(* The statements of the repository.                                       *)

\* Seeded fault: a WHERE clause that compares fewer columns.
UnchangedByState(r, expected) ==
  r.status = expected.status /\ r.phase = expected.phase

\* The WHERE clause of every UPDATE that replaces a row: the row is still
\* the one that was read, as far as these three columns can tell.
Unchanged(r, expected) ==
  /\ r.status = expected.status
  /\ r.phase = expected.phase
  /\ r.updatedAt = expected.updatedAt

\* The SET clause: the columns of the item computed from what was read, and
\* no owner and no lease.
Replaced(r, status, attempts, phase, at) ==
  [r EXCEPT !.status = status, !.attempts = attempts, !.phase = phase,
            !.updatedAt = at, !.owner = NoClient, !.expiresAt = NoLease]

\* ORDER BY priority DESC, created_at ASC, task_id ASC
Before(s, t) ==
  \/ Priority[s] > Priority[t]
  \/ /\ Priority[s] = Priority[t]
     /\ \/ row[s].createdAt < row[t].createdAt
        \/ /\ row[s].createdAt = row[t].createdAt
           /\ IdOrder[s] < IdOrder[t]

\* WHERE status = 'queued' AND task_type IN (...) ... FOR UPDATE SKIP LOCKED
Candidates(c) ==
  {t \in Claimable[c] : row[t].status = "queued" /\ lock[t] = NoClient}

----------------------------------------------------------------------------
Init ==
  /\ now = 0
  /\ row = [t \in Tasks |-> AbsentRow]
  /\ lock = [t \in Tasks |-> NoClient]
  /\ pc = [c \in Clients |-> "idle"]
  /\ req = [c \in Clients |-> NoRequest]
  /\ seen = [c \in Clients |-> AbsentRow]
  /\ claims = [t \in Tasks |-> 0]
  /\ deliveries = [t \in Tasks |-> 0]

\* dispatch() returns or throws: its command and what it read are gone.
Return(c) ==
  /\ pc' = [pc EXCEPT ![c] = "idle"]
  /\ req' = [req EXCEPT ![c] = NoRequest]
  /\ seen' = [seen EXCEPT ![c] = AbsentRow]

\* dispatch(): occurredAt is read before anything else.
Dispatch(c, op, t, step) ==
  /\ pc[c] = "idle"
  /\ DistinctStamps => now < MaxTime
  /\ now' = IF DistinctStamps THEN now + 1 ELSE now
  /\ pc' = [pc EXCEPT ![c] = step]
  /\ req' = [req EXCEPT ![c] = [op |-> op, task |-> t, at |-> now]]
  /\ UNCHANGED <<row, lock, seen, history>>

Enqueue(c, t)    == Dispatch(c, "enqueue", t, "insert")
ClaimNext(c)     == Dispatch(c, "claim_next", NoTask, "select")
Change(c, op, t) == /\ op = "release" => claims[t] < MaxClaims
                    /\ Dispatch(c, op, t, "find")

\* INSERT ... ON DUPLICATE KEY UPDATE task_id: an existing row is kept.
Insert(c) ==
  LET t == req[c].task IN
  /\ pc[c] = "insert"
  /\ row' = IF row[t].status # "absent" THEN row
            ELSE [row EXCEPT ![t] =
                    [AbsentRow EXCEPT !.status = "queued",
                                      !.createdAt = req[c].at,
                                      !.updatedAt = req[c].at]]
  /\ Return(c)
  /\ UNCHANGED <<now, lock, history>>

\* #required and the domain function; an error ends the dispatch.
Find(c) ==
  LET t == req[c].task IN
  /\ pc[c] = "find"
  /\ \/ /\ Accepts(req[c].op, t, row[t])
        /\ seen' = [seen EXCEPT ![c] = row[t]]
        /\ pc' = [pc EXCEPT ![c] = "replace"]
        /\ UNCHANGED req
     \/ /\ ~Accepts(req[c].op, t, row[t])
        /\ Return(c)
  /\ UNCHANGED <<now, row, lock, history>>

\* The UPDATE of replace(): it waits for a row lock, then writes or reports
\* "task queue conflict".
Write(c) ==
  LET t  == req[c].task
      op == req[c].op
      e  == seen[c]
  IN
  /\ pc[c] = "replace"
  /\ lock[t] = NoClient
  /\ \/ /\ Unchanged(row[t], e)
        /\ row' = [row EXCEPT ![t] =
                     Replaced(row[t], UpdatedStatus(op, t, e), e.attempts,
                              UpdatedPhase(op, e), req[c].at)]
        /\ deliveries' = IF op = "mark_delivery_started"
                         THEN [deliveries EXCEPT ![t] = @ + 1]
                         ELSE deliveries
     \/ /\ ~Unchanged(row[t], e)
        /\ UNCHANGED <<row, deliveries>>
  /\ Return(c)
  /\ UNCHANGED <<now, lock, claims>>

\* claimNext(): the SELECT ... FOR UPDATE SKIP LOCKED of the transaction.
Select(c) ==
  /\ pc[c] = "select"
  /\ \/ \E t \in Candidates(c) :
          /\ \A s \in Candidates(c) \ {t} : Before(t, s)
          /\ lock' = [lock EXCEPT ![t] = c]
          /\ seen' = [seen EXCEPT ![c] = row[t]]
          /\ req' = [req EXCEPT ![c].task = t]
          /\ pc' = [pc EXCEPT ![c] = "commit"]
     \/ /\ Candidates(c) = {}
        /\ Return(c)
        /\ UNCHANGED lock
  /\ UNCHANGED <<now, row, history>>

\* claimNext(): claimTask, #replace, the owner and the lease, COMMIT.
Commit(c) ==
  LET t == req[c].task
      e == seen[c]
      r == Replaced(row[t], "claimed", e.attempts + 1, e.phase, req[c].at)
  IN
  /\ pc[c] = "commit"
  /\ Unchanged(row[t], e)
  /\ row' = [row EXCEPT ![t] =
               IF c \in Leased
               THEN [r EXCEPT !.owner = c, !.expiresAt = req[c].at + LeaseMs]
               ELSE r]
  /\ lock' = [lock EXCEPT ![t] = NoClient]
  /\ claims' = [claims EXCEPT ![t] = @ + 1]
  /\ Return(c)
  /\ UNCHANGED <<now, deliveries>>

\* Seeded fault: the failed transaction is not rolled back.
FailWithoutRollback(c) ==
  /\ pc[c] # "idle"
  /\ Return(c)
  /\ UNCHANGED <<now, row, lock, history>>

\* A database error, or the death of the process: the dispatch is over and
\* an open transaction is rolled back.
Fail(c) ==
  /\ pc[c] # "idle"
  /\ lock' = [t \in Tasks |-> IF lock[t] = c THEN NoClient ELSE lock[t]]
  /\ Return(c)
  /\ UNCHANGED <<now, row, history>>

\* recoverExpiredClaims() of a session that starts: only the ownership goes.
RecoverExpiredClaims ==
  \E at \in 0..now :
    LET expired == {t \in Tasks : /\ row[t].status = "claimed"
                                  /\ row[t].expiresAt # NoLease
                                  /\ row[t].expiresAt <= at}
    IN
    /\ expired # {}
    /\ row' = [t \in Tasks |->
                 IF t \in expired
                 THEN [row[t] EXCEPT !.owner = NoClient, !.expiresAt = NoLease]
                 ELSE row[t]]
    /\ UNCHANGED <<now, lock, client, history>>

Tick ==
  /\ now < MaxTime
  /\ now' = now + 1
  /\ UNCHANGED <<row, lock, client, history>>

DatabaseCall(c) == Insert(c) \/ Find(c) \/ Write(c) \/ Select(c) \/ Commit(c)

Next ==
  \/ \E c \in Clients :
       \/ \E t \in Tasks : Enqueue(c, t)
       \/ \E t \in Tasks, op \in Update : Change(c, op, t)
       \/ ClaimNext(c)
       \/ DatabaseCall(c)
       \/ Fail(c)
  \/ RecoverExpiredClaims
  \/ Tick

Spec == Init /\ [][Next]_vars

\* MySQL answers a statement it was sent, and grants a row lock that keeps
\* becoming free.  Nothing makes a client dispatch, fail or recover claims.
FairSpec == Spec /\ \A c \in Clients : SF_vars(DatabaseCall(c))

----------------------------------------------------------------------------
(* Properties                                                              *)

\* The variables have the shapes of the table and of a dispatch.
TypeOK ==
  /\ now \in Stamp
  /\ row \in [Tasks -> Row]
  /\ lock \in [Tasks -> Clients \cup {NoClient}]
  /\ pc \in [Clients -> Step]
  /\ req \in [Clients -> Request]
  /\ seen \in [Clients -> Row]
  /\ claims \in [Tasks -> Nat]
  /\ deliveries \in [Tasks -> Nat]

\* task.release and the migration's attempt columns: a queued task always has
\* an attempt left, and a claimed one is within its limit, although attempts
\* are computed from a row that may have changed since it was read.
AttemptsWithinLimit ==
  \A t \in Tasks :
    /\ row[t].status = "queued" => row[t].attempts < MaxAttempts[t]
    /\ row[t].status = "claimed" => row[t].attempts \in 1..MaxAttempts[t]

\* The reason execution_phase is persisted before the packet is sent: once a
\* delivery has started the task can never be offered to an executor again,
\* nor be reported as cancelled, whatever stale commands are in flight.
NoResend ==
  \A t \in Tasks :
    row[t].phase # "not_started" =>
      t \in Placing /\ row[t].status \in {"claimed"} \cup Outcome

\* task.mark_delivery_started is accepted at most once in the life of a task,
\* and the row remembers it: no later write takes the phase back.
DeliveredOnce ==
  \A t \in Tasks :
    deliveries[t] = IF row[t].phase = "not_started" THEN 0 ELSE 1

\* claim_owner and claim_expires_at belong to a claim in progress: no task that
\* is queued again or finished still carries a lease.
LeaseOnlyWhileClaimed ==
  \A t \in Tasks :
    row[t].owner # NoClient \/ row[t].expiresAt # NoLease =>
      row[t].status = "claimed"

\* attempts is persisted with every claim: a task is claimed no more often
\* than its instruction allows.
ClaimsWithinLimit == \A t \in Tasks : claims[t] <= MaxAttempts[t]

\* A task that is finished or cancelled is final: no command, lock or stale
\* write changes its row again.
TerminalFinal ==
  [][\A t \in Tasks : row[t].status \in Terminal => row'[t] = row[t]]_vars

\* The two persisted columns, whatever the clients do, follow the life of a
\* single task as the domain describes it.
Lifecycle == INSTANCE TaskLifecycle WITH
               status <- [t \in Tasks |-> row[t].status],
               phase  <- [t \in Tasks |-> row[t].phase]

RefinesLifecycle == Lifecycle!Spec

\* No dispatch waits forever for a row lock: a client that died inside its
\* claim gives the lock back, and everyone else is answered.
DispatchEnds == \A c \in Clients : pc[c] # "idle" ~> pc[c] = "idle"
=============================================================================
