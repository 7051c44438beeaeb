-------------------------- MODULE StatePersistence --------------------------
(***************************************************************************)
(* How the changes of a state store reach MySQL.  Every run of the runtime *)
(* has a subscriber that persists the events it accepted one after the     *)
(* other, each in a transaction that writes the history, the snapshot, the *)
(* checkpoint of the task and the notification to deliver.  The tables are *)
(* shared by all runs and survive them.  Outbox has the delivery.          *)
(***************************************************************************)
EXTENDS Integers, Sequences

CONSTANTS
  Runs,             \* run ids; randomUUID gives every process a new one
  Kind,             \* of the change that makes a revision, see KindAssumption
  PersistAttempts,  \* maxAttempts of the subscriber
  MaxRevision,      \* bound: changes of the state stores of all runs
  MaxStamp,         \* bound: different times of changes
  MaxFailures,      \* bound: calls that fail or whose answer is lost
  MaxEnds           \* bound: runs that are told to stop, or die

\* announced: mapStateChangeToNotification finds a template;
\* working: the snapshot after the change has a task that is not idle.
ASSUME KindAssumption ==
  Kind \in [1..MaxRevision -> [announced : BOOLEAN, working : BOOLEAN]]

ASSUME PersistenceAssumption ==
  /\ PersistAttempts \in Nat \ {0}
  /\ MaxRevision \in Nat /\ MaxStamp \in Nat
  /\ MaxFailures \in Nat /\ MaxEnds \in Nat

VARIABLES
  life,        \* of the session of each run: "live" (one that starts later does
               \* nothing until then), "stopping" (its dispatcher is being
               \* awaited), "flushing", "closing" (the subscriber is closed),
               \* "gone" (the pool is closed, or the process died)
  revision,    \* of the run's state store
  changes,     \* of all state stores, for the bound
  stamp,       \* the last occurredAt; the clock is not set back
  queue,       \* events accepted and not yet persisted: #tail
  tries,       \* attempts at the first of them
  history,     \* state_history of each run, a set of events
  snapshot,    \* state_snapshots, the row of each run
  checkpoint,  \* task_checkpoints, the row of each run's task
  outbox,      \* notification_outbox, a row for each run and revision
  failures, ends

subscriberVars == <<revision, changes, stamp, queue, tries>>
tables == <<history, snapshot, checkpoint, outbox>>
persistenceVars == <<life, subscriberVars, tables, failures, ends>>

Messages == Runs \X (1..MaxRevision)

NoRow == [revision |-> 0, content |-> 0]

NoMessage ==
  [status |-> "none", attempts |-> 0, due |-> 0, owner |-> "none", stamp |-> 0]

Running(r) == life[r] # "gone"

\* StatePersistenceSubscriber.close() was called.
Closed(r) == life[r] = "closing"

PersistenceInit ==
  /\ life = [r \in Runs |-> "live"]
  /\ revision = [r \in Runs |-> 0]
  /\ changes = 0
  /\ stamp = 0
  /\ queue = [r \in Runs |-> <<>>]
  /\ tries = [r \in Runs |-> 0]
  /\ history = [r \in Runs |-> {}]
  /\ snapshot = [r \in Runs |-> NoRow]
  /\ checkpoint = [r \in Runs |-> NoRow]
  /\ outbox = [m \in Messages |-> NoMessage]
  /\ failures = 0
  /\ ends = 0

----------------------------------------------------------------------------
(* The transaction                                                         *)

\* ON DUPLICATE KEY UPDATE: only a higher revision replaces the row.
Overwritten(row, new) ==
  IF new > row.revision THEN [revision |-> new, content |-> new] ELSE row

NewMessage(event) ==
  [status |-> "pending", attempts |-> 0, due |-> 0, owner |-> "none",
   stamp |-> event.stamp]

\* ON DUPLICATE KEY UPDATE changes nothing in a row that is there.
Inserted(row, event) ==
  IF event.announced /\ row.status = "none" THEN NewMessage(event) ELSE row

Commits(r, event) ==
  /\ history' = [history EXCEPT ![r] = @ \union {event}]
  /\ snapshot' = [snapshot EXCEPT ![r] = Overwritten(@, event.revision)]
  /\ checkpoint' = [checkpoint EXCEPT ![r] =
       IF event.working THEN Overwritten(@, event.revision) ELSE @]
  /\ outbox' = [outbox EXCEPT ![<<r, event.revision>>] = Inserted(@, event)]

----------------------------------------------------------------------------
(* The subscriber                                                          *)

\* A change of the state store while the subscriber listens; several changes
\* may have the same time.
Accept(r) ==
  /\ life[r] \in {"live", "stopping", "flushing"}
  /\ changes < MaxRevision /\ changes' = changes + 1
  /\ stamp' \in {stamp, stamp + 1} \intersect IF changes = 0 THEN {0} ELSE 0..MaxStamp
  /\ revision' = [revision EXCEPT ![r] = @ + 1]
  /\ queue' = [queue EXCEPT ![r] = Append(@,
       [revision |-> revision[r] + 1, stamp |-> stamp',
        announced |-> Kind[revision[r] + 1].announced,
        working |-> Kind[revision[r] + 1].working])]
  /\ UNCHANGED <<life, tries, tables, failures, ends>>

Leaves(r) ==
  /\ queue' = [queue EXCEPT ![r] = Tail(@)]
  /\ tries' = [tries EXCEPT ![r] = 0]

\* After a failed attempt: what cannot or may not be repeated is given up.
Repeats(r, retryable) ==
  IF ~retryable \/ tries[r] + 1 >= PersistAttempts \/ Closed(r)
  THEN Leaves(r)
  ELSE tries' = [tries EXCEPT ![r] = @ + 1] /\ UNCHANGED queue

\* One call of the repository's persist, after a wait unless it is the first.
\* The error of a call may come after the commit, and whether it is transient
\* depends on its code.
Persist(r) ==
  /\ Running(r) /\ queue[r] # <<>>
  /\ tries[r] = 0 \/ ~Closed(r)
  /\ \/ Commits(r, Head(queue[r])) /\ Leaves(r) /\ UNCHANGED failures
     \/ /\ failures < MaxFailures /\ failures' = failures + 1
        /\ Commits(r, Head(queue[r])) \/ UNCHANGED tables
        /\ \E retryable \in BOOLEAN : Repeats(r, retryable)
  /\ UNCHANGED <<life, revision, changes, stamp, ends>>

\* The subscriber was closed during the wait: the event is dropped in silence.
GiveUp(r) ==
  /\ Running(r) /\ queue[r] # <<>>
  /\ tries[r] > 0 /\ Closed(r)
  /\ Leaves(r)
  /\ UNCHANGED <<life, revision, changes, stamp, tables, failures, ends>>

----------------------------------------------------------------------------
(* The session                                                             *)

Becomes(r, next) == life' = [life EXCEPT ![r] = next]

RequestClose(r) ==
  /\ life[r] = "live" /\ ends < MaxEnds
  /\ ends' = ends + 1
  /\ Becomes(r, "stopping")

\* The flush ends with the tail or after a second, whatever is first.
CloseSubscriber(r) == life[r] = "flushing" /\ Becomes(r, "closing") /\ UNCHANGED ends

\* The events still queued are given up: their persist finds the pool closed.
ClosePool(r) == life[r] = "closing" /\ Becomes(r, "gone") /\ UNCHANGED ends

Crash(r) ==
  /\ Running(r) /\ ends < MaxEnds
  /\ ends' = ends + 1
  /\ Becomes(r, "gone")

\* What a gone process held in memory does not matter any more.
Forgets(r) ==
  /\ queue' = [queue EXCEPT ![r] = <<>>]
  /\ tries' = [tries EXCEPT ![r] = 0]
  /\ UNCHANGED <<revision, changes, stamp>>

=============================================================================
