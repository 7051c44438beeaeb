# VoxelSteward: models, checks and proofs

VoxelSteward is an unattended Minecraft Bedrock BOT. It operates in two windows
on weekdays, connects read-only, leaves at once when another player appears,
and works on tasks from a MySQL queue while a safety policy allows it. This
directory holds TLA+ modules of its coordination logic, the TLC configurations
that model-check them, and TLAPS proofs about them. Paths below are relative to
the repository; `PROJECT.json` maps every definition to the lines it models.

## 1. The system

### Components and how they interact

```
 ScheduledRuntimeController --createSession/run/requestStop/close--> session
   (WeekdayScheduler decides)                                          |
                                                                       |
   session = InstanceLock + StateStore + RuntimeSupervisor             |
             + ReadonlyTaskExecutor + persistence + notifications  <---+

 RuntimeSupervisor --commands--> StateStore --events (microtasks)--> executor,
   ^ events                        ^                       notifications,
   | BedrockReadonlyConnection     | task.* commands       persistence
                                   |
 ReadonlyTaskExecutor --> SafetyControlledTaskQueue --> TaskQueueService
   (reads the snapshot)     (WorkSafetyPolicy)            --> MySQL task_queue
                                                       <-- operator commands
```

| Component | State it keeps | Operations | What makes it correct |
|---|---|---|---|
| Task queue (`task-queue.ts`, service, MySQL repository) | one row per task: status, attempts, execution phase, lease, `updated_at` | enqueue, claim, cancel, release, finish, delivery and verification marks, recovery of leases | a task follows its life cycle although commands of several processes interleave; delivery starts once; attempts are bounded; no lock outlives its client |
| State store (`domain/state`) | one snapshot with a revision, subscriptions | fourteen commands, subscribe, unsubscribe | fields that several commands write agree; denials last; every subscriber sees every revision once, in order |
| Work safety policy | none | decide | used by everything that may start or continue work |
| Read-only executor and safety controlled queue | loop, active task, ids being stopped | poll, claim, work, finish, stop, close | nothing claimed is forgotten, nothing runs after close, the queue is emptied |
| Runtime supervisor | attempt, retries, stop reason, player map | connection events, timeouts, requestStop | one connection, closed by every way out; never stays with strangers; the snapshot tells why it ended |
| Scheduler and its controller | open window, last evaluation, active session, closed flag | evaluateOnce, requestStop, finalizers | one session at a time, one per window, none left behind |
| Instance lock | lock file, heartbeat | acquire, heartbeat, release | one process per account; a crash does not lock the account for ever |
| State persistence | queue of accepted events; history, snapshot, checkpoint and outbox tables | accept, persist with retries, close | what one change stores belongs together, whatever was retried or lost |
| Notification outbox | a row per announced change: status, attempts, due time, lease owner | claim, send, mark delivered or failed | notifications of a run in order, each by one worker at a time, none left behind when a run dies |
| Discord port | wait and time left of the send under way, `#nextAllowedAt` | send, close | a send ends in its time, waits as it is asked to, and succeeds only when the server has the message |
| Direct notifications without MySQL (mapper, subscriber) | chain of sends | accept, close | a reader of the channel learns of each end of a run once, with its reason, and is left with no wrong impression |
| Block operation | one active execution, its abort and port-stopped flags | execute, cancel, close, notifications of the store | a block is sent once, after the queue knows; completed means it is there; nothing is sent after a stop |
| Movement, its port and the frame ownership | plan and steps done; lease of the input stream, last tick | execute, cancel, step, observe; acquire, commit, release | every tick is sent once and in order by two owners; nothing after a stop |
| World observation, port and store | connection phase, dimension, held item, registry, block cache, listeners | packets, getters, subscribe, close | only what was said last of where the BOT is is given out; a connection is usable in one stretch; its end is told |
| Migrations | versions recorded in the database, the lock of the server | migrate, rollbackAll | a call leaves the schema it promises, whoever else calls |
| Operator commands, configuration, logging | - | - | see section 7 |

### What is hard about it

Everything runs in one JavaScript process per account, but nearly every step
awaits something, so handlers of events, timers, signals and database answers
interleave at each `await`; the database is shared by several processes; the
processes crash and are started again by hand; the clock may be set. The
hazards are listed with their lines in `PROJECT.json`. They fall in six groups:
state read before an `await` and used after it (queue service, executor), two
owners of one thing (lock file, active session, task being stopped), ends that
race each other (attempt of the supervisor, close() of the executor), lost
answers and crashes between two statements, what is told of the outside after it
has changed (packets, announcements, waits), and promises that must eventually
resolve (run(), close()).

## 2. Plan

Order: what can damage the world or the queue first, then what keeps the
process alive, then what reports.

| Stage | Modules | Abstract specification | Runs | Theorems | State |
|---|---|---|---|---|---|
| 1 | `TaskLifecycle`, `TaskQueue` | `TaskLifecycle` | `queue` | invariants and refinement, atomic updates, no deadlock of locks | done |
| 2 | `StateCommands`, `WorkSafetyPolicy`, `StateStore` | - | `store` | all invariants | done |
| 3 | `ReadonlyExecutor` (composes store, policy and queue rows) | `TaskLifecycle` for its rows | `executor` | ExecutedOnce, NothingLeftBehind, ResultsAgree, ClosedIsQuiet, the life cycle, what ends | done |
| 4 | `RuntimeSupervisor` (composes the store) | - | `announcements` | all invariants, what ends | done |
| 5 | `WeekdayScheduler`, `ScheduledRuntime` | - | `schedule` | OneSession, WindowsServedOnce, RunsInItsWindow, NothingStartsAfterStop, what ends | done |
| 6 | `InstanceLock` | - | `lock`, `lock_race` | OneVisibleHolder | done |
| 7 | `StatePersistence` (subscriber, transaction, end of a session), `Outbox` (delivery; extends it) | order and exclusion stated as properties | `outbox` | all invariants, SettledIsFinal, the life of a row | done |
| 8 | `WorkContext`, `BlockOperation`, `Movement` with frame ownership, and `WorldWork`, which composes them with the executor over one store | one worker at a time, stated as a property; `TaskLifecycle` for the rows | `world_work` | all its safety properties but NeverStuck, the life cycle, what ends | done |
| 9 | `WorldObservation` | what the server has told last, as a variable of its own | `observation` | all safety properties | done |
| 10 | `DiscordPort` | - | `discord` | all its properties | done |
| 11 | `Announcements` (extends the supervisor) | what the channel should say (`Situation`) | `announcements` | EndAnnouncedOnce, ReaderKnows, the supervisor's specification | done |
| 12 | `Migrations` | - | `migrations` | CallsSucceedUnlessTorn | done |
| 13 | rest of the session's creation, smoke session | - | - | - | left out, see section 7 |

## 3. Modules and code

Definitions carry the names of the source where TLA+ allows it. A definition
whose comment begins with "Seeded fault" is not part of a specification: it is a
plausible bug, put in the place of the definition after it to see that the
property named in `PROJECT.json` fails. `DispatchObserved` stands in for `Dispatch` in
the same way: a disconnect that is no event because it changes nothing.

**TaskLifecycle** is the life of one task as `domain/task-queue/task-queue.ts`
describes it: status and execution phase, each step one command. **TaskQueue**
is the table and its clients. A dispatch of `TaskQueueService` is three or more
steps: take the timestamp, read the row (`Find`), write the item computed from
the copy with the comparing UPDATE (`Write`, `Unchanged`); a claim is a
transaction with `FOR UPDATE SKIP LOCKED` (`Select`, `Commit`). Each SQL
statement is atomic. A client may fail or die at every step (`Fail`), and an
open transaction is then rolled back. `RecoverExpiredClaims` clears lease
columns and leaves the status, as the code does. `TaskQueue` implements
`TaskLifecycle` (`RefinesLifecycle`), the refinement mapping being the status and
phase columns.

**StateCommands** holds the snapshot and the fourteen commands as operators:
`Accepts` (dispatch does not throw), `After` (the new snapshot), `Changes` (an
event is emitted). Time stamps become booleans (set or not), telemetry is
position, health and hunger, a missing value is `NoValue`. **WorkSafetyPolicy**
is the decision and whether it lasts. **StateStore** adds revisions,
subscriptions and the microtasks of `#notify`; the listeners are chosen when
the event is made and called later, each call a step, so that a listener may
dispatch, subscribe or unsubscribe between two calls.

**ReadonlyExecutor** is the loop of `readonly-task-executor.ts` over
`safety-controlled-task-queue.ts`, `close()`, and their environment: the runtime
that dispatches commands, the operator who enqueues and cancels, a database
that answers, refuses or loses requests, and a crash. `pc` names the `await`
the loop is at. A request to the queue is one atomic change of a row, which
`TaskQueue` justifies, and its answer is a later step. The work itself awaits
nothing, so it is one step.

**RuntimeSupervisor** is `supervisor.ts`. A callback and the continuations of
the promises it settles are one step, since the engine runs microtasks before
the next callback. `Connect` starts an attempt, the events of the connection,
`ConnectTimeout` and `RequestStop` end it, `End` is the code after the loop.
Every dispatch goes through `Tried`: a rejected command is logged and changes
nothing, as in `#dispatchState`.

**WeekdayScheduler** has the windows, in minutes and Japanese time.
**ScheduledRuntime** is the controller: `Poll(t)` is one evaluation at the clock
reading t, and a step ends where the code awaits (creation, stop, final clean-up,
delay). **InstanceLock** makes each call of `node:fs/promises` a step. An open
file keeps receiving what is written to it when its name is gone, a write is
open-and-truncate followed by the content, and a file without content is no
record.

**StatePersistence** is the way of a change into MySQL. `Accept` appends it to
the subscriber's promise chain, `Persist` is one attempt at the first event:
its transaction (`Commits`) writes history, snapshot, checkpoint and outbox row
together, and the call may fail before the commit or after it. The error's code
decides whether the attempt is repeated (`Repeats`); an event whose attempts are
used up is dropped, and `GiveUp` is the wait that ends after `close()`, which
drops it without a report. What a change is, `Kind` says: whether the mapper
announces it and whether it concerns a task. The session's `close()` is the
sequence of `life`: the dispatcher is awaited, the queue flushed for at most a
second, the subscriber closed, the pool closed. **Outbox** adds the dispatchers,
one per run, on the shared table: `Claim` is the transaction under the advisory
lock, `Send` the port, `MarkDelivered` and `MarkFailed` the comparing UPDATEs. A
run that starts later is a live run that did nothing so far, and one that ended
stays gone, since every process has a new run id, which is also the worker id.
Times in the rows are relative to the present, and `Tick` brings them nearer, so
that the model has no clock to bound.

**WorkContext** is what the coordinators of world-changing work share: the
snapshot with its one task, the rows, a request to the queue as one step with its
answer (nobody else writes the row of a claimed task, and `TaskQueue` justifies
the atomic change), and the two halves of `#finalize`. **BlockOperation** is
`execute` of `block-operation-coordinator.ts`, one action per `await`: a call of
the port is made (`GoOn`), settles (`PortSettles`, or the abort settles it) and
is resumed (`TargetObserved`, `Place`, ...); what comes in between (`CancelBlock`,
`CloseBlock`, `StoreNotified`) finds it settled. `world` and `placed` are the
server: a placement that was asked for may take effect at any later time.
**Movement** is `movement-coordinator.ts` with the port and the frame ownership it
drives. A step is allowed by the policy (`StepAllowed`) and sent a microtask later
(`Step`), where only the signal is looked at again: a denial in between comes too
late for that frame, in the code as in the model. From the claim of a frame to its
queueing nothing is awaited, while a placement may hold a frame it claimed
(`PlacementAcquires`, `PlacementCommits`). Positions are places on a line, one
step apart. **WorldWork** puts both, and the read-only executor as far as it owns
the store's task, into one process: `Next` gives each component its actions and
leaves the others' variables alone, except that every change of the store notifies
an execution that subscribed (`BesidesBlock`).

**WorldObservation** is `bedrock-world-observation-port.ts` and the store behind
it: a packet is one step, from its listener through the store (an old sequence is
dropped, a command the state does not allow throws and is caught) to the microtasks of
the listeners. A connection, a spawn, a change of dimension and a disconnect are always
an event (`Dispatch`); the held item, the registry and a block are compared with what is
known and only count when it is the same (`DispatchObserved`). The cache is a set of
entries with the revision they were written in, which is their order. `told` is
not in the code: it is what the server has said since the BOT came to where it is,
and what the getters return is compared with it. Nor is `endedAt`, the revision at which
the client closed: who listens has to hear of a later one.

**DiscordPort** is `send` await by await: the wait before the first attempt, an
attempt, the reading of a 429's body, a wait between attempts. `ServerTakes` is the
server, which may take a request whose answer never comes. Times are relative to
the present, and `Tick` lets a quarter of a second pass; a timer may be late by
`Lag`. The total time is looked at where the code looks at it, so a send may end
late by that lag and by no more. **Announcements** extends `RuntimeSupervisor`:
each of its steps makes a series of changes (`ConnectedBy`, `ContinuedBy`, ...: the
snapshots between the two that the supervisor's action relates), `Template` maps
each pair to its announcement by the first rule that fits, as the mapper does, and
`Observed` appends them to the subscriber's chain. `Sent` and `SendFails` are
what `DiscordPort` makes of the first one. `CloseSubscriber` and `CloseBinding` are
the two steps of the clean-up that concern it.

**Migrations** is `migrate` and `rollbackAll`, one query a step. A version is known
by the number of its statements and by how many of its objects exist; 002 to 005
can not be repeated, an altered table must exist and takes its alterations with it
when it is dropped. `Cut` loses the connection of a caller at any query, which is
executed or not, and the server then gives back the lock.

## 4. Runs, bounds and what they show

| Run | Instance | Shows |
|---|---|---|
| `queue` | 2 clients, one retryable task with 2 attempts, clock 0..6, 2 claims before the last release, lease of one tick | Refinement of the life cycle under stale reads and crashes. With distinct stamps a task is claimed at most `maxAttempts` times, over releases and expired leases; no dispatch waits for a row lock for ever. |
| `store` | every command, readings on both sides of each limit of the policy, 2 subscribers, 4 changes | Fields that several commands write agree, and each subscriber sees every change once, in order, whatever is done between two calls of one microtask. Longer histories are left to the proofs. |
| `executor` | 2 tasks, 1 failing or lost request, 1 crash, safety conditions that come and go | No task is worked on twice, none is left claimed or unfinished by an executor at rest, a completion is stored before it is reported, queue and store keep the same result unless close() or a failure comes between, close() returns and ends everything, the queue is emptied. |
| `schedule` | ten instants at the boundaries of Friday, Saturday and Monday, read in any order | One session at a time, one per window, none left behind, no start after a signal. |
| `lock` | 2 processes, crashes everywhere, clock 0..5, stale after 2 | While no two operations on the file overlap there is one holder, visible to others, and release() frees the account; leftovers of the dead never lock the account for good. |
| `outbox` | 2 runs, of which one may stop or die; 2 announced changes of equal or different time, 1 failed or lost call, 2 attempts to store and to deliver; lease 3, lock wait, send and retry delay 1 tick | A notification is sent after its predecessors are settled and by one worker at a time; all rows are settled in the end. |
| `world_work` | 1 placement, 1 journey of two steps on a line of three places, read-only work; ticks 0..2; readings below and above the limit; 1 failed or lost request or crash | One worker owns the store's task at a time; a block is asked for once, with the record before it, and completed only when it is there; frames are sent in order, by either owner; nothing is sent after a stop; an execution can always go on by itself. |
| `observation` | 2 dimensions, 3 spots, 2 kinds of blocks, 2 items, 1 network id, a cache of 2, 6 packets, 1 listener | The getters return what the server said last of this place and connection, or nothing; a connection goes through its stages once; its end is told to who listens. |
| `discord` | production times in quarters of a second (15 s in total, 5 s and 3 attempts), delays of 0, 0.5, 11.25, 15 and 15.25 s, callbacks up to 0.5 s late, 2 messages | A send ends in its time, succeeds only when the server has the message, and makes no request in a time in which it was asked for none. |
| `announcements` | self and 2 strangers, 2 retries, 2 kinds of partial telemetry, every step of the supervisor, sends that succeed, fail or are lost, a session that closes | The result of run() agrees with the snapshot it leaves, whatever ended it; a spawned BOT stays with no stranger; run() ends after a stop; an attempt without a spawn ends. A run's end is announced once and with its reason; the last message in the channel, unless it was lost, says where the BOT is. |
| `migrations` | 2 callers, 5 production scripts, 2 lost connections | A call leaves the schema it promises or, only after somebody was cut off between a statement and its row, fails. |
| `lock_race` | 2 processes | Counterexample, see section 6. |

Bounds: `MaxTime`, `MaxClaims`, `MaxRevision`, `MaxFailures`, `MaxCrashes`,
`MaxFaults`, `MaxTick`, `MaxSessions`, `MaxFiles`, `MaxPackets`, `MaxSends` and `MaxCuts` are constants and appear in guards. `MaxSessions`
is never reached (there are four windows among the instants). `MaxTime` 6 leaves
room for two claims, their expiry and the commands in between, each with a stamp
of its own, as far as the third claim that a stale release would allow. A placement,
and commands that share a millisecond, which is the hardest case for the comparison
on `updated_at`, are not in this instance: the proofs of section 5 cover both, and
`world_work` has the phases of a placement. One failure and one crash suffice for the executor because each
leaves it in a state from which it starts afresh, and the second task is still
there to show that it goes on. For the lock, two ticks stand for the thirty
seconds after which a lock is stale and one for the heartbeat, so an owner may
crash, go stale, be replaced, and the successor grow stale too; five ticks and
six files allow all of it. In `outbox` the two changes may be of one run (order
within a run) or of two (order between runs); two attempts, one lost call and one
death reach the retry, the take-over of a lease and the row that is given up.
`FirstChangeIsA` is the symmetry of the two runs, written as a constraint. All
changes of this instance are announced: that one which is not leaves no row is
left to the proofs, which hold for every `Kind`. In `world_work` a placement and a
journey are the two kinds of task that meet; a second of either kind would follow
after a reset and find the same store. Three ticks are a frame of each step and
one of a placement between them, and one fault is the failed or lost request, or
the crash, that each property is about. Six packets reach from a connection over a
spawn, the registry and two blocks to a change of place and a packet that comes
late; a cache of two overflows with the third block (production has 128, and the
proof holds for any size). The delays of `discord` lie on both sides of each
boundary: none, less than an attempt, longer than what is left, the whole time and
more than it; the second message meets the wait that the first one left behind. Two
retries give the first connection, one in between and the one that exhausts them.
Two cuts are one in `migrate` and one in `rollbackAll`, or two in the same.

`CHECK_DEADLOCK FALSE` is set where the system may stop: bounds are reached, a
process has ended, or a session is done.

### Fairness

- `queue`: MySQL answers what it was sent and grants a row lock that keeps
  becoming free (strong fairness of the database calls of each client). Nothing
  makes a client dispatch.
- `executor`: the engine resumes a continuation whose promise is settled, the
  one-second timer fires, the driver answers or fails a request. Not assumed:
  that the runtime becomes ready, that anybody enqueues, that close() is called.
- `announcements`: the supervisor's loop continues and timers fire (`Fairness` of
  `RuntimeSupervisor`). Nothing is assumed of the server, nor of the channel: a
  message that never arrives holds up nothing.
- `schedule`: `createSession` and `close()` settle, and a session that was told to
  stop ends. The latter is what `StopEnds` of `RuntimeSupervisor` shows, the
  former what `CloseEnds` of `ReadonlyExecutor` shows for its part. A session
  that was not told to stop may run for ever. Polls are not fair: the controller
  waits for the clock, and the part `OverdueSessionsClose` of `SessionsEnd` only speaks of sessions an
  evaluation has found overdue.
- `outbox`: the loop of a dispatcher whose run is not gone goes on, as the engine,
  the port (15 s at most) and the driver answer, and time passes. Nothing is
  assumed of the subscribers and the sessions: what is not stored need not be
  delivered. `MaxEnds` keeps one run alive and `MaxFailures` ends the failures;
  without either nothing would have to be delivered.
- `lock`: a process that runs gets the answers of its file operations.
- `observation`: microtasks run. Nothing is assumed of the server or the listeners.
- `discord`, `migrations`: none, all their properties are about
  safety. `EndsInTime` bounds how long a send lasts by what time can pass.
- `world_work`: none. That an execution ends is stated without fairness, as an
  invariant: wherever it waits, a step of its own, an abort or its timer can
  settle the wait (`NeverStuck`). Under weak fairness of those steps every
  execution ends, since none leads back (`PlacementsAdvance`, `JourneysAdvance`).

## 5. What is proved

`tlapm` checks eight modules of proofs, for every value of the constants that
satisfies the named assumptions.

| Module | Assumptions | Theorems |
|---|---|---|
| `TaskQueueProofs` | `QueueAssumption` (placements have one attempt, as `validateTaskInstruction` demands) | TypeCorrect, AttemptsBounded, NeverResent, AtMostOneDelivery, LeasesAreClaims, TerminalRowsAreFinal, ImplementsLifecycle, ClaimsCounted, LocksAreGivenBack, NoLockDeadlock, DispatchesAreShort, UpdatesAreAtomic |
| the same, on `Migrations` | `MigrationsAssumption` | MigrationsTypeCorrect, CallsSucceed |
| `ReadonlyExecutorProofs`, with the lemmas of `StateCommandsProofs` | `ExecutorAssumption` (nobody else dispatches task commands), `NoValueAssumption` | ExecutorTypeCorrect, WorkedOnAtMostOnce, RestIsClean, SameResults, QuietOnceClosed, KeepsLifecycle, RoundsAdvance, ClosesAdvance |
| `StateStoreProofs`, with the lemmas of `StateCommandsProofs` | `StoreAssumption` (nobody dispatches a direct transition to `spawned`), `NoValueAssumption` | TypeCorrect, FieldsAlwaysAgree (from four theorems about its parts), DenialsAreFinal, EveryChangeSeenOnce, SilenceIsKept |
| `RuntimeSupervisorProofs`, with the same lemmas | `SupervisorAssumption`, `NoValueAssumption` | TypeCorrect, OnlyOneConnection, BoundedAttempts, ResultAlwaysMatches, AlwaysAlone, NothingOutlivesItsAttempt, FirstReasonStays, RunsAdvance, StopsAdvance |
| the same, on `Announcements` | also `AnnouncementsAssumption` (the names of the rules are not the missing value) | EndIsAnnouncedOnce, ReaderAlwaysKnows, AnnouncedRunsAreRuns |
| the same, on `ScheduledRuntime` | `ControllerAssumption`, `NoWindowAssumption` | SessionsAreExclusive, WindowsAreServedOnce, SessionsKeepToWindows, NothingStartsAfterSignal, SignalsEndRun |
| the same, on `InstanceLock` | `LockAssumption` | HolderIsVisible |
| `OutboxProofs` | `PersistenceAssumption`, `KindAssumption`, `OutboxAssumption`, `LeaseAssumption` (lock wait and send together are shorter than the lease) | TypeCorrect, StoredTogetherHolds, SentInOrderHolds, SentByOneHolds, ClaimsBoundedHolds, SettledIsFinalHolds, RowsOnlyAdvance |
| the same, on `DiscordPort` | `PortAssumption` | PortTypeCorrect, SendEndsInTime, SentIsPosted, SilenceIsKept |
| `WorldWorkProofs`, with the lemmas of `StateCommandsProofs` | `WorkAssumption`, `MovementAssumption` (a position is none of the other answers of the port), `ProcessAssumption` (the supervisor dispatches no task command; the executor's task is none of the coordinators'), `NoValueAssumption` | TypeCorrect, OneWorkerHolds, AlwaysSameResult, AlwaysPlacedOnce, AlwaysThere, NeverSentAfterStop, FramesAlwaysInOrder, SilentAfterStop, KeepsLifecycle, PlacementsAdvance, PlansAreBounded, JourneysAdvance |
| `WorldObservationProofs` | `ObservationAssumption` | TypeCorrect, ServedIsCurrentHolds, ReadyOncePerConnectionHolds, ForgetsOnlyTheOldestHolds |

**Queue.** None of the invariants is inductive, because a client writes back what
it computed from an older copy of a row. `IInv` says of the copy a client is
about to write (`ClientOK`) what it says of the rows (`RowOK`), and that the
command accepts it; the comparison in the UPDATE then carries status and phase
over to the row. A client inside a claim holds the lock of its row, and its copy
is the row. The step proof has one lemma per kind of
statement. `DistinctStamps` is needed for `ClaimsWithinLimit` and `UpdatesAreAtomic` only, where `StampInv`
adds that a dispatch under way has a stamp no row and no reader has seen: a row that
still has the stamp a client read has then the attempts it read, so no update takes an
attempt back, and the attempts column counts the claims. `UpdatesAreAtomic` says the same
of every command: it takes effect on the row as it is, not on the copy, or not at all.
`LockInv` puts every row lock in the hands of a claim that has read the row it locked and
has only its commit left, so that no two clients wait for each other.

**Migrations.** `MigrationsInv` follows the caller that has the lock of the server:
which versions are recorded where it is, and how many objects of the version at hand
exist (`MigrateOK`, `RollbackOK`). What a call may find at its start depends on who was
cut off before, so the rest of it is conditional on `torn`: unless a rollback was cut
off, what is recorded is in place (`RecordedIsWhole`); unless more than version 1 was
torn, nothing else exists but what is left of version 1 (`NothingElse`), and therefore
no statement fails (`NoFailure`). A cut at a statement keeps both, or adds to `torn`.

**Executor.** `ExecutorInv` says for each place where the loop and `close()` wait what
they have asked for (`CallsMatch`), what the store's task is (`StoreFollows`), and that
a task that was worked on, or is about to be, has left the queue (`WorkedOnce`). The two
parts about undisturbed runs are conditional: without a failure or crash a claimed row
is in the hands of the loop or of `close()`, and a stop taken for made is made or under
way (`Accounted`); if nobody closes the executor either, the row of the task at hand is
claimed until it is answered for, and the two results agree (`Together`). The life cycle
follows from the same invariant: every effect of a request on a row is a claim or a
finish (`EffectMoves`).

**Store.** `StateCommandsProofs` shows that each command keeps a snapshot
`Consistent`, and that a final denial stays final. For the delivery, `StoreInv`
adds that the queued revisions increase and none calls a listener twice
(`QueueOK`), and that for a subscriber that is present nothing older than the next
revision it waits for is queued, while every revision from there to the current
one is (`SubscriberOK`).

**Supervisor.** `PlaceState` says, for each place where run() waits, what the
snapshot holds: runtime and connection state, stop reason, error, telemetry.
Without it `ResultMatchesSnapshot` can not be shown, because a rejected command
is ignored: one has to know that each transition on the way out is accepted.

**Announcements.** The mapper's first-match rule is turned into a chain of conditions
(`NewsChain`), and each change a step makes into the message it is announced with. A
step therefore appends a list known message by message (`Tells`): its last message is the
situation after the step, and a message that announces an end is only ever the last one
of the step that ends the run. `DeliveryInv` adds that what waits last in the chain is
the present situation, so that losing or sending an earlier message does no harm. That
each step of `Announcements` is one of `RuntimeSupervisor` is a theorem, too: what is
proved of the supervisor holds there.

**Controller.** `ControllerInv` says that every session belongs to a window the clock
has shown (`History`), that all sessions but the last are over (`OthersOver`), and where
the last one is to be found at each place of run() (`AtPlace`). That no window is
served twice needs that the scheduler does not come back to a window: times between
two of a window are in it (`SameDay`), and an evaluation never moves the memory back.

**Lock.** While nothing has overlapped (`~raced`), nobody else is where it takes or
leaves the lock while one holds it (`Alone`), and the file under the lock's name is the
holder's, with a heartbeat of this tick or the last (`HoldersLock`); with
`StaleAfter > 1` that is fresh. `WatchedFacts` is what makes the condition usable: a step
that ends unraced began and ended without overlapping operations.

**Outbox.** `StoreInv` says that the queue of a run holds its last changes with
consecutive revisions and times that grow, that what is stored comes before what
is queued (but for the first event, which a lost answer may leave in both), and
that the rows' times grow with the revisions: this makes the row with the least
time the earliest of its run. `DeliveryInv` says that who sends owns the row, and
that its lease runs for at least `Lease - LockWait - age`, which the
`LeaseAssumption` keeps positive until the send ends; a claim by another worker
finds it taken (`LeasedIsTaken`). The step proof treats delivery, which neither
adds nor removes a row (`RowsKept`), apart from persistence, which only adds them
(`RowsAdded`). No fairness and no bound on failures or deaths is used.

**Discord port.** `PortInv` bounds every timer by what is left of the total time
(`TimerInBudget`), counts the posts by the attempts (`RequestsLeft`), and relates the
wait a server asked for to the timer of the wait or to what the port remembers for the
next message (`WaitCoversSilence`).

**World work.** Four invariants build on one another. `WorkerInv` makes `OneWorker`
inductive: a worker takes the store's task only when it is idle, hence nobody's,
and ends only its own; the progress reports of a journey are accepted because its
task is running. `StreamInv`: who holds a frame holds a tick later than all that
were sent, and a port that is open. `PlacementInv` says what an execution may rely
on after each `await` (`ResultKnown`), in particular that the row is past
`not_started` and nothing was asked for when it is about to send, and that whatever
stops the port has aborted the execution (`AbortInv`), although the notification of a
denial is a step of its own. `ResultInv`: without a fault, the row of a task under
way stays claimed, and a result in the store is in the row or on its way there.
The step proofs have a lemma per group of actions and one that the steps of the
others spare the task (`SparesOthers`) and the rows (`RowsSpared`). `KeepsLifecycle`
compares the rows with `TaskLifecycle`: they start queued here, so it speaks of the
steps. With the theorems of the same name about the executor, and `ImplementsLifecycle`
about the table, all three views of a row agree on what may happen to it, which is what
using one atomic change for a request rests on.

**Observation.** `ServedIsCurrent` speaks of what is given out while the BOT is
spawned; `Current` says the same of what is held at any time, and that outside of
that stretch nothing is held but the registry, which is why a spawn brings nothing
old back. `ObservationInv` adds that a spawned BOT's dimension is the same in port
and store. `TypeOK` says that the store never is ahead of the port's sequence,
hence that no command of the port is dropped as old.

**What ends.** A liveness property of this program needs two things: the steps a
component still has to take are finite in number and nothing takes them back, and each of
them is eventually taken. The second is fairness, and stays with TLC. The first is proved,
for every value of the constants, by a measure that every step of the component's own
lowers and no step of anybody else raises:

| Measure | Theorem | Bound | Half of |
|---|---|---|---|
| `CallsLeft` of a client | DispatchesAreShort | 2 statements of a dispatch | `DispatchEnds` |
| `RoundLeft`, `CloseLeft` | RoundsAdvance, ClosesAdvance | 10 steps of a round of the loop, 13 of `close()` | `CloseEnds`, `QueueDrains` |
| `RunLeft`, `StopLeft` | RunsAdvance, StopsAdvance | 3 * `MaxRetries` + 3 turns of `run()`, 2 after a stop | `SpawnsOrEnds`, `StopEnds` |
| `SignalLeft` | SignalsEndRun | 2 steps of the session after a signal | `SessionsEnd` |
| `RowLeft` of a notification | RowsOnlyAdvance | 2 * `MaxAttempts` + 2 changes of a row | `EverythingSettles` |
| `BlockLeft`, `MoveLeft` | PlacementsAdvance, JourneysAdvance | 13 steps of a placement, 4 * `MaxSteps` + 3 of a journey | `NeverStuck` |

That the measures can fall at all depends on invariants: a round's on the places where
`CallsMatch` allows an answer, a stop's on `PlaceState` (no attempt is left behind it), a
journey's on the length of its plan (`PlanInv`), a row's on who owns it. `RowsOnlyAdvance`
also lists what may happen to a row (`RowMoves`): it is delivered or put back by the
worker that owns it and given up only when its attempts are used up.

Only model-checked: every liveness property (`DispatchEnds`, `CloseEnds`,
`QueueDrains`, `StopEnds`, `SpawnsOrEnds`, `SessionsEnd`, `EverythingSettles`,
`LeftoversDoNotBlock`, `DisconnectIsTold`) and `NeverStuck`, since liveness under
fairness and `ENABLED` are beyond the installed provers. Every other property of a
passing run is a theorem. The measures above are no substitute: that the next step is
enabled and taken is what TLC shows on the instances.

Only proved, and in no run: the type invariants of all components (`DeliveryTypeOK` of
`Announcements` as a part of `DeliveryInv`, `LockTypeOK` and `ControllerTypeOK` as parts
of `LockInv` and `ControllerInv`), `LeaseOnlyWhileClaimed`, `TerminalFinal`,
`AttemptsWithinLimit`, `DeliveredOnce`, `NoResend`, `SilentAfterUnsubscribe`,
`DenialIsFinal`, `FirstReasonKept`, `OneConnection`, `ReportedByThisAttempt`,
`SettledIsFinal`, `ClaimsBounded`, `StoredTogether`, `SameResult`, `NoFrameAfterStop` and
`ForgetsOnlyTheOldest`, which the runs checked until they were proved, the two
`RowsFollowLifecycle`, `LockInv`, `HoldersGoOn`, `ActsOnRow`, `PlanInv`, and the steps of
the measures (`DispatchesAdvance`, `RoundAdvances`, `CloseAdvances`, `RunAdvances`,
`StopAdvances`, `SignalAdvances`, `RowsAdvance`, `BlockAdvances`, `MoveAdvances`). Data that is built by recursion does not occur: sequences are
used through `Append`, `Tail` and indices.

## 6. Findings

One run shows a disagreement by a counterexample:

- **Two processes can hold the lock of one account** (`lock_race`). The lock file
  is created and filled in two steps, and a file that can not be parsed counts
  as no lock (`instance-lock.ts:31`); a heartbeat also empties it for a moment,
  and of two processes that find the same stale lock the slower one renames the
  lock of the faster. `docs/requirements.md:58-59` asks for exclusion.

Two more are visible in the conditions under which a property holds:

- **Queue and state store may keep different results.** `close()` reports the
  active task as stopped whether or not its stop was accepted
  (`readonly-task-executor.ts:107-112`). When the finish as completed has been
  stored and its answer is on the way, the row says completed and the snapshot
  stopped. `docs/task-queue.md:62-63` has one result for both. `ResultsAgree` needs
  `closer = "open"` for this reason.
- **An account can stay locked after release().** A heartbeat under way when
  `release()` reads the file hides the record from it and writes it back
  afterwards (`instance-lock.ts:46`), against `docs/decisions.md:554`. The next
  start within thirty seconds is refused. This is the second half of
  `Overlapping`, without which the last part of `OneVisibleHolder` fails.

## 7. Simplifications, and what is not modelled

- Queue: the command `release` has no caller in production, so a row that is
  released and claimed again within one millisecond can not occur there;
  `ClaimsWithinLimit` is stated for distinct stamps for this reason. Validation of
  instructions, list queries and checkpoint contents are left out.
- Store: the jump from connected to spawned by `connection.transition` is
  accepted by the code, but no caller makes it; it is excluded by assumption,
  as it would separate the two spawn fields. Telemetry reported while
  disconnected is accepted, as in the code. Exceptions of listeners are caught
  and change nothing.
- Executor: `close()` is called after run() of the supervisor has ended, as the
  session does. A request under way at a crash either took effect before it or
  never does. Which of several tasks is claimed is left open; `TaskQueue` has
  the order. The loop's delay and its wait on a denial are one place, "idle". A
  lost connection is not among the commands of the run: for the policy it is one
  more denial that may be taken back, as a bad reading is.
- Supervisor: of the library only the order of its events is assumed:
  authenticated before join before spawn, players and telemetry after join. A
  `disconnect` or a logger that throws, and the internal error of `run()` it would
  cause, are left out. The retry counter is never reset, in the code as in the
  model.
- Schedule: the clock is any instant of the set at each poll, forwards and
  backwards. `close()` of the controller after run() changes nothing and has no
  action. An invalid date (`SchedulerError`) is left out.
- Lock: a write takes less than a heartbeat's interval and no heartbeat is
  skipped (the guard of `Tick`); a suspended process, or a clock that is set, is
  not modelled. `raced` is a history variable: operations on the file
  overlapped, of two owners or of a heartbeat and its own release.
- Outbox: the code orders rows by time of change, then revision, where
  `docs/notifications.md:31` says revision; the two agree while the clock is not
  set back between two changes, which the model assumes. Rows of different runs
  that agree in both are ordered by run id in the code and in any order here. The
  wait of a claim is that for the advisory lock (10 s) and the lease runs from
  before it, as in the code; the statements around it, and the wait for a
  connection of the pool, are taken to fit into the rest of the lease. A call that
  failed has either taken effect by then or never does. `LockWait` also bounds how far a due
  time in the past is told apart.
- Block operation: nothing in `src/` implements the port except one that refuses
  every operation, so the port and the server are modelled from how the
  coordinator uses them. An instruction that is not valid, or that the queue does
  not hold, returns failed before anything changes and has no action. A
  notification that finds work allowed does nothing and has none either.
- Movement: while the store is taken, a journey returns and its row stays claimed
  (`tests/movement.test.ts:218` expects it), where a placement is failed. Invalid
  positions and limits are left out. A connection that is lost in the same batch
  of packets as an observation could leave the reported position behind; the
  composed process of `WorldWork` has no disconnects.
- World work: nothing in `src/` resets the store's task but the read-only
  executor; `CallerResets` is what a caller of the coordinators has to do.
- World observation: packets that the port leaves aside (other entities, other
  layers, unreadable fields) have no action; an unreadable item or registry is
  `Inconsistent`. Production binds a store that gets no packets; the port is there
  for the acceptance of a placement. After a change of dimension the store stays
  unusable until the next connection, as decision ADR-024 wants.
- Discord port: a content that is too long is rejected before anything else. The
  port remembers the wait that the headers of a success ask for; the wait of a 429
  that ends a send is not kept for the next message, and `RespectsWait` does not ask
  for it. A message may be posted twice, when the first answer is lost: the
  contract is at least once.
- Announcements: without MySQL there is no executor, so the announcements of tasks
  are left out. What is queued when the session closes is lost, as
  `docs/notifications.md` says. The memory of 256 announcements already sent does
  nothing, as revisions grow, and has no variable. `ReaderKnows` says nothing while
  the last message is known to be lost.
- Migrations: reads that follow each other under the lock are one step. A connection
  that is lost gives its lock back at once. Nothing repairs a version that was cut
  off between its statement and its row: every later start fails at the statement,
  except in 001, whose statements can be repeated. `rollbackAll` has no caller
  outside of the tests.
- Not modelled: the smoke session, a one-shot variant of the supervisor's attempt for
  manual tests; failures in the creation of a session, and its clean-up steps that
  only close what is idle. Not worth a model: packet encoding, configuration,
  logging, parsing of operator commands, the recovery audit that only counts rows,
  the query of the operational log, which only reads.

## 8. Running it

```
tlc -workers 2 -config MCTaskQueue_run.cfg MCTaskQueue
tlapm TaskQueueProofs.tla
```

Every `MC*_<part>.cfg` belongs to the module before the underscore. Each run
takes at most three minutes on two cores.
