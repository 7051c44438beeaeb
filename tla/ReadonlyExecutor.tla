-------------------------- MODULE ReadonlyExecutor --------------------------
(***************************************************************************)
(* ReadonlyTaskExecutor over SafetyControlledTaskQueue: one loop claims a  *)
(* task, works on it and finishes it, while close() stops the active task  *)
(* and the runtime goes on changing the snapshot that both look at.        *)
(*                                                                         *)
(* Every await is a point where the others may step.  A request to the     *)
(* task queue is one atomic change of its row (TaskQueue shows that the    *)
(* comparison on updated_at makes it one), and its answer is a later step. *)
(***************************************************************************)
EXTENDS WorkSafetyPolicy, FiniteSets

CONSTANTS
  Tasks,             \* ids of tasks with a type the executor may claim
  RuntimeCommands,   \* what the supervisor dispatches to the store
  MaxFailures,       \* bound: requests to the database that fail
  MaxCrashes         \* bound: crashes of the process

ASSUME ExecutorAssumption ==
  /\ Tasks \subseteq STRING
  /\ \A c \in RuntimeCommands : c \in Command /\ c.type \notin TaskCommand
  /\ MaxFailures \in Nat
  /\ MaxCrashes \in Nat

VARIABLES
  snapshot,     \* the state store
  rows,         \* rows[t]: the status of t in the database
  pc,           \* where the loop waits
  task,         \* the task at hand, in #execute or before it
  outcome,      \* what the coordinator answered: "completed" or "failed"
  call,         \* call[p]: the request that p waits for
  closer,       \* where close() waits
  stoppedIds,   \* #stoppedTaskIds
  executions,   \* executions[t]: how often t was worked on, over all processes
  failures, crashes

vars == <<snapshot, rows, pc, task, outcome, call, closer, stoppedIds,
          executions, failures, crashes>>
memory == <<snapshot, pc, task, outcome, closer, stoppedIds, executions>>

Outcome   == {"completed", "failed", "stopped"}
RowStatus == {"absent", "queued", "claimed", "cancelled"} \cup Outcome

NoCall == [task |-> NoValue, to |-> "claimed", answer |-> "none"]

\* A claim names no task: the database chooses one.
Request(t, to) == [task |-> t, to |-> to, answer |-> "pending"]
Answered(p)    == call[p].answer \in {"ok", "error"}
Succeeded(p)   == call[p].answer = "ok"

\* #activeTaskId is defined.
Active == pc \in {"halting", "checked", "worked", "finishing", "failing"}
Closed == closer # "open"

Init ==
  /\ snapshot = InitialSnapshot
  /\ rows = [t \in Tasks |-> "absent"]
  /\ pc = "idle"
  /\ task = NoValue
  /\ outcome = "failed"
  /\ call = [p \in {"executor", "closer"} |-> NoCall]
  /\ closer = "open"
  /\ stoppedIds = {}
  /\ executions = [t \in Tasks |-> 0]
  /\ failures = 0
  /\ crashes = 0

----------------------------------------------------------------------------
(* The state store's task                                                  *)

\* #transitionTask: the first terminal state stays.
Reported(s, to) ==
  IF to \in TaskNext(s.task.state)
  THEN After(s, [type |-> "task.transition", to |-> to]) ELSE s

\* The commands at the start of #execute; prepare throws on a task that was
\* left unfinished.
CanBegin(s) == s.task.state \in TerminalTask \cup {"idle"}

Begun(s, t) ==
  LET cleared  == IF s.task.state \in TerminalTask
                  THEN After(s, [type |-> "task.reset"]) ELSE s
      prepared == After(cleared, [type |-> "task.prepare", id |-> t])
  IN After(prepared, [type |-> "task.transition", to |-> "running"])

----------------------------------------------------------------------------
(* The loop                                                                *)

\* A denial before the claim sends nothing; the loop polls again.
Poll ==
  /\ pc = "idle" /\ ~Closed
  /\ Allows(snapshot)
  /\ pc' = "claiming"
  /\ call' = [call EXCEPT !["executor"] = Request(NoValue, "claimed")]
  /\ UNCHANGED <<snapshot, rows, task, outcome, closer, stoppedIds, executions,
                 failures, crashes>>

Exit ==
  /\ pc = "idle" /\ Closed
  /\ pc' = "done"
  /\ UNCHANGED <<snapshot, rows, task, outcome, call, closer, stoppedIds,
                 executions, failures, crashes>>

\* Seeded fault: every stop is taken for one that was already made.
StopNever(p, t) ==
  /\ call' = [call EXCEPT ![p] = [Request(t, "stopped") EXCEPT !.answer = "ok"]]
  /\ stoppedIds' = stoppedIds

\* #stopOnce by p: the row is finished as stopped, by the first who asks.
StopOnce(p, t) ==
  /\ call' = [call EXCEPT ![p] =
                IF t \in stoppedIds
                THEN [Request(t, "stopped") EXCEPT !.answer = "ok"]
                ELSE Request(t, "stopped")]
  /\ stoppedIds' = stoppedIds \cup {t}

\* A stop that failed may be tried again.
Forgotten(p) ==
  IF Succeeded(p) THEN stoppedIds ELSE stoppedIds \ {call[p].task}

GiveUp(t) ==
  /\ pc' = "failing"
  /\ call' = [call EXCEPT !["executor"] = Request(t, "failed")]

\* Seeded fault: an error ends the loop.
RestUnlessError ==
  /\ pc' = IF Succeeded("executor") THEN "idle" ELSE "done"
  /\ task' = NoValue
  /\ call' = [call EXCEPT !["executor"] = NoCall]

Rest ==
  /\ pc' = "idle"
  /\ task' = NoValue
  /\ call' = [call EXCEPT !["executor"] = NoCall]

\* The claim is answered; a task that may no longer start is stopped.
ClaimAnswered ==
  /\ pc = "claiming" /\ Answered("executor")
  /\ LET t == call["executor"].task IN
     IF ~Succeeded("executor") \/ t = NoValue
     THEN Rest /\ UNCHANGED stoppedIds
     ELSE /\ task' = t
          /\ IF Allows(snapshot)
             THEN /\ pc' = "granted"
                  /\ call' = [call EXCEPT !["executor"] = NoCall]
                  /\ UNCHANGED stoppedIds
             ELSE pc' = "denying" /\ StopOnce("executor", t)
  /\ UNCHANGED <<snapshot, rows, outcome, closer, executions, failures, crashes>>

\* #execute up to the first enforceContinuation.
Begin ==
  /\ pc = "granted"
  /\ IF CanBegin(snapshot)
     THEN /\ snapshot' = Begun(snapshot, task)
          /\ IF Allows(snapshot)
             THEN pc' = "checked" /\ UNCHANGED <<call, stoppedIds>>
             ELSE pc' = "halting" /\ StopOnce("executor", task)
     ELSE GiveUp(task) /\ UNCHANGED <<snapshot, stoppedIds>>
  /\ UNCHANGED <<rows, task, outcome, closer, executions, failures, crashes>>

\* The coordinator reads the observed position; without one it fails.
Work ==
  /\ pc = "checked"
  /\ executions' = [executions EXCEPT ![task] = @ + 1]
  /\ outcome' = IF snapshot.minecraft.place = NoValue THEN "failed" ELSE "completed"
  /\ pc' = "worked"
  /\ UNCHANGED <<snapshot, rows, task, call, closer, stoppedIds, failures, crashes>>

\* Seeded fault: the result is reported before it is stored.
FinishEarly(o) ==
  /\ pc' = "finishing"
  /\ call' = [call EXCEPT !["executor"] = Request(task, o)]
  /\ snapshot' = Reported(snapshot, o)

\* The result is sent to the queue; progress is only noted of running work.
Finish(o) ==
  LET done == [type |-> "task.progress.update", progress |-> 100] IN
  IF o = "completed" /\ ~AcceptsProgress(snapshot.task, 100)
  THEN GiveUp(task) /\ UNCHANGED snapshot
  ELSE /\ pc' = "finishing"
       /\ call' = [call EXCEPT !["executor"] = Request(task, o)]
       /\ snapshot' = IF o = "completed" THEN After(snapshot, done) ELSE snapshot

\* The second enforceContinuation.
AfterWork ==
  /\ pc = "worked"
  /\ IF Allows(snapshot)
     THEN Finish(outcome) /\ UNCHANGED stoppedIds
     ELSE /\ pc' = "halting"
          /\ StopOnce("executor", task)
          /\ UNCHANGED snapshot
  /\ UNCHANGED <<rows, task, outcome, closer, executions, failures, crashes>>

\* An error of the queue is one more reason to give the task up as failed.
FinishAnswered ==
  /\ pc = "finishing" /\ Answered("executor")
  /\ IF Succeeded("executor")
     THEN snapshot' = Reported(snapshot, call["executor"].to) /\ Rest
     ELSE GiveUp(task) /\ UNCHANGED <<snapshot, task>>
  /\ UNCHANGED <<rows, outcome, closer, stoppedIds, executions, failures, crashes>>

\* The stop before #execute: its failure ends in the loop's catch.
DenialAnswered ==
  /\ pc = "denying" /\ Answered("executor")
  /\ stoppedIds' = Forgotten("executor")
  /\ Rest
  /\ UNCHANGED <<snapshot, rows, outcome, closer, executions, failures, crashes>>

\* The stop within #execute.
HaltAnswered ==
  /\ pc = "halting" /\ Answered("executor")
  /\ stoppedIds' = Forgotten("executor")
  /\ IF Succeeded("executor")
     THEN snapshot' = Reported(snapshot, "stopped") /\ Rest
     ELSE GiveUp(task) /\ UNCHANGED <<snapshot, task>>
  /\ UNCHANGED <<rows, outcome, closer, executions, failures, crashes>>

\* The end of #execute's catch, whatever the queue answered.
FailAnswered ==
  /\ pc = "failing" /\ Answered("executor")
  /\ snapshot' = Reported(snapshot, "failed")
  /\ Rest
  /\ UNCHANGED <<rows, outcome, closer, stoppedIds, executions, failures, crashes>>

Loop == \/ Poll \/ Exit \/ ClaimAnswered \/ Begin \/ Work \/ AfterWork
        \/ FinishAnswered \/ DenialAnswered \/ HaltAnswered \/ FailAnswered

----------------------------------------------------------------------------
(* close(), called by the session once run() has ended                     *)

Close ==
  /\ closer = "open"
  /\ snapshot.runtime \in {"stopped", "failed"}
  /\ IF Active
     THEN closer' = "stopping" /\ StopOnce("closer", task)
     ELSE closer' = "waiting" /\ UNCHANGED <<call, stoppedIds>>
  /\ UNCHANGED <<snapshot, rows, pc, task, outcome, executions, failures, crashes>>

\* Seeded fault: an error of the stop is not caught.
AfterStopOk == IF Succeeded("closer") THEN "waiting" ELSE "stopping"

AfterStop == "waiting"

StopAnswered ==
  /\ closer = "stopping" /\ Answered("closer")
  /\ stoppedIds' = Forgotten("closer")
  /\ snapshot' = Reported(snapshot, "stopped")
  /\ closer' = AfterStop
  /\ call' = [call EXCEPT !["closer"] = NoCall]
  /\ UNCHANGED <<rows, pc, task, outcome, executions, failures, crashes>>

\* Seeded fault: the loop is not awaited.
LoopEndedAlways == TRUE

LoopEnded == pc = "done"

CloseReturns ==
  /\ closer = "waiting" /\ LoopEnded
  /\ closer' = "closed"
  /\ UNCHANGED <<snapshot, rows, pc, task, outcome, call, stoppedIds,
                 executions, failures, crashes>>

----------------------------------------------------------------------------
(* The database, the runtime, the operator                                 *)

\* Seeded fault: a row left claimed by a crash is taken for queued.
ClaimableAgain == {t \in Tasks : rows[t] \in {"queued", "claimed"}}

Claimable == {t \in Tasks : rows[t] = "queued"}

\* What serving the request c may do: the new rows and the task concerned.
Effects(c) ==
  IF c.to # "claimed"
  THEN IF rows[c.task] = "claimed"
       THEN {[rows |-> [rows EXCEPT ![c.task] = c.to], task |-> c.task]} ELSE {}
  ELSE IF Claimable = {} THEN {[rows |-> rows, task |-> NoValue]}
  ELSE {[rows |-> [rows EXCEPT ![t] = "claimed"], task |-> t] : t \in Claimable}

Answer(p, t, a) == call' = [call EXCEPT ![p].task = t, ![p].answer = a]

\* A finish of a row that is no longer claimed is refused.
Serve(p) ==
  /\ call[p].answer = "pending"
  /\ IF Effects(call[p]) = {}
     THEN Answer(p, call[p].task, "error") /\ UNCHANGED rows
     ELSE \E e \in Effects(call[p]) : rows' = e.rows /\ Answer(p, e.task, "ok")
  /\ UNCHANGED <<memory, failures, crashes>>

\* The request or its answer is lost.
Break(p) ==
  /\ call[p].answer = "pending"
  /\ failures < MaxFailures
  /\ failures' = failures + 1
  /\ rows' \in {rows} \cup {e.rows : e \in Effects(call[p])}
  /\ Answer(p, call[p].task, "error")
  /\ UNCHANGED <<memory, crashes>>

Runtime(c) ==
  /\ Accepts(snapshot, c) /\ Changes(snapshot, c)
  /\ snapshot' = After(snapshot, c)
  /\ UNCHANGED <<rows, pc, task, outcome, call, closer, stoppedIds, executions,
                 failures, crashes>>

\* The operator's process.
Operator(t, from, to) ==
  /\ rows[t] = from
  /\ rows' = [rows EXCEPT ![t] = to]
  /\ UNCHANGED <<memory, call, failures, crashes>>

\* The process dies and is started again: only the rows are left.
Crash ==
  /\ crashes < MaxCrashes
  /\ crashes' = crashes + 1
  /\ snapshot' = InitialSnapshot
  /\ pc' = "idle"
  /\ task' = NoValue
  /\ outcome' = "failed"
  /\ call' = [p \in {"executor", "closer"} |-> NoCall]
  /\ closer' = "open"
  /\ stoppedIds' = {}
  /\ UNCHANGED <<rows, executions, failures>>

Next ==
  \/ Loop
  \/ Close \/ StopAnswered \/ CloseReturns
  \/ \E p \in {"executor", "closer"} : Serve(p) \/ Break(p)
  \/ \E c \in RuntimeCommands : Runtime(c)
  \/ \E t \in Tasks : Operator(t, "absent", "queued") \/ Operator(t, "queued", "cancelled")
  \/ Crash

Spec == Init /\ [][Next]_vars

\* The engine resumes what has been answered, a timer ends the wait between
\* two polls, and the driver answers or fails every request.
FairSpec ==
  /\ Spec
  /\ WF_vars(Loop)
  /\ WF_vars(StopAnswered) /\ WF_vars(CloseReturns)
  /\ \A p \in {"executor", "closer"} : WF_vars(Serve(p))

----------------------------------------------------------------------------
(* Properties                                                              *)

\* The variables have their types.
TypeOK ==
  /\ snapshot \in Snapshot
  /\ rows \in [Tasks -> RowStatus]
  /\ pc \in {"idle", "claiming", "granted", "denying", "checked", "worked",
             "finishing", "halting", "failing", "done"}
  /\ task \in Optional(Tasks)
  /\ task = NoValue <=> pc \in {"idle", "claiming", "done"}
  /\ outcome \in {"completed", "failed"}
  /\ call \in [{"executor", "closer"} ->
                 [task : Optional(Tasks), to : Outcome \cup {"claimed"},
                  answer : {"none", "pending", "ok", "error"}]]
  /\ closer \in {"open", "stopping", "waiting", "closed"}
  /\ stoppedIds \subseteq Tasks
  /\ executions \in [Tasks -> Nat]
  /\ failures \in 0..MaxFailures
  /\ crashes \in 0..MaxCrashes

\* A task is worked on at most once, crashes and lost answers included: what
\* was claimed once is left to a manual review.
ExecutedOnce == \A t \in Tasks : executions[t] <= 1

\* An executor at rest leaves no unfinished task in the state store, or the
\* prepare of every later task would throw; and unless the database failed or the
\* process crashed, it has finished every row it claimed, the denied ones
\* included.
NothingLeftBehind ==
  pc \in {"idle", "done"} =>
    /\ CanBegin(snapshot)
    /\ (failures = 0 /\ crashes = 0 /\ closer # "stopping")
         => \A t \in Tasks : rows[t] # "claimed"

\* A task reported as completed is stored as completed; and as long as nobody
\* closes the executor and nothing fails, an executor at rest has left the same
\* result in the queue and in the state store.
ResultsAgree ==
  /\ snapshot.task.state = "completed" => rows[snapshot.task.id] = "completed"
  /\ (/\ pc = "idle" /\ closer = "open" /\ failures = 0 /\ crashes = 0
      /\ snapshot.task.state \in TerminalTask)
       => rows[snapshot.task.id] = snapshot.task.state

\* After close() has returned the executor does nothing any more.
ClosedIsQuiet ==
  [][closer = "closed" /\ closer' = "closed" =>
       /\ UNCHANGED <<pc, executions, snapshot.task>>
       /\ \A t \in Tasks : rows[t] = "claimed" => rows'[t] = "claimed"]_vars

\* close() returns.
CloseEnds == Closed ~> (closer \in {"closed", "open"})

\* If work is allowed from some moment on, the queue is emptied, also after
\* requests that failed.
QueueDrains ==
  <>[]Allows(snapshot) => \A t \in Tasks : <>[](rows[t] # "queued")
=============================================================================
