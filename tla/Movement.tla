------------------------------ MODULE Movement ------------------------------
(***************************************************************************)
(* MovementCoordinator, the BedrockMovementPort it drives, and the frame   *)
(* ownership the port shares with block placement: an execution walks to   *)
(* its target in a straight line, one frame and one observation per step.  *)
(*                                                                         *)
(* Positions are the places of a line whose neighbours are one maximal     *)
(* step apart, and the tolerance is smaller than that.                     *)
(***************************************************************************)
EXTENDS WorkContext, Sequences

CONSTANTS
  Line,       \* the places the server may report, a sequence
  Target,     \* the target of each task
  MaxSteps,   \* limits.maxSteps
  MaxTick     \* bound: the last tick a frame provider counts

ASSUME MovementAssumption ==
  /\ Line \in Seq(STRING) /\ Line # <<>>
  \* The results of a step that are no place have other names.
  /\ \A i \in DOMAIN Line : Line[i] \notin {"none", "error"}
  /\ Target \in [MoveTasks -> {Line[i] : i \in DOMAIN Line}]
  /\ MaxSteps \in Nat
  /\ MaxTick \in Nat

VARIABLES
  movePc,        \* where #execute waits
  moveTask,      \* #active.taskId
  moveAborted,   \* #active.controller is aborted
  plan,          \* the targets of the steps
  done,          \* stepsCompleted
  moveAnswer,    \* how the step under way settled
  moveOutcome,   \* what #finalize stores
  moveClosed,    \* the port and its frame ownership are closed
  owner,         \* the placement frame that owns the stream, or NoValue
  lastTick       \* #lastCommittedTick, the tick of the last frame sent

moveMemory == <<movePc, moveTask, moveAborted, plan, done, moveAnswer, moveOutcome>>
streamVars == <<moveClosed, owner, lastTick>>
moveVars   == <<moveMemory, streamVars>>

NoTick == -1
Tick   == 0..MaxTick
Places == {Line[i] : i \in DOMAIN Line}

MoveActive == movePc # "idle"

MoveInit ==
  /\ movePc = "idle"
  /\ moveTask = NoValue
  /\ moveAborted = FALSE
  /\ plan = <<>>
  /\ done = 0
  /\ moveAnswer = "none"
  /\ moveOutcome = "failed"
  /\ moveClosed = FALSE
  /\ owner = NoValue
  /\ lastTick = NoTick

----------------------------------------------------------------------------
(* createMovementPlan                                                      *)

Index(place) == CHOOSE i \in DOMAIN Line : Line[i] = place

Distance(from, to) ==
  LET d == Index(to) - Index(from) IN IF d < 0 THEN -d ELSE d

\* A position in another dimension, or too far away, gives no plan.
CanPlan(from, to) ==
  from \in Places /\ Distance(from, to) <= MaxSteps

Plan(from, to) ==
  [k \in 1..Distance(from, to) |->
     Line[IF Index(from) < Index(to) THEN Index(from) + k ELSE Index(from) - k]]

----------------------------------------------------------------------------
(* The ends of an execution                                                *)

FinalizeMove(s, outcome) ==
  /\ movePc' = "finalizing"
  /\ moveOutcome' = outcome
  /\ moveAnswer' = "none"
  /\ snapshot' = Finalized(s, moveTask, outcome)
  /\ UNCHANGED <<moveTask, moveAborted, plan, done>>

\* BedrockMovementPort.stop() is for good: the ownership is closed with it.
CloseStream ==
  /\ moveClosed' = TRUE
  /\ owner' = NoValue
  /\ UNCHANGED lastTick

StopAndFinalizeMove(s, outcome) == CloseStream /\ FinalizeMove(s, outcome)

MoveReturns ==
  /\ movePc' = "idle"
  /\ moveTask' = NoValue
  /\ moveAborted' = FALSE
  /\ plan' = <<>>
  /\ done' = 0
  /\ moveAnswer' = "none"
  /\ moveOutcome' = "failed"

----------------------------------------------------------------------------
(* execute()                                                               *)

ExecuteMove(t) ==
  /\ movePc = "idle"
  /\ movePc' = "finding"
  /\ moveTask' = t
  /\ UNCHANGED <<snapshot, rows, faults, moveAborted, plan, done, moveAnswer,
                 moveOutcome, streamVars>>

StoreFree == snapshot.task.state = "idle"

\* The store shows the target, and the signal decides.
Arrive(s) ==
  IF moveAborted THEN StopAndFinalizeMove(s, "stopped")
  ELSE FinalizeMove(s, "completed") /\ UNCHANGED streamVars

\* A task that starts on its target has no steps.
Begin(steps) ==
  IF steps = <<>> THEN Arrive(Prepared(snapshot, moveTask))
  ELSE /\ plan' = steps
       /\ snapshot' = Prepared(snapshot, moveTask)
       /\ movePc' = "stepping"
       /\ UNCHANGED <<moveTask, moveAborted, done, moveAnswer, moveOutcome, streamVars>>

\* The answer of find(), and all that follows until the first step.
MoveFound ==
  LET from    == snapshot.minecraft.place
      claimed == rows[moveTask].status = "claimed"
  IN
  /\ movePc = "finding"
  /\ \/ /\ ReadFails
        /\ StopAndFinalizeMove(snapshot, "failed")
     \/ /\ ~claimed \/ ~StoreFree
        /\ MoveReturns
        /\ UNCHANGED <<snapshot, rows, faults, streamVars>>
     \/ /\ claimed /\ StoreFree /\ ~Allows(snapshot)
        /\ FinalizeMove(snapshot, "stopped")
        /\ UNCHANGED <<rows, faults, streamVars>>
     \/ /\ claimed /\ StoreFree /\ Allows(snapshot)
        /\ ~CanPlan(from, Target[moveTask])
        /\ FinalizeMove(snapshot, "failed")
        /\ UNCHANGED <<rows, faults, streamVars>>
     \/ /\ claimed /\ StoreFree /\ Allows(snapshot)
        /\ CanPlan(from, Target[moveTask])
        /\ Begin(Plan(from, Target[moveTask]))
        /\ UNCHANGED <<rows, faults>>

\* Seeded fault: the tick is not compared with the one sent last.
MayAcquireAny(tick) == ~moveClosed /\ owner = NoValue

\* #acquire, for either owner.
MayAcquire(tick) == ~moveClosed /\ owner = NoValue /\ tick > lastTick

\* The frame is sent.
Commit(tick) == lastTick' = tick

\* The policy and the signal; the port is called in a microtask.
StepAllowed ==
  /\ movePc = "stepping"
  /\ IF ~Allows(snapshot) \/ moveAborted THEN StopAndFinalizeMove(snapshot, "stopped")
     ELSE /\ movePc' = "sending"
          /\ UNCHANGED <<snapshot, moveTask, moveAborted, plan, done, moveAnswer,
                         moveOutcome, streamVars>>
  /\ UNCHANGED <<rows, faults>>

\* The signal once more, but not the policy, and port.move with the tick the
\* provider counts: from the claim of the frame to its queueing nothing is
\* awaited.  #lastSentTick of the port is never ahead of lastTick.  (NoTick: a
\* frame that is not valid.)
Step(tick) ==
  /\ movePc = "sending"
  /\ IF moveAborted THEN StopAndFinalizeMove(snapshot, "stopped")
     ELSE IF ~MayAcquire(tick) THEN StopAndFinalizeMove(snapshot, "failed")
     ELSE /\ Commit(tick)
          /\ movePc' = "moving"
          /\ UNCHANGED <<snapshot, moveTask, moveAborted, plan, done, moveAnswer,
                         moveOutcome, moveClosed, owner>>
  /\ UNCHANGED <<rows, faults>>

\* The step settled without a position.  One that settled before the abort
\* keeps its answer.
StepFailed ==
  /\ movePc = "moving"
  /\ \/ moveAnswer = "none" /\ moveAborted /\ StopAndFinalizeMove(snapshot, "stopped")
     \/ moveAnswer = "error" /\ StopAndFinalizeMove(snapshot, "failed")
  /\ UNCHANGED <<rows, faults>>

\* The store after the observation of a step.  Its task is still running, as
\* OneWorker of WorldWork shows, so the progress is accepted.
Advanced(s, place, steps) ==
  After(After(s, [type |-> "minecraft.telemetry.update",
                  telemetry |-> [place |-> place, health |-> NoValue,
                                 hunger |-> NoValue]]),
        [type |-> "task.progress.update", progress |-> (100 * steps) \div Len(plan)])

\* An observation: the next step follows only on the target of this one.
StepObserved ==
  LET next == Advanced(snapshot, moveAnswer, done + 1) IN
  /\ movePc = "moving" /\ moveAnswer \notin {"none", "error"}
  /\ IF moveAborted THEN StopAndFinalizeMove(snapshot, "stopped")
     ELSE IF moveAnswer # plan[done + 1] THEN StopAndFinalizeMove(snapshot, "failed")
     ELSE IF ~Allows(next) THEN StopAndFinalizeMove(next, "stopped")
     ELSE IF done + 1 = Len(plan) THEN Arrive(next)
     ELSE /\ snapshot' = next
          /\ done' = done + 1
          /\ movePc' = "stepping"
          /\ moveAnswer' = "none"
          /\ UNCHANGED <<moveTask, moveAborted, plan, moveOutcome, streamVars>>
  /\ UNCHANGED <<rows, faults>>

\* The answer to task.finish; an error is reported as finalization_error.
MoveFinalized ==
  /\ movePc = "finalizing"
  /\ \E ok \in BOOLEAN :
       /\ FinishRow(moveTask, moveOutcome, ok)
       /\ IF ok THEN UNCHANGED streamVars ELSE CloseStream
  /\ MoveReturns
  /\ UNCHANGED snapshot

MoveSteps ==
  \/ MoveFound \/ StepAllowed \/ (\E tick \in Tick \cup {NoTick} : Step(tick))
  \/ StepFailed \/ StepObserved \/ MoveFinalized

----------------------------------------------------------------------------
(* What comes in between                                                   *)

CancelMove ==
  /\ MoveActive /\ ~moveAborted
  /\ moveAborted' = TRUE
  /\ CloseStream
  /\ UNCHANGED <<snapshot, rows, faults, movePc, moveTask, plan, done,
                 moveAnswer, moveOutcome>>

\* The binding closes the port at the end of the session: a frame under way
\* is given up with an error.
ClosePort ==
  /\ ~moveClosed
  /\ CloseStream
  /\ moveAnswer' = IF movePc = "moving" /\ moveAnswer = "none" THEN "error"
                   ELSE moveAnswer
  /\ UNCHANGED <<snapshot, rows, faults, movePc, moveTask, moveAborted, plan,
                 done, moveOutcome>>

\* What the transport shows of the packets about the BOT: its place; or a
\* correction of its frame, a lost connection, an observation of no use.
Observation == Places \cup {"error"}

\* The first observation after the send, whatever frame it belongs to, or the
\* timer.
StepSettles ==
  /\ movePc = "moving" /\ moveAnswer = "none" /\ ~moveAborted
  /\ moveAnswer' \in Observation
  /\ UNCHANGED <<snapshot, rows, faults, movePc, moveTask, moveAborted, plan,
                 done, moveOutcome, streamVars>>

\* A block placement claims the stream, sends its frame or gives it up.  The
\* gate is checked again at the commit.
PlacementAcquires(tick) ==
  /\ Allows(snapshot) /\ MayAcquire(tick)
  /\ owner' = tick
  /\ UNCHANGED <<snapshot, rows, faults, moveMemory, moveClosed, lastTick>>

PlacementCommits ==
  /\ owner # NoValue
  /\ owner' = NoValue
  /\ IF Allows(snapshot) THEN Commit(owner) ELSE UNCHANGED lastTick
  /\ UNCHANGED <<snapshot, rows, faults, moveMemory, moveClosed>>

PlacementReleases ==
  /\ owner # NoValue
  /\ owner' = NoValue
  /\ UNCHANGED <<snapshot, rows, faults, moveMemory, moveClosed, lastTick>>

\* The process dies; the next one has a connection, and ticks, of its own.
MoveLost ==
  /\ MoveReturns
  /\ moveClosed' = FALSE
  /\ owner' = NoValue
  /\ lastTick' = NoTick

MoveNext ==
  \/ \E t \in MoveTasks : ExecuteMove(t)
  \/ MoveSteps
  \/ CancelMove \/ ClosePort \/ StepSettles
  \/ \E tick \in Tick : PlacementAcquires(tick)
  \/ PlacementCommits \/ PlacementReleases

----------------------------------------------------------------------------
(* Properties                                                              *)

\* The variables have their types.
MoveTypeOK ==
  /\ movePc \in {"idle", "finding", "stepping", "sending", "moving", "finalizing"}
  /\ moveTask \in Optional(MoveTasks)
  /\ moveTask = NoValue <=> movePc = "idle"
  /\ moveAborted \in BOOLEAN
  /\ plan \in Seq(Places)
  /\ done \in 0..Len(plan)
  /\ moveAnswer \in Places \cup {"none", "error"}
  /\ moveOutcome \in Outcome
  /\ moveClosed \in BOOLEAN
  /\ owner \in Optional(Tick)
  /\ lastTick \in Tick \cup {NoTick}

\* The server sees every tick once, in order, although two owners share the
\* stream and a placement may hold its frame for a while before it sends it.
FramesInOrder == [][lastTick' > lastTick \/ lastTick' = NoTick]_lastTick

\* After the port was stopped no frame is sent any more, by either owner.
NoFrameAfterStop == [][moveClosed => lastTick' = NoTick]_lastTick
=============================================================================
