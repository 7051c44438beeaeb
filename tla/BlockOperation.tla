--------------------------- MODULE BlockOperation ---------------------------
(***************************************************************************)
(* BlockOperationCoordinator: one execution places one block, with the     *)
(* queue, the port and the safety policy asked in a fixed order, while     *)
(* cancel(), close() and the notifications of the state store may come in  *)
(* at every await.                                                         *)
(*                                                                         *)
(* A call of the port is made, settles by an answer or by its timer        *)
(* (answer), and is resumed later: what happens in between finds it        *)
(* settled.  Nothing in src/ implements the port; the world does what it   *)
(* was asked at any time after the request, or never.                      *)
(***************************************************************************)
EXTENDS WorkContext

CONSTANT InReach   \* the places within maxReach of the target

VARIABLES
  blockPc,        \* where #execute waits
  blockTask,      \* #active.taskId
  blockAborted,   \* #active.controller is aborted
  blockNotified,  \* a notification that will find a denial is under way
  blockAnswer,    \* how the call of the port settled
  blockOutcome,   \* what #finalize stores
  portStopped,    \* #portStopped, while an execution is under way
  blockClosed,    \* #closed
  world,          \* world[t]: the block at the target of t
  placed          \* placed[t]: how often the port was asked to place it

blockMemory == <<blockPc, blockTask, blockAborted, blockNotified, blockAnswer,
                 blockOutcome, portStopped, blockClosed>>
blockVars == <<blockMemory, world, placed>>

Calling == {"observing_target", "observing_support", "placing", "observing_after"}

\* #active is defined, and #execute is subscribed to the state store.
BlockActive == blockPc # "idle"

BlockInit ==
  /\ blockPc = "idle"
  /\ blockTask = NoValue
  /\ blockAborted = FALSE
  /\ blockNotified = FALSE
  /\ blockAnswer = "none"
  /\ blockOutcome = "failed"
  /\ portStopped = FALSE
  /\ blockClosed = FALSE
  /\ world = [t \in PlaceTasks |-> "air"]
  /\ placed = [t \in PlaceTasks |-> 0]

----------------------------------------------------------------------------
(* The notifications of the state store                                    *)

\* Every change during an execution is notified later.  One that is delivered
\* while work is allowed does nothing, and is left out.
Notify ==
  blockNotified' =
    (BlockActive /\ ~Allows(snapshot') /\ (blockNotified \/ snapshot' # snapshot))

----------------------------------------------------------------------------
(* The ends of an execution                                                *)

\* The store is told at once, the queue is asked.
FinalizeBlock(outcome) ==
  /\ blockPc' = "finalizing"
  /\ blockOutcome' = outcome
  /\ blockAnswer' = "none"
  /\ snapshot' = Finalized(snapshot, blockTask, outcome)
  /\ Notify
  /\ UNCHANGED <<blockTask, blockAborted>>

\* #stopPortOnce, then the end.
StopAndFinalize(outcome) == portStopped' = TRUE /\ FinalizeBlock(outcome)

ReturnFromBlock ==
  /\ blockPc' = "idle"
  /\ blockTask' = NoValue
  /\ blockAborted' = FALSE
  /\ blockNotified' = FALSE
  /\ blockAnswer' = "none"
  /\ blockOutcome' = "failed"
  /\ portStopped' = FALSE

GoOn(pc) ==
  /\ blockPc' = pc
  /\ blockAnswer' = "none"
  /\ UNCHANGED <<blockTask, blockAborted, blockNotified, blockOutcome, portStopped,
                 snapshot>>

Waits(pc) == blockPc = pc

----------------------------------------------------------------------------
(* execute()                                                               *)

\* A call while another one runs, or after close(), throws.
ExecuteBlock(t) ==
  /\ Waits("idle") /\ ~blockClosed
  /\ blockPc' = "finding"
  /\ blockTask' = t
  /\ UNCHANGED <<snapshot, rows, faults, blockAborted, blockNotified,
                 blockAnswer, blockOutcome, portStopped, blockClosed, world, placed>>

\* The task was claimed for its only attempt, and nothing of it was sent.
MayPlace(row) == row.status = "claimed" /\ row.phase = "not_started"

\* The answer of find(), and every check up to the first call of the port.
BlockFound ==
  /\ Waits("finding")
  /\ \/ /\ ReadFails
        /\ StopAndFinalize("failed")
     \/ /\ ~MayPlace(rows[blockTask])
        /\ ReturnFromBlock
        /\ UNCHANGED <<snapshot, rows, faults>>
     \/ /\ MayPlace(rows[blockTask])
        /\ snapshot.task.state # "idle" \/ (Allows(snapshot) /\ snapshot.minecraft.place \notin InReach)
        /\ FinalizeBlock("failed")
        /\ UNCHANGED <<rows, faults, portStopped>>
     \/ /\ MayPlace(rows[blockTask])
        /\ snapshot.task.state = "idle" /\ ~Allows(snapshot)
        /\ StopAndFinalize("stopped")
        /\ UNCHANGED <<rows, faults>>
     \/ /\ MayPlace(rows[blockTask])
        /\ snapshot.task.state = "idle" /\ Allows(snapshot)
        /\ snapshot.minecraft.place \in InReach
        /\ GoOn("observing_target")
        /\ UNCHANGED <<rows, faults>>
  /\ UNCHANGED <<blockClosed, world, placed>>

\* Seeded fault: the abort does not settle the call.
CancelledNever == FALSE

\* The abort settles a call; one that settled before keeps its answer.
Cancelled == blockAnswer = "none" /\ blockAborted

\* #portFailure: a cancelled call stops the task, an error or the timer fails it.
PortFailed ==
  /\ blockPc \in Calling
  /\ \/ Cancelled /\ StopAndFinalize("stopped")
     \/ blockAnswer = "error" /\ StopAndFinalize("failed")
  /\ UNCHANGED <<rows, faults, blockClosed, world, placed>>

TargetObserved ==
  /\ Waits("observing_target") /\ blockAnswer \notin {"none", "error"}
  /\ IF blockAnswer = "air" THEN GoOn("observing_support")
     ELSE FinalizeBlock("failed") /\ UNCHANGED portStopped
  /\ UNCHANGED <<rows, faults, blockClosed, world, placed>>

\* The task is prepared only now: the store may have been idle, and be no more.
SupportObserved ==
  /\ Waits("observing_support") /\ blockAnswer \notin {"none", "error"}
  /\ IF blockAnswer = "air" THEN FinalizeBlock("failed") /\ UNCHANGED portStopped
     ELSE IF ~Allows(snapshot) THEN StopAndFinalize("stopped")
     ELSE IF snapshot.task.state # "idle" THEN StopAndFinalize("failed")
     ELSE /\ snapshot' = Prepared(snapshot, blockTask)
          /\ blockPc' = "marking"
          /\ blockAnswer' = "none"
          /\ UNCHANGED <<blockTask, blockAborted, blockNotified, blockOutcome,
                         portStopped>>
  /\ UNCHANGED <<rows, faults, blockClosed, world, placed>>

\* Seeded fault: the placement is sent whether it was recorded or not.
AfterMarkAnyway(ok) == GoOn("sending")

AfterMark(ok) == IF ok THEN GoOn("sending") ELSE StopAndFinalize("failed")

\* The answer to task.mark_delivery_started.
DeliveryMarked ==
  /\ Waits("marking")
  /\ \E ok \in BOOLEAN :
       /\ MarkRow(blockTask, "not_started", "delivery_started", ok)
       /\ AfterMark(ok)
  /\ UNCHANGED <<blockClosed, world, placed>>

MaySend == ~blockAborted /\ Allows(snapshot)

\* The only call that changes the world.  (A denial aborts the execution too,
\* and nothing looks at that any more.)
Place ==
  /\ Waits("sending")
  /\ IF MaySend
     THEN /\ GoOn("placing")
          /\ placed' = [placed EXCEPT ![blockTask] = @ + 1]
     ELSE StopAndFinalize("stopped") /\ UNCHANGED placed
  /\ UNCHANGED <<rows, faults, blockClosed, world>>

PlaceAnswered ==
  /\ Waits("placing") /\ blockAnswer = "done"
  /\ IF blockAborted \/ ~Allows(snapshot)
     THEN StopAndFinalize("stopped")
     ELSE GoOn("observing_after")
  /\ UNCHANGED <<rows, faults, blockClosed, world, placed>>

\* Seeded fault: whatever is observed after the placement will do.
ExpectedAfterAny(block) == block # "air" \/ blockPc # "idle"

ExpectedAfter(block) == block = "dirt"

ResultObserved ==
  /\ Waits("observing_after") /\ blockAnswer \notin {"none", "error"}
  /\ IF ExpectedAfter(blockAnswer) THEN GoOn("verifying")
     ELSE FinalizeBlock("failed") /\ UNCHANGED portStopped
  /\ UNCHANGED <<rows, faults, blockClosed, world, placed>>

\* The answer to task.mark_verified.
Verified ==
  /\ Waits("verifying")
  /\ \E ok \in BOOLEAN :
       /\ MarkRow(blockTask, "delivery_started", "verified", ok)
       /\ IF ok THEN FinalizeBlock("completed") /\ UNCHANGED portStopped
          ELSE StopAndFinalize("failed")
  /\ UNCHANGED <<blockClosed, world, placed>>

\* The answer to task.finish.  An error stops the port and is reported as
\* finalization_error: the row stays claimed.
BlockFinalized ==
  /\ Waits("finalizing")
  /\ \E ok \in BOOLEAN : FinishRow(blockTask, blockOutcome, ok)
  /\ ReturnFromBlock
  /\ UNCHANGED <<snapshot, blockClosed, world, placed>>

BlockSteps ==
  \/ BlockFound \/ PortFailed \/ TargetObserved \/ SupportObserved
  \/ DeliveryMarked \/ Place \/ PlaceAnswered \/ ResultObserved \/ Verified
  \/ BlockFinalized

----------------------------------------------------------------------------
(* What comes in between                                                   *)

\* Seeded fault: a denial stops the port and not the execution.
AbortOnStopOnly == blockAborted' = blockAborted

AbortExecution == blockAborted' = TRUE

\* The listener of the state store finds a denial.
StoreNotified ==
  /\ blockNotified
  /\ blockNotified' = FALSE
  /\ AbortExecution
  /\ portStopped' = TRUE
  /\ UNCHANGED <<snapshot, rows, faults, blockPc, blockTask, blockAnswer,
                 blockOutcome, blockClosed, world, placed>>

CancelBlock ==
  /\ BlockActive /\ ~blockAborted
  /\ blockAborted' = TRUE
  /\ portStopped' = TRUE
  /\ UNCHANGED <<snapshot, rows, faults, blockPc, blockTask, blockNotified,
                 blockAnswer, blockOutcome, blockClosed, world, placed>>

CloseBlock ==
  /\ ~blockClosed
  /\ blockClosed' = TRUE
  /\ blockAborted' = BlockActive
  /\ portStopped' = BlockActive
  /\ UNCHANGED <<snapshot, rows, faults, blockPc, blockTask, blockNotified,
                 blockAnswer, blockOutcome, world, placed>>

\* The call settles: with what the server shows, with the block of another
\* place, with an error, or by the timer.  The abort settles every other call.
PortSettles ==
  /\ blockPc \in Calling /\ blockAnswer = "none" /\ ~blockAborted
  /\ blockAnswer' \in
       {"error"} \cup
       CASE blockPc = "placing"           -> {"done"}
         [] blockPc = "observing_support" -> {"air", "solid_other"}
         [] OTHER                         -> {world[blockTask], "elsewhere"}
  /\ UNCHANGED <<snapshot, rows, faults, blockPc, blockTask, blockAborted,
                 blockNotified, blockOutcome, portStopped, blockClosed, world,
                 placed>>

\* The server carries a placement out, maybe long after it was given up.
WorldChanges(t) ==
  /\ placed[t] > 0 /\ world[t] = "air"
  /\ world' = [world EXCEPT ![t] = "dirt"]
  /\ UNCHANGED <<snapshot, rows, faults, blockMemory, placed>>

\* The process dies.
BlockLost ==
  /\ ReturnFromBlock
  /\ blockClosed' = FALSE
  /\ UNCHANGED <<world, placed>>

BlockNext ==
  \/ \E t \in PlaceTasks : ExecuteBlock(t) \/ WorldChanges(t)
  \/ BlockSteps
  \/ StoreNotified \/ CancelBlock \/ CloseBlock \/ PortSettles

----------------------------------------------------------------------------
(* Properties                                                              *)

\* The variables have their types.
BlockTypeOK ==
  /\ blockPc \in Calling \cup {"idle", "finding", "marking", "sending",
                               "verifying", "finalizing"}
  /\ blockTask \in Optional(PlaceTasks)
  /\ blockTask = NoValue <=> blockPc = "idle"
  /\ blockAborted \in BOOLEAN
  /\ blockNotified \in BOOLEAN
  /\ blockAnswer \in {"none", "error", "done", "air", "dirt", "solid_other", "elsewhere"}
  /\ blockOutcome \in Outcome
  /\ portStopped \in BOOLEAN
  /\ blockClosed \in BOOLEAN
  /\ world \in [PlaceTasks -> {"air", "dirt"}]
  /\ placed \in [PlaceTasks -> Nat]

\* Whatever is executed how often, fails, is cut off or crashes: the port is
\* asked for the block of a task once at most, and the database knows of it, so
\* that whoever reviews a task left claimed can trust "not_started".
PlacedOnce ==
  \A t \in PlaceTasks :
    /\ placed[t] <= 1
    /\ placed[t] > 0 => rows[t].phase # "not_started"

\* A task is completed only with its block in the world and its verification
\* stored, although the placement may take effect late or never.
CompletedIsThere ==
  \A t \in PlaceTasks :
    rows[t].status = "completed" => world[t] = "dirt" /\ rows[t].phase = "verified"

\* Once the port was stopped, by cancel, close, a denial or an error, this
\* execution sends nothing any more, also if the denial is taken back.
NothingSentAfterStop == [][~portStopped /\ ~blockClosed]_placed
=============================================================================
