--------------------------- MODULE WorldWorkProofs ---------------------------
(***************************************************************************)
(* Proofs about the process in which placements, journeys and read-only    *)
(* work share one state store, for any tasks, ticks and number of faults.  *)
(***************************************************************************)
EXTENDS WorldWork, StateCommandsProofs

USE NoValueAssumption DEF NoValueAssumption

----------------------------------------------------------------------------
(* What the operations do to the task of the store                         *)

\* States of a task that is under way.
Unfinished == {"preparing", "running", "paused"}

\* Taking up work makes the task the worker's own, in an idle store.
LEMMA PreparedFacts ==
  ASSUME NEW s, Consistent(s), s.task.state = "idle", NEW t \in STRING
  PROVE  /\ Consistent(Prepared(s, t))
         /\ Prepared(s, t).task.id = t
         /\ Prepared(s, t).task.state = "running"
  <1> DEFINE c == [type |-> "task.prepare", id |-> t]
             d == [type |-> "task.transition", to |-> "running"]
             u == After(s, c)
  <1>1. c \in Dispatched /\ Accepts(s, c)
    BY DEF Dispatched, Command, Accepts, TaskNext
  <1>2. Consistent(u)
    BY <1>1, CommandsKeepConsistent
  <1>3. u = [s EXCEPT !.task = Prepare(t)]
    BY DEF After, TaskCommand, MinecraftCommand, TaskAfter
  <1> HIDE DEF u
  <1>4. u.task = Prepare(t) /\ u.task.state = "preparing" /\ u.task.id = t
    BY <1>3 DEF Consistent, Snapshot, Prepare
  <1>5. d \in Dispatched /\ Accepts(u, d)
    BY <1>4 DEF Dispatched, Command, Accepts, TaskNext, TaskState
  <1>6. Consistent(After(u, d))
    BY <1>2, <1>5, CommandsKeepConsistent
  <1>7. After(u, d) = [u EXCEPT !.task = Transition(u.task, "running")]
    BY DEF After, TaskCommand, MinecraftCommand, TaskAfter
  <1>8. /\ After(u, d).task = Transition(u.task, "running")
        /\ u.task \in TaskProgress
    BY <1>2, <1>7 DEF Consistent, Snapshot
  <1>9. After(u, d).task.id = t /\ After(u, d).task.state = "running"
    BY <1>4, <1>8 DEF Transition, TaskProgress
  <1> QED
    BY <1>6, <1>9 DEF Prepared, u

\* #finalize ends the caller's own unfinished task and no other.
LEMMA FinalizedFacts ==
  ASSUME NEW s, Consistent(s), NEW t, NEW o \in Outcome,
         o = "completed" => s.task.id # t \/ s.task.state \notin {"preparing", "paused"}
  PROVE  LET r == Finalized(s, t, o) IN
         /\ Consistent(r)
         /\ r.task.id = s.task.id
         /\ IF s.task.id = t /\ s.task.state \in Unfinished
            THEN r.task.state = o ELSE r = s
  <1> DEFINE c == [type |-> "task.transition", to |-> o]
  <1>1. CASE s.task.id = t /\ s.task.state \in Unfinished
    <2>1. Finalized(s, t, o) = After(s, c)
      BY <1>1 DEF Finalized, Unfinished
    <2>2. c \in Dispatched
      BY DEF Dispatched, Command, Outcome, TaskState
    <2>3. Accepts(s, c)
      BY <1>1 DEF Accepts, TaskNext, Unfinished, Outcome
    <2>4. After(s, c) = [s EXCEPT !.task = Transition(s.task, o)]
      BY DEF After, TaskCommand, MinecraftCommand, TaskAfter
    <2>5. After(s, c).task = Transition(s.task, o) /\ s.task \in TaskProgress
      BY <2>4 DEF Consistent, Snapshot
    <2>6. After(s, c).task.id = s.task.id /\ After(s, c).task.state = o
      BY <2>5 DEF Transition, TaskProgress
    <2> QED
      BY <1>1, <2>1, <2>2, <2>3, <2>6, CommandsKeepConsistent
  <1>2. CASE ~(s.task.id = t /\ s.task.state \in Unfinished)
    BY <1>2 DEF Finalized, Unfinished
  <1> QED
    BY <1>1, <1>2

\* What the supervisor dispatches leaves the task alone.
LEMMA RuntimeFacts ==
  ASSUME NEW s, Consistent(s), NEW c \in RuntimeCommands, Accepts(s, c)
  PROVE  Consistent(After(s, c)) /\ After(s, c).task = s.task
  <1>1. c \in Dispatched /\ c.type \notin TaskCommand /\ c \in Command
    BY ProcessAssumption DEF Dispatched, ProcessAssumption
  <1>2. After(s, c).task = s.task
    <2>1. CASE c.type \in MinecraftCommand
      <3>1. After(s, c) = [s EXCEPT !.minecraft = MinecraftAfter(s.minecraft, c)]
        BY <2>1 DEF After, MinecraftCommand, TaskCommand
      <3> QED
        BY <3>1 DEF Consistent, Snapshot
    <2>2. CASE c.type \notin MinecraftCommand
      BY <1>1, <2>2
         DEF After, Detection, Consistent, Snapshot, Command, MinecraftCommand,
         TaskCommand
    <2> QED
      BY <2>1, <2>2
  <1> QED
    BY <1>1, <1>2, CommandsKeepConsistent

\* A share of a whole is a percentage.
LEMMA Percentage ==
  ASSUME NEW n \in Nat, NEW k \in 1..n
  PROVE  (100 * k) \div n \in 0..100
  <1>1. 100 * k <= 100 * n /\ n > 0 /\ 100 * k >= 0
    OBVIOUS
  <1> DEFINE q == (100 * k) \div n
             r == (100 * k) % n
  <1>2. q \in Int /\ r \in 0..(n - 1) /\ 100 * k = n * q + r
    BY <1>1
  <1> HIDE DEF q, r
  <1>3. q >= 0
    BY <1>1, <1>2
  <1>4. q <= 100
    BY <1>1, <1>2
  <1> QED
    BY <1>2, <1>3, <1>4 DEF q

----------------------------------------------------------------------------
(* What a request does to the rows                                         *)

ContextOK == rows \in [Tasks -> Row] /\ faults \in 0..MaxFaults

\* A row is replaced, by a request that was accepted, or it is not.
LEMMA RequestFacts ==
  ASSUME ContextOK, NEW t \in Tasks, NEW new \in Row,
         NEW accepted \in BOOLEAN, NEW ok \in BOOLEAN,
         Request(t, accepted, new, ok)
  PROVE  /\ ContextOK'
         /\ rows' = rows \/ (accepted /\ rows' = [rows EXCEPT ![t] = new])
         /\ ok => accepted /\ rows' = [rows EXCEPT ![t] = new]
         /\ faults' = 0 => faults = 0 /\ (accepted <=> ok)
  BY WorkAssumption DEF ContextOK, Request, Fault, WorkAssumption

LEMMA FinishFacts ==
  ASSUME ContextOK, NEW t \in Tasks, NEW o \in Outcome, NEW ok \in BOOLEAN,
         FinishRow(t, o, ok)
  PROVE  /\ ContextOK'
         /\ \/ rows' = rows
            \/ /\ rows[t].status = "claimed"
               /\ rows' = [rows EXCEPT ![t].status = o]
         /\ faults' = 0 => faults = 0
         /\ faults' = 0 /\ rows[t].status = "claimed" =>
              rows' = [rows EXCEPT ![t].status = o]
  <1> DEFINE new == [rows[t] EXCEPT !.status = o]
             acc == rows[t].status = "claimed"
  <1>1. new \in Row /\ acc \in BOOLEAN
    BY DEF ContextOK, Row, Outcome
  <1>2. Request(t, acc, new, ok)
    BY DEF FinishRow
  <1>3. [rows EXCEPT ![t].status = o] = [rows EXCEPT ![t] = new]
    BY DEF ContextOK
  <1> HIDE DEF new, acc
  <1>4. /\ ContextOK'
        /\ rows' = rows \/ (acc /\ rows' = [rows EXCEPT ![t] = new])
        /\ ok => acc /\ rows' = [rows EXCEPT ![t] = new]
        /\ faults' = 0 => faults = 0 /\ (acc <=> ok)
    BY <1>1, <1>2, RequestFacts
  <1> QED
    BY <1>3, <1>4 DEF acc

LEMMA MarkFacts ==
  ASSUME ContextOK, NEW t \in Tasks, NEW ok \in BOOLEAN,
         NEW from, NEW to \in {"delivery_started", "verified"},
         MarkRow(t, from, to, ok)
  PROVE  /\ ContextOK'
         /\ \/ rows' = rows
            \/ /\ rows[t].status = "claimed"
               /\ rows' = [rows EXCEPT ![t].phase = to]
         /\ ok => /\ rows[t].phase = from
                  /\ rows' = [rows EXCEPT ![t].phase = to]
         /\ faults' = 0 => faults = 0
  <1> DEFINE new == [rows[t] EXCEPT !.phase = to]
             acc == rows[t].status = "claimed" /\ rows[t].phase = from
  <1>1. new \in Row /\ acc \in BOOLEAN
    BY DEF ContextOK, Row
  <1>2. Request(t, acc, new, ok)
    BY DEF MarkRow
  <1>3. [rows EXCEPT ![t].phase = to] = [rows EXCEPT ![t] = new]
    BY DEF ContextOK
  <1> HIDE DEF new, acc
  <1>4. /\ ContextOK'
        /\ rows' = rows \/ (acc /\ rows' = [rows EXCEPT ![t] = new])
        /\ ok => acc /\ rows' = [rows EXCEPT ![t] = new]
        /\ faults' = 0 => faults = 0 /\ (acc <=> ok)
    BY <1>1, <1>2, RequestFacts
  <1> QED
    BY <1>3, <1>4 DEF acc

----------------------------------------------------------------------------
(* Types, and the one task of the store                                    *)

Owns(s, t) == s.task.id = t /\ s.task.state = "running"

Placing == {"marking", "sending", "placing", "observing_after", "verifying"}
Walking == {"stepping", "sending", "moving"}

\* OneWorker and the types are inductive together: a worker ends its own task
\* only, and takes one only when the store is idle, hence owned by nobody.
WorkerInv ==
  /\ Consistent(snapshot)
  /\ ContextOK
  /\ BlockTypeOK
  /\ MoveTypeOK
  /\ reading \in BOOLEAN
  /\ movePc \in Walking => done < Len(plan)
  /\ movePc \in {"idle", "finding"} => done = 0
  /\ blockPc \in Placing => Owns(snapshot, blockTask)
  /\ movePc \in Walking => Owns(snapshot, moveTask)
  /\ reading => Owns(snapshot, ReadTask)

LEMMA Distinct ==
  ASSUME BlockTypeOK, MoveTypeOK
  PROVE  /\ blockPc # "idle" => /\ blockTask \in PlaceTasks /\ blockTask \in Tasks
                               /\ blockTask \in STRING /\ blockTask # ReadTask
                               /\ blockTask # moveTask
         /\ movePc # "idle" => /\ moveTask \in MoveTasks /\ moveTask \in Tasks
                              /\ moveTask \in STRING /\ moveTask # ReadTask
                              /\ moveTask # blockTask
  BY WorkAssumption, ProcessAssumption
     DEF BlockTypeOK, MoveTypeOK, WorkAssumption, ProcessAssumption, Tasks, Optional

LEMMA SpawnedConsistent == Consistent(Spawned)
  <1> DEFINE m == [connection |-> "spawned", spawned |-> TRUE,
                   telemetry |-> "valid", place |-> Line[1],
                   health |-> 20, hunger |-> 20, other |-> FALSE]
  <1>1. Line[1] \in STRING
    BY MovementAssumption DEF MovementAssumption
  <1>2. m \in MinecraftState /\ MinecraftOK(m) /\ ~m.other
    BY <1>1 DEF MinecraftState, MinecraftOK, Optional, ConnectionState,
       TelemetryStatus
  <1>3. IdleTask \in TaskProgress /\ TaskOK(IdleTask)
    BY DEF IdleTask, TaskProgress, TaskOK, Optional, TaskState, TerminalTask
  <1>4. Spawned = [InitialSnapshot EXCEPT !.runtime = "ready", !.minecraft = m]
    BY DEF Spawned
  <1> HIDE DEF m
  <1> QED
    BY <1>2, <1>3, <1>4
       DEF InitialSnapshot, Snapshot, Consistent, Optional, RuntimeState

LEMMA WorkerInit == Init => WorkerInv
  <1> SUFFICES ASSUME Init PROVE WorkerInv
    OBVIOUS
  <1>1. Consistent(snapshot)
    BY SpawnedConsistent DEF Init
  <1>2. ContextOK
    BY WorkAssumption DEF Init, ContextInit, ContextOK, Row, WorkAssumption
  <1>3. BlockTypeOK
    BY DEF Init, BlockInit, BlockTypeOK, Optional, Outcome, Calling
  <1>4. MoveTypeOK
    <2>1. plan \in Seq(Places) /\ done \in 0..Len(plan)
      BY DEF Init, MoveInit
    <2>2. /\ movePc = "idle" /\ moveTask = NoValue /\ moveAborted = FALSE
          /\ moveAnswer = "none" /\ moveOutcome = "failed"
          /\ moveClosed = FALSE /\ owner = NoValue /\ lastTick = NoTick
      BY DEF Init, MoveInit
    <2> QED
      BY <2>1, <2>2 DEF MoveTypeOK, Optional, Outcome
  <1> QED
    BY <1>1, <1>2, <1>3, <1>4 DEF Init, BlockInit, MoveInit, WorkerInv, Placing, Walking

\* A change of the store by the worker of t leaves the task of another alone.
SparesOthers(t) ==
  \A u : u # t /\ Owns(snapshot, u) => Owns(snapshot', u)

LEMMA FinalizedSpares ==
  ASSUME Consistent(snapshot), NEW t, NEW o \in Outcome,
         o = "completed" => Owns(snapshot, t),
         snapshot' = Finalized(snapshot, t, o)
  PROVE  Consistent(snapshot') /\ SparesOthers(t)
  <1>1. o = "completed" => snapshot.task.state \notin {"preparing", "paused"}
    BY DEF Owns
  <1>2. LET r == Finalized(snapshot, t, o) IN
        /\ Consistent(r)
        /\ r.task.id = snapshot.task.id
        /\ IF snapshot.task.id = t /\ snapshot.task.state \in Unfinished
           THEN r.task.state = o ELSE r = snapshot
    BY <1>1, FinalizedFacts
  <1> QED
    BY <1>2 DEF SparesOthers, Owns

LEMMA PreparedSpares ==
  ASSUME Consistent(snapshot), snapshot.task.state = "idle", NEW t \in STRING,
         snapshot' = Prepared(snapshot, t)
  PROVE  Consistent(snapshot') /\ SparesOthers(t) /\ Owns(snapshot', t)
  BY PreparedFacts DEF SparesOthers, Owns

(* Placements.  Whatever a step of the coordinator does, what it must keep. *)
BlockKept ==
  /\ Consistent(snapshot')
  /\ ContextOK'
  /\ BlockTypeOK'
  /\ blockPc' \in Placing => Owns(snapshot', blockTask')
  /\ SparesOthers(blockTask)

LEMMA BlockFinalizes ==
  ASSUME WorkerInv, BlockActive, NEW o \in Outcome, FinalizeBlock(o),
         o = "completed" => blockPc \in Placing,
         portStopped' \in BOOLEAN, UNCHANGED <<blockClosed, world, placed>>,
         ContextOK'
  PROVE  BlockKept
  <1>1. Consistent(snapshot') /\ SparesOthers(blockTask)
    BY FinalizedSpares DEF WorkerInv, FinalizeBlock
  <1>2. BlockTypeOK'
    BY DEF WorkerInv, BlockActive, FinalizeBlock, Notify, BlockTypeOK, Optional
  <1>3. blockPc' \notin Placing
    BY DEF FinalizeBlock, Placing
  <1> QED
    BY <1>1, <1>2, <1>3 DEF BlockKept

LEMMA BlockGoesOn ==
  ASSUME WorkerInv, BlockActive,
         NEW pc \in Calling \cup {"sending", "verifying"}, GoOn(pc),
         pc \in Placing => blockPc \in Placing,
         UNCHANGED <<blockClosed, world>>, placed' \in [PlaceTasks -> Nat],
         ContextOK'
  PROVE  BlockKept
  <1>1. BlockTypeOK'
    BY DEF WorkerInv, BlockActive, GoOn, BlockTypeOK, Calling
  <1> QED
    BY <1>1 DEF WorkerInv, GoOn, BlockKept, SparesOthers

LEMMA BlockReturns ==
  ASSUME WorkerInv, ReturnFromBlock,
         UNCHANGED <<snapshot, blockClosed, world, placed>>, ContextOK'
  PROVE  BlockKept
  <1>1. BlockTypeOK'
    BY DEF WorkerInv, ReturnFromBlock, BlockTypeOK, Optional, Outcome
  <1> QED
    BY <1>1 DEF WorkerInv, ReturnFromBlock, BlockKept, SparesOthers, Placing

\* A step that leaves the store, the rows and the place of the execution alone.
LEMMA BlockStays ==
  ASSUME WorkerInv, UNCHANGED <<snapshot, rows, faults, blockPc, blockTask>>,
         BlockTypeOK'
  PROVE  BlockKept
  BY DEF WorkerInv, ContextOK, BlockKept, SparesOthers

LEMMA BlockTaskKnown ==
  ASSUME WorkerInv, BlockActive
  PROVE  blockTask \in PlaceTasks /\ blockTask \in Tasks /\ blockTask \in STRING
  BY Distinct DEF WorkerInv, BlockActive

LEMMA SameContext ==
  ASSUME WorkerInv, (UNCHANGED rows /\ Fault) \/ UNCHANGED <<rows, faults>>
  PROVE  ContextOK'
  BY WorkAssumption DEF WorkerInv, ContextOK, Fault, WorkAssumption

LEMMA BlockFoundKept == ASSUME WorkerInv, BlockFound PROVE BlockKept
  <1>1. BlockActive /\ UNCHANGED <<blockClosed, world, placed>>
    BY DEF BlockFound, Waits, BlockActive
  <1>2. ContextOK'
    BY SameContext DEF BlockFound, ReadFails
  <1>3. placed' \in [PlaceTasks -> Nat] /\ portStopped \in BOOLEAN
    BY <1>1 DEF WorkerInv, BlockTypeOK
  <1>4. \/ ReturnFromBlock /\ UNCHANGED snapshot
        \/ \E o \in {"failed", "stopped"} :
             FinalizeBlock(o) /\ portStopped' \in BOOLEAN
        \/ GoOn("observing_target")
    BY <1>3 DEF BlockFound, StopAndFinalize
  <1>5. CASE ReturnFromBlock /\ UNCHANGED snapshot
    BY <1>1, <1>2, <1>5, BlockReturns
  <1>6. ASSUME NEW o \in {"failed", "stopped"}, FinalizeBlock(o), portStopped' \in BOOLEAN
        PROVE  BlockKept
    BY <1>1, <1>2, <1>6, BlockFinalizes DEF Outcome
  <1>7. CASE GoOn("observing_target")
    BY <1>1, <1>2, <1>3, <1>7, BlockGoesOn DEF Calling, Placing
  <1> QED
    BY <1>4, <1>5, <1>6, <1>7

\* The steps that ask nobody: they go on, or they end.
LEMMA QuietStepKept ==
  ASSUME WorkerInv,
         PortFailed \/ TargetObserved \/ Place \/ PlaceAnswered \/ ResultObserved
  PROVE  BlockKept
  <1>1. BlockActive /\ UNCHANGED <<rows, faults, blockClosed, world>>
    BY DEF PortFailed, TargetObserved, Place, PlaceAnswered, ResultObserved, Waits,
       BlockActive, Calling
  <1>2. ContextOK' /\ blockTask \in PlaceTasks
    BY <1>1, SameContext, BlockTaskKnown
  <1>3. portStopped \in BOOLEAN /\ placed \in [PlaceTasks -> Nat]
    BY DEF WorkerInv, BlockTypeOK
  <1>4. placed' \in [PlaceTasks -> Nat]
    <2>1. \/ UNCHANGED placed
          \/ placed' = [placed EXCEPT ![blockTask] = @ + 1]
      BY DEF PortFailed, TargetObserved, Place, PlaceAnswered, ResultObserved
    <2>2. placed[blockTask] + 1 \in Nat
      BY <1>2, <1>3
    <2> QED
      BY <1>2, <1>3, <2>1, <2>2
  <1>5. \/ \E o \in {"failed", "stopped"} :
             FinalizeBlock(o) /\ portStopped' \in BOOLEAN /\ UNCHANGED placed
        \/ GoOn("observing_support")
        \/ \E pc \in {"placing", "observing_after", "verifying"} :
             GoOn(pc) /\ blockPc \in Placing
    BY <1>3 DEF PortFailed, TargetObserved, Place, PlaceAnswered, ResultObserved,
       StopAndFinalize, Waits, Placing
  <1>6. ASSUME NEW o \in {"failed", "stopped"}, FinalizeBlock(o),
               portStopped' \in BOOLEAN, UNCHANGED placed
        PROVE  BlockKept
    BY <1>1, <1>2, <1>6, BlockFinalizes DEF Outcome
  <1>7. CASE GoOn("observing_support")
    BY <1>1, <1>2, <1>4, <1>7, BlockGoesOn DEF Calling, Placing
  <1>8. ASSUME NEW pc \in {"placing", "observing_after", "verifying"}, GoOn(pc),
               blockPc \in Placing
        PROVE  BlockKept
    BY <1>1, <1>2, <1>4, <1>8, BlockGoesOn DEF Calling
  <1> QED
    BY <1>5, <1>6, <1>7, <1>8

LEMMA SupportObservedKept == ASSUME WorkerInv, SupportObserved PROVE BlockKept
  <1>1. BlockActive /\ UNCHANGED <<rows, faults, blockClosed, world, placed>>
    BY DEF SupportObserved, Waits, BlockActive
  <1>2. ContextOK' /\ blockTask \in STRING /\ portStopped \in BOOLEAN
    BY <1>1, SameContext, BlockTaskKnown DEF WorkerInv, BlockTypeOK
  <1>3. \/ \E o \in {"failed", "stopped"} :
             FinalizeBlock(o) /\ portStopped' \in BOOLEAN
        \/ /\ snapshot.task.state = "idle"
           /\ snapshot' = Prepared(snapshot, blockTask)
           /\ blockPc' = "marking" /\ blockAnswer' = "none"
           /\ UNCHANGED <<blockTask, blockAborted, blockNotified, blockOutcome,
                          portStopped>>
    BY <1>2 DEF SupportObserved, StopAndFinalize
  <1>4. ASSUME NEW o \in {"failed", "stopped"}, FinalizeBlock(o), portStopped' \in BOOLEAN
        PROVE  BlockKept
    BY <1>1, <1>2, <1>4, BlockFinalizes DEF Outcome
  <1>5. CASE /\ snapshot.task.state = "idle"
             /\ snapshot' = Prepared(snapshot, blockTask)
             /\ blockPc' = "marking" /\ blockAnswer' = "none"
             /\ UNCHANGED <<blockTask, blockAborted, blockNotified, blockOutcome,
                            portStopped>>
    <2>1. Consistent(snapshot') /\ SparesOthers(blockTask) /\ Owns(snapshot', blockTask)
      BY <1>2, <1>5, PreparedSpares DEF WorkerInv
    <2>2. BlockTypeOK'
      BY <1>1, <1>5 DEF WorkerInv, BlockActive, BlockTypeOK
    <2> QED
      BY <1>2, <1>5, <2>1, <2>2 DEF BlockKept
  <1> QED
    BY <1>3, <1>4, <1>5

LEMMA RequestStepKept ==
  ASSUME WorkerInv, DeliveryMarked \/ Verified
  PROVE  BlockKept
  <1>1. /\ BlockActive /\ blockPc \in Placing
        /\ UNCHANGED <<blockClosed, world, placed>>
    BY DEF DeliveryMarked, Verified, Waits, BlockActive, Placing
  <1>2. blockTask \in Tasks
    BY <1>1, BlockTaskKnown
  <1>3. PICK ok \in BOOLEAN :
          /\ \/ MarkRow(blockTask, "not_started", "delivery_started", ok)
             \/ MarkRow(blockTask, "delivery_started", "verified", ok)
          /\ \/ GoOn("sending")
             \/ StopAndFinalize("failed")
             \/ FinalizeBlock("completed") /\ UNCHANGED portStopped
    BY DEF DeliveryMarked, Verified, AfterMark
  <1>4. ContextOK'
    BY <1>2, <1>3, MarkFacts DEF WorkerInv
  <1>5. placed' \in [PlaceTasks -> Nat] /\ portStopped \in BOOLEAN
    BY <1>1 DEF WorkerInv, BlockTypeOK
  <1>6. CASE GoOn("sending")
    BY <1>1, <1>4, <1>5, <1>6, BlockGoesOn
  <1>7. CASE StopAndFinalize("failed")
    BY <1>1, <1>4, <1>7, BlockFinalizes DEF Outcome, StopAndFinalize
  <1>8. CASE FinalizeBlock("completed") /\ UNCHANGED portStopped
    BY <1>1, <1>4, <1>5, <1>8, BlockFinalizes DEF Outcome
  <1> QED
    BY <1>3, <1>6, <1>7, <1>8

LEMMA BlockFinalizedKept == ASSUME WorkerInv, BlockFinalized PROVE BlockKept
  <1>1. BlockActive /\ blockOutcome \in Outcome
    BY DEF BlockFinalized, Waits, BlockActive, WorkerInv, BlockTypeOK
  <1>2. ContextOK'
    BY <1>1, BlockTaskKnown, FinishFacts DEF BlockFinalized, WorkerInv
  <1> QED
    BY <1>2, BlockReturns DEF BlockFinalized

LEMMA BlockInputKept ==
  ASSUME WorkerInv,
         \/ \E t \in PlaceTasks : ExecuteBlock(t) \/ WorldChanges(t)
         \/ StoreNotified \/ CancelBlock \/ CloseBlock \/ PortSettles
  PROVE  BlockKept
  <1>1. ASSUME NEW t \in PlaceTasks, ExecuteBlock(t)
        PROVE  BlockKept
    <2>1. BlockTypeOK'
      BY <1>1, NoValueAssumption, WorkAssumption
         DEF WorkerInv, ExecuteBlock, BlockTypeOK, Optional, WorkAssumption
    <2>2. ContextOK' /\ blockPc' = "finding"
      BY <1>1, SameContext DEF ExecuteBlock
    <2> QED
      BY <1>1, <2>1, <2>2 DEF WorkerInv, ExecuteBlock, BlockKept, SparesOthers, Placing
  <1>2. ASSUME NEW t \in PlaceTasks, WorldChanges(t)
        PROVE  BlockKept
    BY <1>2, BlockStays DEF WorkerInv, WorldChanges, BlockTypeOK, blockMemory
  <1>3. CASE StoreNotified
    BY <1>3, BlockStays, Zenon
       DEF WorkerInv, StoreNotified, AbortExecution, BlockTypeOK
  <1>4. CASE CancelBlock
    BY <1>4, BlockStays DEF WorkerInv, CancelBlock, BlockTypeOK
  <1>5. CASE CloseBlock
    BY <1>5, BlockStays DEF WorkerInv, CloseBlock, BlockTypeOK, BlockActive
  <1>6. CASE PortSettles
    <2>1. blockTask \in PlaceTasks
      BY <1>6, BlockTaskKnown DEF PortSettles, BlockActive, Calling
    <2>2. world[blockTask] \in {"air", "dirt"}
      BY <2>1 DEF WorkerInv, BlockTypeOK
    <2>3. blockAnswer' \in {"error", "done", "air", "dirt", "solid_other", "elsewhere"}
      BY <1>6, <2>2 DEF PortSettles
    <2> QED
      BY <1>6, <2>3, BlockStays DEF WorkerInv, PortSettles, BlockTypeOK
  <1> QED
    BY <1>1, <1>2, <1>3, <1>4, <1>5, <1>6

LEMMA BlockKeeps == ASSUME WorkerInv, BlockNext PROVE BlockKept
  BY BlockFoundKept, QuietStepKept, SupportObservedKept, RequestStepKept,
     BlockFinalizedKept, BlockInputKept
     DEF BlockNext, BlockSteps

LEMMA BlockStep ==
  ASSUME WorkerInv, BlockNext, UNCHANGED <<moveVars, reading>>
  PROVE  WorkerInv'
  <1>1. BlockKept
    BY BlockKeeps
  <1>2. /\ movePc # "idle" => blockTask # moveTask
        /\ blockPc # "idle" => blockTask # ReadTask
    BY Distinct DEF WorkerInv
  <1>3. reading => blockTask # ReadTask
    <2>1. ~Owns(snapshot, NoValue)
      BY DEF WorkerInv, Consistent, TaskOK, Owns
    <2>2. blockPc = "idle" => blockTask = NoValue
      BY DEF WorkerInv, BlockTypeOK
    <2> QED
      BY <1>2, <2>1, <2>2 DEF WorkerInv
  <1>4. MoveTypeOK' /\ UNCHANGED <<movePc, moveTask, done, plan, reading>>
    BY DEF WorkerInv, MoveTypeOK, moveVars, moveMemory, streamVars
  <1> QED
    BY <1>1, <1>2, <1>3, <1>4 DEF WorkerInv, BlockKept, SparesOthers, Walking

(* Journeys. *)
StreamOK ==
  /\ moveClosed \in BOOLEAN
  /\ owner \in Optional(Tick)
  /\ lastTick \in Tick \cup {NoTick}

MoveKept ==
  /\ Consistent(snapshot')
  /\ ContextOK'
  /\ MoveTypeOK'
  /\ movePc' \in Walking => done' < Len(plan') /\ Owns(snapshot', moveTask')
  /\ movePc' \in {"idle", "finding"} => done' = 0
  /\ SparesOthers(moveTask)

LEMMA DistanceFacts ==
  ASSUME NEW from \in Places, NEW to \in Places
  PROVE  /\ Index(from) \in DOMAIN Line /\ Index(to) \in DOMAIN Line
         /\ Distance(from, to) \in Nat
  <1>1. \A x \in Places : Index(x) \in DOMAIN Line
    BY DEF Places, Index
  <1>2. DOMAIN Line \subseteq Int
    BY MovementAssumption DEF MovementAssumption
  <1> QED
    BY <1>1, <1>2 DEF Distance

\* Every step of a plan leads to a place of the line.
LEMMA PlanFacts ==
  ASSUME NEW from \in Places, NEW to \in Places
  PROVE  Plan(from, to) \in Seq(Places)
  <1> DEFINE i == Index(from)
             j == Index(to)
             d == Distance(from, to)
             n == Len(Line)
  <1>1. i \in 1..n /\ j \in 1..n /\ n \in Nat /\ d \in Nat
    BY DistanceFacts, MovementAssumption DEF MovementAssumption
  <1>2. d = IF j - i < 0 THEN -(j - i) ELSE j - i
    BY DEF Distance
  <1> HIDE DEF i, j, d, n
  <1>3. \A k \in 1..d : (IF i < j THEN i + k ELSE i - k) \in 1..n
    BY <1>1, <1>2
  <1>4. \A m \in 1..n : Line[m] \in Places
    BY MovementAssumption DEF Places, n, MovementAssumption
  <1>5. \A k \in 1..d : Line[IF i < j THEN i + k ELSE i - k] \in Places
    BY <1>3, <1>4
  <1>6. [k \in 1..d |-> Line[IF i < j THEN i + k ELSE i - k]] \in Seq(Places)
    BY <1>1, <1>5
  <1> QED
    BY <1>6 DEF Plan, i, j, d

\* The observation of a step leaves the task running.
LEMMA AdvancedFacts ==
  ASSUME NEW s, Consistent(s), NEW t, Owns(s, t), NEW place \in STRING,
         Len(plan) \in Nat, NEW steps \in 1..Len(plan)
  PROVE  Consistent(Advanced(s, place, steps)) /\ Owns(Advanced(s, place, steps), t)
  <1> DEFINE r == [place |-> place, health |-> NoValue, hunger |-> NoValue]
             c == [type |-> "minecraft.telemetry.update", telemetry |-> r]
             p == (100 * steps) \div Len(plan)
             d == [type |-> "task.progress.update", progress |-> p]
             u == After(s, c)
  <1>1. c \in Dispatched
    <2>1. r \in Telemetry
      BY DEF Telemetry, Optional
    <2> HIDE DEF r
    <2> QED
      BY <2>1 DEF Dispatched, Command
  <1>2. Accepts(s, c)
    BY DEF Accepts
  <1>3. Consistent(u)
    BY <1>1, <1>2, CommandsKeepConsistent
  <1>4. u.task = s.task
    <2>1. u = [s EXCEPT !.minecraft = MinecraftAfter(s.minecraft, c)]
      BY DEF After, MinecraftCommand, TaskCommand
    <2> QED
      BY <2>1 DEF Consistent, Snapshot
  <1> HIDE DEF u
  <1>5. p \in 0..100
    BY Percentage
  <1> HIDE DEF p
  <1>6. d \in Dispatched /\ Accepts(u, d)
    <2>1. p \in Int
      BY <1>5
    <2>2. d \in Dispatched
      BY <2>1 DEF Dispatched, Command
    <2> QED
      BY <1>4, <1>5, <2>2 DEF Accepts, AcceptsProgress, Owns
  <1>7. Consistent(After(u, d))
    BY <1>3, <1>6, CommandsKeepConsistent
  <1>8. After(u, d) = [u EXCEPT !.task = [u.task EXCEPT !.progress = p]]
    BY DEF After, TaskCommand, MinecraftCommand, TaskAfter
  <1>9. Owns(After(u, d), t)
    BY <1>3, <1>4, <1>8 DEF Owns, Consistent, Snapshot, TaskProgress
  <1> QED
    BY <1>7, <1>9 DEF Advanced, u, p

LEMMA MoveFinalizes ==
  ASSUME WorkerInv, MoveActive, NEW s, Consistent(s), NEW o \in Outcome,
         FinalizeMove(s, o), o = "completed" => Owns(s, moveTask),
         \A u : u # moveTask /\ Owns(snapshot, u) => Owns(s, u),
         StreamOK', ContextOK'
  PROVE  MoveKept
  <1>1. o = "completed" => s.task.state \notin {"preparing", "paused"}
    BY DEF Owns
  <1>2. LET r == Finalized(s, moveTask, o) IN
        /\ Consistent(r)
        /\ r.task.id = s.task.id
        /\ IF s.task.id = moveTask /\ s.task.state \in Unfinished
           THEN r.task.state = o ELSE r = s
    BY <1>1, FinalizedFacts
  <1>3. Consistent(snapshot') /\ SparesOthers(moveTask)
    BY <1>2 DEF FinalizeMove, SparesOthers, Owns
  <1>4. MoveTypeOK'
    BY DEF WorkerInv, MoveActive, FinalizeMove, MoveTypeOK, StreamOK
  <1>5. movePc' \notin Walking \cup {"idle", "finding"}
    BY DEF FinalizeMove, Walking
  <1> QED
    BY <1>3, <1>4, <1>5 DEF MoveKept

LEMMA MoveEnds ==
  ASSUME WorkerInv, MoveReturns, UNCHANGED snapshot, StreamOK', ContextOK'
  PROVE  MoveKept
  <1>1. MoveTypeOK'
    <2>1. plan' \in Seq(Places) /\ done' \in 0..Len(plan')
      BY DEF MoveReturns
    <2>2. /\ movePc' = "idle" /\ moveTask' = NoValue /\ moveAborted' = FALSE
          /\ moveAnswer' = "none" /\ moveOutcome' = "failed"
      BY DEF MoveReturns
    <2> QED
      BY <2>1, <2>2 DEF MoveTypeOK, Optional, Outcome, StreamOK
  <1> QED
    BY <1>1 DEF WorkerInv, MoveReturns, MoveKept, SparesOthers, Walking

\* A step that leaves the store, the rows and the place of the execution alone.
LEMMA MoveStays ==
  ASSUME WorkerInv, MoveTypeOK',
         UNCHANGED <<snapshot, rows, faults, movePc, moveTask, done, plan>>
  PROVE  MoveKept
  BY DEF WorkerInv, ContextOK, MoveKept, SparesOthers

LEMMA StreamTypes ==
  ASSUME WorkerInv, CloseStream \/ UNCHANGED streamVars
  PROVE  StreamOK'
  BY DEF WorkerInv, MoveTypeOK, StreamOK, CloseStream, streamVars, Optional

LEMMA MoveTaskKnown ==
  ASSUME WorkerInv, MoveActive
  PROVE  /\ moveTask \in MoveTasks /\ moveTask \in Tasks /\ moveTask \in STRING
         /\ Target[moveTask] \in Places
  BY Distinct, MovementAssumption DEF WorkerInv, MoveActive, MovementAssumption, Places

\* The store may be the one the step makes: s is prepared, or has advanced.
LEMMA Arrives ==
  ASSUME WorkerInv, MoveActive, NEW s, Consistent(s), Owns(s, moveTask),
         \A u : u # moveTask => ~Owns(snapshot, u),
         Arrive(s), ContextOK'
  PROVE  MoveKept
  <1>1. PICK o \in {"stopped", "completed"} :
          FinalizeMove(s, o) /\ (CloseStream \/ UNCHANGED streamVars)
    BY DEF Arrive, StopAndFinalizeMove
  <1>2. StreamOK'
    BY <1>1, StreamTypes
  <1> QED
    BY <1>1, <1>2, MoveFinalizes DEF Outcome

LEMMA MoveFoundKept == ASSUME WorkerInv, MoveFound PROVE MoveKept
  <1> DEFINE steps == Plan(snapshot.minecraft.place, Target[moveTask])
  <1>1. MoveActive
    BY DEF MoveFound, MoveActive
  <1>2. ContextOK'
    BY SameContext DEF MoveFound, ReadFails
  <1>3. \/ MoveReturns /\ UNCHANGED <<snapshot, streamVars>>
        \/ \E o \in {"failed", "stopped"} :
             FinalizeMove(snapshot, o) /\ (CloseStream \/ UNCHANGED streamVars)
        \/ StoreFree /\ snapshot.minecraft.place \in Places /\ Begin(steps)
    BY DEF MoveFound, StopAndFinalizeMove, CanPlan
  <1>4. CASE MoveReturns /\ UNCHANGED <<snapshot, streamVars>>
    BY <1>2, <1>4, StreamTypes, MoveEnds
  <1>5. ASSUME NEW o \in {"failed", "stopped"}, FinalizeMove(snapshot, o),
               CloseStream \/ UNCHANGED streamVars
        PROVE  MoveKept
    <2>1. StreamOK' /\ Consistent(snapshot)
      BY <1>5, StreamTypes DEF WorkerInv
    <2> QED
      BY <1>1, <1>2, <1>5, <2>1, MoveFinalizes DEF Outcome
  <1>6. CASE StoreFree /\ snapshot.minecraft.place \in Places /\ Begin(steps)
    <2> DEFINE q == Prepared(snapshot, moveTask)
    <2>1. steps \in Seq(Places) /\ moveTask \in STRING
      BY <1>1, <1>6, MoveTaskKnown, PlanFacts
    <2> HIDE DEF steps
    <2>2. Consistent(q) /\ Owns(q, moveTask)
      BY <1>6, <2>1, PreparedFacts DEF WorkerInv, StoreFree, Owns
    <2>3. \A u : ~Owns(snapshot, u)
      BY <1>6 DEF StoreFree, Owns
    <2> HIDE DEF q
    <2>4. CASE steps = <<>>
      BY <1>1, <1>2, <1>6, <2>2, <2>3, <2>4, Arrives DEF Begin, q
    <2>5. CASE steps # <<>>
      <3>1. /\ plan' = steps /\ snapshot' = q /\ movePc' = "stepping"
            /\ UNCHANGED <<moveTask, moveAborted, done, moveAnswer, moveOutcome,
                           streamVars>>
        BY <1>6, <2>5 DEF Begin, q
      <3>2. done = 0
        BY DEF WorkerInv, MoveFound
      <3>3. MoveTypeOK'
        BY <1>1, <2>1, <3>1, <3>2 DEF WorkerInv, MoveActive, MoveTypeOK, streamVars
      <3>4. done' < Len(plan')
        BY <2>1, <2>5, <3>1, <3>2
      <3> QED
        BY <1>2, <2>2, <2>3, <3>1, <3>3, <3>4 DEF MoveKept, SparesOthers
    <2> QED
      BY <2>4, <2>5
  <1> QED
    BY <1>3, <1>4, <1>5, <1>6

LEMMA StepKept ==
  ASSUME WorkerInv, NEW tick \in Tick \cup {NoTick}, Step(tick)
  PROVE  MoveKept
  <1>1. MoveActive /\ movePc \in Walking /\ UNCHANGED <<rows, faults>>
    BY DEF Step, MoveActive, Walking
  <1>2. ContextOK'
    BY <1>1, SameContext
  <1>3. \/ \E o \in {"failed", "stopped"} : StopAndFinalizeMove(snapshot, o)
        \/ /\ lastTick' = tick /\ movePc' = "moving"
           /\ UNCHANGED <<snapshot, moveTask, moveAborted, plan, done, moveAnswer,
                          moveOutcome, moveClosed, owner>>
    BY DEF Step, Commit
  <1>4. ASSUME NEW o \in {"failed", "stopped"}, StopAndFinalizeMove(snapshot, o)
        PROVE  MoveKept
    <2>1. StreamOK' /\ Consistent(snapshot)
      BY <1>4, StreamTypes DEF WorkerInv, StopAndFinalizeMove
    <2> QED
      BY <1>1, <1>2, <1>4, <2>1, MoveFinalizes DEF Outcome, StopAndFinalizeMove
  <1>5. CASE /\ lastTick' = tick /\ movePc' = "moving"
             /\ UNCHANGED <<snapshot, moveTask, moveAborted, plan, done, moveAnswer,
                            moveOutcome, moveClosed, owner>>
    <2>1. MoveTypeOK'
      BY <1>1, <1>5 DEF WorkerInv, MoveActive, MoveTypeOK
    <2> QED
      BY <1>1, <1>2, <1>5, <2>1 DEF WorkerInv, MoveKept, SparesOthers
  <1> QED
    BY <1>3, <1>4, <1>5

LEMMA StepAllowedKept == ASSUME WorkerInv, StepAllowed PROVE MoveKept
  <1>1. MoveActive /\ movePc \in Walking /\ UNCHANGED <<rows, faults>>
    BY DEF StepAllowed, MoveActive, Walking
  <1>2. ContextOK'
    BY <1>1, SameContext
  <1>3. CASE StopAndFinalizeMove(snapshot, "stopped")
    <2>1. StreamOK' /\ Consistent(snapshot)
      BY <1>3, StreamTypes DEF WorkerInv, StopAndFinalizeMove
    <2> QED
      BY <1>1, <1>2, <1>3, <2>1, MoveFinalizes DEF Outcome, StopAndFinalizeMove
  <1>4. CASE /\ movePc' = "sending"
             /\ UNCHANGED <<snapshot, moveTask, moveAborted, plan, done, moveAnswer,
                            moveOutcome, streamVars>>
    <2>1. MoveTypeOK'
      BY <1>1, <1>4 DEF WorkerInv, MoveActive, MoveTypeOK, streamVars
    <2> QED
      BY <1>1, <1>2, <1>4, <2>1 DEF WorkerInv, MoveKept, SparesOthers
  <1> QED
    BY <1>3, <1>4 DEF StepAllowed

LEMMA StepFailedKept == ASSUME WorkerInv, StepFailed PROVE MoveKept
  <1>1. MoveActive /\ UNCHANGED <<rows, faults>>
    BY DEF StepFailed, MoveActive
  <1>2. PICK o \in {"failed", "stopped"} : StopAndFinalizeMove(snapshot, o)
    BY DEF StepFailed
  <1>3. StreamOK' /\ Consistent(snapshot) /\ ContextOK'
    BY <1>1, <1>2, StreamTypes, SameContext DEF WorkerInv, StopAndFinalizeMove
  <1> QED
    BY <1>1, <1>2, <1>3, MoveFinalizes DEF Outcome, StopAndFinalizeMove

LEMMA StepObservedKept == ASSUME WorkerInv, StepObserved PROVE MoveKept
  <1> DEFINE next == Advanced(snapshot, moveAnswer, done + 1)
  <1>1. MoveActive /\ movePc \in Walking /\ UNCHANGED <<rows, faults>>
    BY DEF StepObserved, MoveActive, Walking
  <1>2. /\ ContextOK' /\ Consistent(snapshot) /\ Owns(snapshot, moveTask)
        /\ MoveTypeOK /\ done < Len(plan)
    BY <1>1, SameContext DEF WorkerInv
  <1>3. moveAnswer \in Places /\ Len(plan) \in Nat /\ done + 1 \in 1..Len(plan)
    BY <1>2 DEF StepObserved, MoveTypeOK
  <1>4. moveAnswer \in STRING
    BY <1>3, MovementAssumption DEF Places, MovementAssumption
  <1>5. Consistent(next) /\ Owns(next, moveTask)
    BY <1>2, <1>3, <1>4, AdvancedFacts
  <1>6. \A u : u # moveTask => ~Owns(snapshot, u)
    BY <1>2 DEF Owns
  <1>7. \/ \E o \in {"failed", "stopped"} : StopAndFinalizeMove(snapshot, o)
        \/ StopAndFinalizeMove(next, "stopped")
        \/ Arrive(next)
        \/ /\ done + 1 # Len(plan)
           /\ snapshot' = next /\ done' = done + 1 /\ movePc' = "stepping"
           /\ moveAnswer' = "none"
           /\ UNCHANGED <<moveTask, moveAborted, plan, moveOutcome, streamVars>>
    BY DEF StepObserved
  <1> HIDE DEF next
  <1>8. ASSUME NEW o \in {"failed", "stopped"}, StopAndFinalizeMove(snapshot, o)
        PROVE  MoveKept
    <2>1. StreamOK'
      BY <1>8, StreamTypes DEF StopAndFinalizeMove
    <2> QED
      BY <1>1, <1>2, <1>8, <2>1, MoveFinalizes DEF Outcome, StopAndFinalizeMove
  <1>9. CASE StopAndFinalizeMove(next, "stopped")
    <2>1. StreamOK'
      BY <1>9, StreamTypes DEF StopAndFinalizeMove
    <2> QED
      BY <1>1, <1>2, <1>5, <1>6, <1>9, <2>1, MoveFinalizes
         DEF Outcome, StopAndFinalizeMove
  <1>10. CASE Arrive(next)
    BY <1>1, <1>2, <1>5, <1>6, <1>10, Arrives
  <1>11. CASE /\ done + 1 # Len(plan)
              /\ snapshot' = next /\ done' = done + 1 /\ movePc' = "stepping"
              /\ moveAnswer' = "none"
              /\ UNCHANGED <<moveTask, moveAborted, plan, moveOutcome, streamVars>>
    <2>1. MoveTypeOK'
      BY <1>1, <1>3, <1>11 DEF WorkerInv, MoveActive, MoveTypeOK, streamVars
    <2>2. done' < Len(plan')
      BY <1>3, <1>11
    <2> QED
      BY <1>2, <1>5, <1>6, <1>11, <2>1, <2>2 DEF MoveKept, SparesOthers
  <1> QED
    BY <1>7, <1>8, <1>9, <1>10, <1>11

LEMMA MoveFinalizedKept == ASSUME WorkerInv, MoveFinalized PROVE MoveKept
  <1>1. MoveActive /\ moveOutcome \in Outcome
    BY DEF MoveFinalized, MoveActive, WorkerInv, MoveTypeOK
  <1>2. StreamOK'
    BY StreamTypes DEF MoveFinalized
  <1>3. ContextOK'
    BY <1>1, MoveTaskKnown, FinishFacts DEF MoveFinalized, WorkerInv
  <1> QED
    BY <1>2, <1>3, MoveEnds DEF MoveFinalized

LEMMA MoveInputKept ==
  ASSUME WorkerInv,
         \/ \E t \in MoveTasks : ExecuteMove(t)
         \/ CancelMove \/ ClosePort \/ StepSettles
         \/ \E tick \in Tick : PlacementAcquires(tick)
         \/ PlacementCommits \/ PlacementReleases
  PROVE  MoveKept
  <1> USE DEF MoveTypeOK, WorkerInv
  <1>1. ASSUME NEW t \in MoveTasks, ExecuteMove(t)
        PROVE  MoveKept
    <2>1. MoveTypeOK'
      BY <1>1, WorkAssumption DEF ExecuteMove, Optional, WorkAssumption, streamVars
    <2>2. ContextOK'
      BY <1>1, SameContext DEF ExecuteMove
    <2>3. movePc' = "finding" /\ done' = 0 /\ Consistent(snapshot')
      BY <1>1 DEF ExecuteMove
    <2> QED
      BY <1>1, <2>1, <2>2, <2>3 DEF ExecuteMove, MoveKept, SparesOthers, Walking
  <1>2. CASE CancelMove
    BY <1>2, MoveStays DEF CancelMove, CloseStream, Optional
  <1>3. CASE ClosePort
    BY <1>3, MoveStays DEF ClosePort, CloseStream, Optional
  <1>4. CASE StepSettles
    BY <1>4, MoveStays DEF StepSettles, Observation, streamVars
  <1>5. ASSUME NEW tick \in Tick, PlacementAcquires(tick)
        PROVE  MoveKept
    BY <1>5, MoveStays DEF PlacementAcquires, Optional, moveMemory
  <1>6. CASE PlacementCommits
    BY <1>6, MoveStays DEF PlacementCommits, Commit, Optional, moveMemory
  <1>7. CASE PlacementReleases
    BY <1>7, MoveStays DEF PlacementReleases, Optional, moveMemory
  <1> QED
    BY <1>1, <1>2, <1>3, <1>4, <1>5, <1>6, <1>7

LEMMA MoveKeeps == ASSUME WorkerInv, MoveNext PROVE MoveKept
  BY MoveFoundKept, StepAllowedKept, StepKept, StepFailedKept, StepObservedKept,
     MoveFinalizedKept, MoveInputKept
     DEF MoveNext, MoveSteps

LEMMA BlockUndisturbed ==
  ASSUME WorkerInv, BesidesBlock
  PROVE  /\ BlockTypeOK' /\ UNCHANGED <<blockPc, blockTask>>
         /\ movePc # "idle" => (blockPc # "idle" => blockTask # moveTask)
  <1>1. blockNotified' \in BOOLEAN
    BY DEF BesidesBlock, Notify, BlockActive
  <1>2. UNCHANGED <<blockPc, blockTask, blockAborted, blockAnswer, blockOutcome,
                    portStopped, blockClosed, world, placed>>
    BY DEF BesidesBlock, blockOthers
  <1>3. BlockTypeOK'
    BY <1>1, <1>2 DEF WorkerInv, BlockTypeOK
  <1> QED
    BY <1>2, <1>3, Distinct DEF WorkerInv

LEMMA MoveStep ==
  ASSUME WorkerInv, MoveNext, BesidesBlock, UNCHANGED reading
  PROVE  WorkerInv'
  <1>1. MoveKept
    BY MoveKeeps
  <1>2. /\ movePc # "idle" => moveTask # ReadTask
        /\ movePc = "idle" => moveTask = NoValue
        /\ blockPc # "idle" => blockTask # moveTask
    BY Distinct DEF WorkerInv, MoveTypeOK
  <1>3. reading => moveTask # ReadTask
    <2>1. ~Owns(snapshot, NoValue)
      BY DEF WorkerInv, Consistent, TaskOK, Owns
    <2> QED
      BY <1>2, <2>1 DEF WorkerInv
  <1>4. BlockTypeOK' /\ UNCHANGED <<blockPc, blockTask>>
    BY BlockUndisturbed
  <1> QED
    BY <1>1, <1>2, <1>3, <1>4 DEF WorkerInv, MoveKept, SparesOthers, Placing

(* The other steps of the process. *)

LEMMA ReaderFacts ==
  ASSUME WorkerInv, ReaderBegins
  PROVE  Consistent(snapshot') /\ Owns(snapshot', ReadTask)
  <1> DEFINE s == [snapshot EXCEPT !.task = IdleTask]
  <1>1. Consistent(s) /\ s.task.state = "idle"
    <2>1. IdleTask \in TaskProgress /\ TaskOK(IdleTask)
      BY DEF IdleTask, TaskProgress, TaskOK, Optional, TaskState, TerminalTask
    <2>2. IdleTask.state = "idle"
      BY DEF IdleTask
    <2> QED
      BY <2>1, <2>2 DEF WorkerInv, Consistent, Snapshot
  <1> HIDE DEF s
  <1>2. ReadTask \in STRING
    BY ProcessAssumption DEF ProcessAssumption
  <1> QED
    BY <1>1, <1>2, PreparedFacts DEF ReaderBegins, Owns, s

LEMMA OthersStep ==
  ASSUME WorkerInv, Others, BesidesBlock, UNCHANGED moveVars
  PROVE  WorkerInv'
  <1>1. /\ BlockTypeOK' /\ UNCHANGED <<blockPc, blockTask>>
        /\ MoveTypeOK' /\ UNCHANGED <<movePc, moveTask, done, plan>>
    BY BlockUndisturbed DEF WorkerInv, MoveTypeOK, moveVars, moveMemory, streamVars
  <1>2. SUFFICES /\ Consistent(snapshot') /\ ContextOK' /\ reading' \in BOOLEAN
                 /\ \A u : u # ReadTask /\ Owns(snapshot, u) => Owns(snapshot', u)
                 /\ reading' => Owns(snapshot', ReadTask)
    <2>1. /\ blockPc # "idle" => blockTask # ReadTask
          /\ movePc # "idle" => moveTask # ReadTask
      BY Distinct DEF WorkerInv
    <2> QED
      BY <1>1, <2>1 DEF WorkerInv, Placing, Walking
  <1>3. ASSUME NEW c \in RuntimeCommands, Runtime(c)
        PROVE  /\ Consistent(snapshot') /\ ContextOK' /\ reading' \in BOOLEAN
               /\ \A u : Owns(snapshot, u) => Owns(snapshot', u)
               /\ reading' => Owns(snapshot', ReadTask)
    <2>1. Consistent(snapshot') /\ snapshot'.task = snapshot.task
      BY <1>3, RuntimeFacts DEF WorkerInv, Runtime
    <2>2. ContextOK' /\ UNCHANGED reading
      BY <1>3, SameContext DEF Runtime
    <2> QED
      BY <2>1, <2>2 DEF WorkerInv, Owns
  <1>4. ASSUME NEW t \in Tasks, Claim(t)
        PROVE  /\ Consistent(snapshot') /\ ContextOK' /\ UNCHANGED <<snapshot, reading>>
    <2>1. [rows EXCEPT ![t].status = "claimed"] \in [Tasks -> Row]
      BY DEF WorkerInv, ContextOK, Row
    <2> QED
      BY <1>4, <2>1 DEF WorkerInv, ContextOK, Claim
  <1>5. CASE ReaderBegins
    <2>3. Consistent(snapshot') /\ Owns(snapshot', ReadTask)
      BY <1>5, ReaderFacts
    <2>4. ContextOK' /\ reading' \in BOOLEAN
      BY <1>5, SameContext DEF ReaderBegins
    <2>5. \A u : ~Owns(snapshot, u)
      BY <1>5 DEF ReaderBegins, Owns, TerminalTask
    <2> QED
      BY <2>3, <2>4, <2>5
  <1>6. CASE ReaderEnds
    <2>1. Owns(snapshot, ReadTask) /\ snapshot' = Finalized(snapshot, ReadTask, "completed")
      BY <1>6 DEF ReaderEnds, WorkerInv
    <2>2. Consistent(snapshot') /\ SparesOthers(ReadTask)
      BY <2>1, FinalizedSpares DEF WorkerInv, Outcome
    <2>3. ContextOK' /\ reading' = FALSE
      BY <1>6, SameContext DEF ReaderEnds
    <2> QED
      BY <2>2, <2>3 DEF SparesOthers
  <1>7. CASE CallerResets
    <2>1. Consistent(snapshot')
      BY <1>7, CommandsKeepConsistent
         DEF CallerResets, WorkerInv, Dispatched, Command, Accepts
    <2>2. \A u : ~Owns(snapshot, u)
      BY <1>7 DEF CallerResets, Owns, TerminalTask
    <2>3. ContextOK' /\ UNCHANGED reading
      BY <1>7, SameContext DEF CallerResets
    <2> QED
      BY <2>1, <2>2, <2>3 DEF WorkerInv
  <1> QED
    BY <1>2, <1>3, <1>4, <1>5, <1>6, <1>7 DEF Others, WorkerInv

LEMMA CrashStep == ASSUME WorkerInv, Crash PROVE WorkerInv'
  <1>1. Consistent(snapshot')
    BY SpawnedConsistent DEF Crash
  <1>2. ContextOK'
    BY SameContext DEF Crash
  <1>3. BlockTypeOK'
    BY DEF WorkerInv, Crash, BlockLost, ReturnFromBlock, BlockTypeOK, Optional, Outcome
  <1>4. MoveTypeOK'
    <2>1. plan' \in Seq(Places) /\ done' \in 0..Len(plan')
      BY DEF Crash, MoveLost, MoveReturns
    <2>2. /\ movePc' = "idle" /\ moveTask' = NoValue /\ moveAborted' = FALSE
          /\ moveAnswer' = "none" /\ moveOutcome' = "failed"
          /\ moveClosed' = FALSE /\ owner' = NoValue /\ lastTick' = NoTick
      BY DEF Crash, MoveLost, MoveReturns
    <2> QED
      BY <2>1, <2>2 DEF MoveTypeOK, Optional, Outcome
  <1>5. blockPc' = "idle" /\ movePc' = "idle" /\ done' = 0 /\ reading' = FALSE
    BY DEF Crash, BlockLost, ReturnFromBlock, MoveLost, MoveReturns
  <1> QED
    BY <1>1, <1>2, <1>3, <1>4, <1>5 DEF WorkerInv, Placing, Walking

LEMMA WorkerStep == ASSUME WorkerInv, [Next]_vars PROVE WorkerInv'
  <1>1. CASE BlockNext /\ UNCHANGED <<moveVars, reading>>
    BY <1>1, BlockStep
  <1>2. CASE MoveNext /\ BesidesBlock /\ UNCHANGED reading
    BY <1>2, MoveStep
  <1>3. CASE Others /\ BesidesBlock /\ UNCHANGED moveVars
    BY <1>3, OthersStep
  <1>4. CASE Crash
    BY <1>4, CrashStep
  <1>5. CASE UNCHANGED vars
    BY <1>5
       DEF vars, blockOthers, moveVars, moveMemory, streamVars, WorkerInv, ContextOK,
       BlockTypeOK, MoveTypeOK
  <1> QED
    BY <1>1, <1>2, <1>3, <1>4, <1>5 DEF Next

\* Every step of a placement, a journey, the executor, the supervisor, a caller or
\* a crash keeps the types and the ownership of the one task.
THEOREM WorkerInvariance == Spec => []WorkerInv
  <1>1. Init => WorkerInv
    BY WorkerInit
  <1>2. WorkerInv /\ [Next]_vars => WorkerInv'
    BY WorkerStep
  <1> QED
    BY <1>1, <1>2, PTL DEF Spec

\* The variables have their types, whatever is sent, aborted, closed or lost.
THEOREM TypeCorrect == Spec => []TypeOK
  <1>1. WorkerInv => TypeOK
    BY DEF WorkerInv, TypeOK, ContextOK, Consistent
  <1> QED
    BY <1>1, WorkerInvariance, PTL

\* No two of a placement, a journey and the read-only executor are ever at work
\* at once, and none of them loses its task to another before its own end.
THEOREM OneWorkerHolds == Spec => []OneWorker
  <1>1. WorkerInv => OneWorker
    BY DEF WorkerInv, OneWorker, Placing, Walking, Owns
  <1> QED
    BY <1>1, WorkerInvariance, PTL

----------------------------------------------------------------------------
(* The frames of the stream                                                *)

\* A placement that owns the stream claimed a tick that is still to come.
StreamInv == owner # NoValue => ~moveClosed /\ owner > lastTick

FrameStep == lastTick' = lastTick \/ (lastTick' > lastTick /\ ~moveClosed)

LEMMA StreamClosed ==
  ASSUME StreamInv, CloseStream \/ UNCHANGED streamVars
  PROVE  StreamInv' /\ FrameStep
  BY DEF StreamInv, CloseStream, streamVars, FrameStep

LEMMA FrameSteps ==
  ASSUME WorkerInv, StreamInv, MoveNext
  PROVE  StreamInv' /\ FrameStep
  <1>1. MoveTypeOK
    BY DEF WorkerInv
  <1>2. ASSUME NEW t \in MoveTasks, ExecuteMove(t)
        PROVE  StreamInv' /\ FrameStep
    BY <1>2, StreamClosed DEF ExecuteMove
  <1>3. CASE MoveFound
    BY <1>3, StreamClosed DEF MoveFound, StopAndFinalizeMove, Begin, Arrive
  <1>4. ASSUME NEW tick \in Tick \cup {NoTick}, Step(tick)
        PROVE  StreamInv' /\ FrameStep
    <2>1. CASE CloseStream
      BY <2>1, StreamClosed
    <2>2. CASE MayAcquire(tick) /\ lastTick' = tick /\ UNCHANGED <<moveClosed, owner>>
      BY <2>2 DEF MayAcquire, StreamInv, FrameStep
    <2> QED
      BY <1>4, <2>1, <2>2 DEF Step, StopAndFinalizeMove, Commit
  <1>5. CASE StepFailed \/ StepAllowed
    BY <1>5, StreamClosed DEF StepFailed, StepAllowed, StopAndFinalizeMove
  <1>6. CASE StepObserved
    BY <1>6, StreamClosed DEF StepObserved, StopAndFinalizeMove, Arrive
  <1>7. CASE MoveFinalized
    BY <1>7, StreamClosed DEF MoveFinalized
  <1>8. CASE CancelMove \/ ClosePort \/ StepSettles
    BY <1>8, StreamClosed DEF CancelMove, ClosePort, StepSettles
  <1>9. ASSUME NEW tick \in Tick, PlacementAcquires(tick)
        PROVE  StreamInv' /\ FrameStep
    BY <1>9 DEF PlacementAcquires, MayAcquire, StreamInv, FrameStep
  <1>10. CASE PlacementCommits
    BY <1>10 DEF PlacementCommits, Commit, StreamInv, FrameStep
  <1>11. CASE PlacementReleases
    BY <1>11 DEF PlacementReleases, StreamInv, FrameStep
  <1> QED
    BY <1>2, <1>3, <1>4, <1>5, <1>6, <1>7, <1>8, <1>9, <1>10, <1>11
       DEF MoveNext, MoveSteps

LEMMA StreamStep ==
  ASSUME WorkerInv, StreamInv, [Next]_vars
  PROVE  StreamInv' /\ (FrameStep \/ lastTick' = NoTick)
  <1>1. CASE UNCHANGED moveVars
    BY <1>1, StreamClosed DEF moveVars
  <1>2. CASE MoveNext
    BY <1>2, FrameSteps
  <1>3. CASE Crash
    BY <1>3 DEF Crash, MoveLost, StreamInv
  <1> QED
    BY <1>1, <1>2, <1>3 DEF Next, vars

\* Whoever owns the stream holds a tick that was not sent yet, and an open port.
THEOREM StreamInvariance == Spec => []StreamInv
  <1>1. Init => StreamInv
    BY DEF Init, MoveInit, StreamInv
  <1>2. WorkerInv /\ StreamInv /\ [Next]_vars => StreamInv'
    BY StreamStep
  <1> QED
    BY <1>1, <1>2, WorkerInvariance, PTL DEF Spec

\* For every number of ticks: a frame is sent for a later tick than all frames
\* before it, also by a placement that claimed its tick earlier.
THEOREM FramesAlwaysInOrder == Spec => FramesInOrder
  <1>1. WorkerInv /\ StreamInv /\ [Next]_vars
          => [lastTick' > lastTick \/ lastTick' = NoTick]_lastTick
    BY StreamStep DEF FrameStep
  <1> QED
    BY <1>1, WorkerInvariance, StreamInvariance, PTL DEF Spec, FramesInOrder

\* A stopped port stays silent until the process that stopped it is gone.
THEOREM SilentAfterStop == Spec => NoFrameAfterStop
  <1>1. WorkerInv /\ StreamInv /\ [Next]_vars
          => [moveClosed => lastTick' = NoTick]_lastTick
    BY StreamStep DEF FrameStep
  <1> QED
    BY <1>1, WorkerInvariance, StreamInvariance, PTL DEF Spec, NoFrameAfterStop

----------------------------------------------------------------------------
(* Placements, the rows and the world                                      *)

\* A stopped port aborts the execution, so that it sends nothing.
AbortInv ==
  /\ blockPc = "idle" => ~portStopped /\ ~blockNotified
  /\ blockPc \notin {"idle", "finalizing"} /\ (portStopped \/ blockClosed)
       => blockAborted

\* What the steps before a result know of the world and of the row.
ResultKnown ==
  /\ blockPc = "idle" => blockAnswer = "none"
  /\ blockAnswer = "dirt" => world[blockTask] = "dirt"
  /\ blockPc = "sending" => /\ placed[blockTask] = 0
                            /\ rows[blockTask].phase # "not_started"
  /\ blockPc = "verifying" => world[blockTask] = "dirt"
  /\ blockPc = "finalizing" /\ blockOutcome = "completed" =>
       world[blockTask] = "dirt" /\ rows[blockTask].phase = "verified"

PlacementInv == AbortInv /\ ResultKnown /\ PlacedOnce /\ CompletedIsThere

NothingSent == UNCHANGED placed \/ (~portStopped /\ ~blockClosed)

\* A step that only ends the execution without success.
LEMMA PlacementFails ==
  ASSUME PlacementInv, BlockActive, NEW o \in {"failed", "stopped"}, FinalizeBlock(o),
         UNCHANGED <<rows, world, placed>>
  PROVE  PlacementInv' /\ NothingSent
  BY DEF PlacementInv, FinalizeBlock, AbortInv, ResultKnown, PlacedOnce,
     CompletedIsThere, NothingSent

LEMMA PlacementGoesOn ==
  ASSUME PlacementInv, BlockActive, blockPc # "finalizing",
         NEW pc \in Calling \cup {"verifying"}, GoOn(pc),
         pc = "verifying" => world[blockTask] = "dirt",
         UNCHANGED <<rows, blockClosed, world, placed>>
  PROVE  PlacementInv' /\ NothingSent
  BY DEF PlacementInv, BlockActive, GoOn, AbortInv, ResultKnown, PlacedOnce,
     CompletedIsThere, NothingSent, Calling

LEMMA PlacementReturns ==
  ASSUME PlacementInv, ReturnFromBlock, UNCHANGED <<world, placed>>,
         PlacedOnce', CompletedIsThere'
  PROVE  PlacementInv' /\ NothingSent
  BY DEF PlacementInv, ReturnFromBlock, AbortInv, ResultKnown, NothingSent

LEMMA BlockFoundSound ==
  ASSUME WorkerInv, PlacementInv, BlockFound
  PROVE  PlacementInv' /\ NothingSent
  <1>1. /\ BlockActive /\ blockPc # "finalizing"
        /\ UNCHANGED <<rows, blockClosed, world, placed>>
    BY DEF BlockFound, Waits, BlockActive, ReadFails
  <1>2. \/ ReturnFromBlock
        \/ FinalizeBlock("failed")
        \/ FinalizeBlock("stopped")
        \/ GoOn("observing_target")
    BY DEF BlockFound, StopAndFinalize
  <1>3. PlacedOnce' /\ CompletedIsThere'
    BY <1>1 DEF PlacementInv, PlacedOnce, CompletedIsThere
  <1> QED
    BY <1>1, <1>2, <1>3, PlacementReturns, PlacementFails, PlacementGoesOn DEF Calling

LEMMA QuietStepSound ==
  ASSUME WorkerInv, PlacementInv,
         PortFailed \/ TargetObserved \/ PlaceAnswered \/ ResultObserved
  PROVE  PlacementInv' /\ NothingSent
  <1>1. /\ BlockActive /\ blockPc # "finalizing"
        /\ UNCHANGED <<rows, blockClosed, world, placed>>
    BY DEF PortFailed, TargetObserved, PlaceAnswered, ResultObserved, Waits,
       BlockActive, Calling
  <1>2. \/ FinalizeBlock("failed")
        \/ FinalizeBlock("stopped")
        \/ GoOn("observing_support")
        \/ GoOn("observing_after")
        \/ GoOn("verifying") /\ blockAnswer = "dirt"
    BY DEF PortFailed, TargetObserved, PlaceAnswered, ResultObserved, StopAndFinalize,
       ExpectedAfter
  <1>3. blockAnswer = "dirt" => world[blockTask] = "dirt"
    BY DEF PlacementInv, ResultKnown
  <1> QED
    BY <1>1, <1>2, <1>3, PlacementFails, PlacementGoesOn DEF Calling

LEMMA SupportObservedSound ==
  ASSUME WorkerInv, PlacementInv, SupportObserved
  PROVE  PlacementInv' /\ NothingSent
  <1>1. BlockActive /\ UNCHANGED <<rows, blockClosed, world, placed>>
    BY DEF SupportObserved, Waits, BlockActive
  <1>2. \/ FinalizeBlock("failed")
        \/ FinalizeBlock("stopped")
        \/ /\ blockPc = "observing_support" /\ blockPc' = "marking"
           /\ blockAnswer' = "none"
           /\ UNCHANGED <<blockAborted, blockNotified, portStopped>>
    BY DEF SupportObserved, StopAndFinalize, Waits
  <1>3. CASE FinalizeBlock("failed") \/ FinalizeBlock("stopped")
    BY <1>1, <1>3, PlacementFails
  <1>4. CASE /\ blockPc = "observing_support" /\ blockPc' = "marking"
             /\ blockAnswer' = "none"
             /\ UNCHANGED <<blockAborted, blockNotified, portStopped>>
    BY <1>1, <1>4
       DEF PlacementInv, AbortInv, ResultKnown, PlacedOnce, CompletedIsThere,
       NothingSent
  <1> QED
    BY <1>2, <1>3, <1>4

LEMMA PlaceSound ==
  ASSUME WorkerInv, PlacementInv, Place
  PROVE  PlacementInv' /\ NothingSent
  <1>1. /\ BlockActive /\ blockPc = "sending"
        /\ UNCHANGED <<rows, blockClosed, world>>
    BY DEF Place, Waits, BlockActive
  <1>2. CASE ~MaySend
    BY <1>1, <1>2, PlacementFails DEF Place, StopAndFinalize
  <1>3. CASE MaySend
    <2>1. GoOn("placing") /\ placed' = [placed EXCEPT ![blockTask] = @ + 1]
      BY <1>3 DEF Place
    <2>2. ~portStopped /\ ~blockClosed
      BY <1>1, <1>3 DEF MaySend, PlacementInv, AbortInv
    <2>3. placed[blockTask] = 0 /\ rows[blockTask].phase # "not_started"
      BY <1>1 DEF PlacementInv, ResultKnown
    <2>4. placed \in [PlaceTasks -> Nat] /\ blockTask \in PlaceTasks
      BY <1>1, BlockTaskKnown DEF WorkerInv, BlockTypeOK
    <2>5. PlacedOnce'
      BY <1>1, <2>1, <2>3, <2>4 DEF PlacementInv, PlacedOnce
    <2> QED
      BY <1>1, <2>1, <2>2, <2>5
         DEF GoOn, PlacementInv, AbortInv, ResultKnown, CompletedIsThere, NothingSent
  <1> QED
    BY <1>2, <1>3

\* A request of this execution that advances the phase of its row.
LEMMA MarkSound ==
  ASSUME WorkerInv, PlacementInv, BlockActive, NEW ok \in BOOLEAN, NEW from,
         NEW to \in {"delivery_started", "verified"},
         MarkRow(blockTask, from, to, ok),
         UNCHANGED <<world, placed>>
  PROVE  /\ PlacedOnce' /\ CompletedIsThere'
         /\ ok => rows'[blockTask].phase = to /\ rows[blockTask].phase = from
  <1>1. ContextOK /\ blockTask \in Tasks
    BY BlockTaskKnown DEF WorkerInv
  <1>2. /\ \/ rows' = rows
           \/ /\ rows[blockTask].status = "claimed"
              /\ rows' = [rows EXCEPT ![blockTask].phase = to]
        /\ ok => /\ rows[blockTask].phase = from
                 /\ rows' = [rows EXCEPT ![blockTask].phase = to]
    BY <1>1, MarkFacts
  <1>3. rows \in [Tasks -> Row] /\ PlaceTasks \subseteq Tasks
    BY <1>1 DEF ContextOK, Tasks
  <1>4. \A t \in Tasks : /\ rows'[t].status = rows[t].status
                         /\ \/ rows'[t].phase = rows[t].phase
                            \/ rows[t].status = "claimed" /\ rows'[t].phase = to
    BY <1>1, <1>2, <1>3 DEF Row
  <1>5. PlacedOnce'
    BY <1>3, <1>4 DEF PlacementInv, PlacedOnce
  <1>6. CompletedIsThere'
    BY <1>3, <1>4 DEF PlacementInv, CompletedIsThere
  <1>7. ok => rows'[blockTask].phase = to /\ rows[blockTask].phase = from
    BY <1>1, <1>2, <1>3 DEF Row
  <1> QED
    BY <1>5, <1>6, <1>7

LEMMA DeliveryMarkedSound ==
  ASSUME WorkerInv, PlacementInv, DeliveryMarked
  PROVE  PlacementInv' /\ NothingSent
  <1>1. /\ BlockActive /\ blockPc = "marking" /\ blockTask \in PlaceTasks
        /\ UNCHANGED <<blockClosed, world, placed>>
    BY BlockTaskKnown DEF DeliveryMarked, Waits, BlockActive
  <1>2. PICK ok \in BOOLEAN :
          /\ MarkRow(blockTask, "not_started", "delivery_started", ok)
          /\ AfterMark(ok)
    BY DEF DeliveryMarked
  <1>3. /\ PlacedOnce' /\ CompletedIsThere'
        /\ ok => /\ rows'[blockTask].phase = "delivery_started"
                 /\ rows[blockTask].phase = "not_started"
    BY <1>1, <1>2, MarkSound
  <1>4. CASE ok
    <2>1. placed[blockTask] = 0
      BY <1>1, <1>3, <1>4 DEF PlacementInv, PlacedOnce, WorkerInv, BlockTypeOK
    <2> QED
      BY <1>1, <1>2, <1>3, <1>4, <2>1
         DEF AfterMark, GoOn, PlacementInv, AbortInv, ResultKnown, NothingSent
  <1>5. CASE ~ok
    BY <1>1, <1>2, <1>3, <1>5
       DEF AfterMark, StopAndFinalize, FinalizeBlock, PlacementInv, AbortInv,
       ResultKnown, NothingSent
  <1> QED
    BY <1>4, <1>5

LEMMA VerifiedSound ==
  ASSUME WorkerInv, PlacementInv, Verified
  PROVE  PlacementInv' /\ NothingSent
  <1>1. /\ BlockActive /\ blockPc = "verifying"
        /\ UNCHANGED <<blockClosed, world, placed>>
    BY DEF Verified, Waits, BlockActive
  <1>2. PICK ok \in BOOLEAN :
          /\ MarkRow(blockTask, "delivery_started", "verified", ok)
          /\ IF ok THEN FinalizeBlock("completed") /\ UNCHANGED portStopped
             ELSE StopAndFinalize("failed")
    BY DEF Verified
  <1>3. /\ PlacedOnce' /\ CompletedIsThere'
        /\ ok => rows'[blockTask].phase = "verified"
    BY <1>1, <1>2, MarkSound
  <1>4. world[blockTask] = "dirt"
    BY <1>1 DEF PlacementInv, ResultKnown
  <1>5. /\ blockPc' = "finalizing" /\ blockAnswer' = "none" /\ blockTask' = blockTask
        /\ blockOutcome' = IF ok THEN "completed" ELSE "failed"
    BY <1>2 DEF StopAndFinalize, FinalizeBlock
  <1> QED
    BY <1>1, <1>3, <1>4, <1>5 DEF PlacementInv, AbortInv, ResultKnown, NothingSent

LEMMA BlockFinalizedSound ==
  ASSUME WorkerInv, PlacementInv, BlockFinalized
  PROVE  PlacementInv' /\ NothingSent
  <1>1. /\ BlockActive /\ blockPc = "finalizing" /\ ReturnFromBlock
        /\ blockTask \in PlaceTasks /\ blockTask \in Tasks /\ blockOutcome \in Outcome
        /\ UNCHANGED <<blockClosed, world, placed>>
    BY BlockTaskKnown
       DEF BlockFinalized, Waits, BlockActive, WorkerInv, BlockTypeOK
  <1>2. \/ rows' = rows
        \/ rows' = [rows EXCEPT ![blockTask].status = blockOutcome]
    BY <1>1, FinishFacts DEF BlockFinalized, WorkerInv
  <1>3. rows \in [Tasks -> Row] /\ PlaceTasks \subseteq Tasks
    BY DEF WorkerInv, ContextOK, Tasks
  <1>4. \A t \in Tasks : /\ rows'[t].phase = rows[t].phase
                         /\ \/ rows'[t].status = rows[t].status
                            \/ t = blockTask /\ rows'[t].status = blockOutcome
    BY <1>1, <1>2, <1>3 DEF Row
  <1>5. PlacedOnce'
    BY <1>1, <1>3, <1>4 DEF PlacementInv, PlacedOnce
  <1>6. CompletedIsThere'
    BY <1>1, <1>3, <1>4 DEF PlacementInv, CompletedIsThere, ResultKnown
  <1> QED
    BY <1>1, <1>5, <1>6, PlacementReturns

LEMMA BlockInputSound ==
  ASSUME WorkerInv, PlacementInv,
         \/ \E t \in PlaceTasks : ExecuteBlock(t) \/ WorldChanges(t)
         \/ StoreNotified \/ CancelBlock \/ CloseBlock \/ PortSettles
  PROVE  PlacementInv' /\ NothingSent
  <1> USE DEF PlacementInv, AbortInv, ResultKnown, PlacedOnce, CompletedIsThere, NothingSent
  <1>1. ASSUME NEW t \in PlaceTasks, ExecuteBlock(t)
        PROVE  PlacementInv' /\ NothingSent
    BY <1>1 DEF ExecuteBlock, Waits
  <1>2. ASSUME NEW t \in PlaceTasks, WorldChanges(t)
        PROVE  PlacementInv' /\ NothingSent
    <2>1. world \in [PlaceTasks -> {"air", "dirt"}]
      BY DEF WorkerInv, BlockTypeOK
    <2>2. /\ \A u \in PlaceTasks : world[u] = "dirt" => world'[u] = "dirt"
          /\ UNCHANGED <<rows, blockMemory, placed>>
      BY <1>2, <2>1 DEF WorldChanges
    <2>3. blockPc # "idle" => blockTask \in PlaceTasks
      BY BlockTaskKnown DEF BlockActive
    <2> QED
      BY <2>2, <2>3 DEF blockMemory
  <1>3. CASE StoreNotified
    BY <1>3 DEF StoreNotified, AbortExecution
  <1>4. CASE CancelBlock
    BY <1>4 DEF CancelBlock, BlockActive
  <1>5. CASE CloseBlock
    BY <1>5 DEF CloseBlock, BlockActive
  <1>6. CASE PortSettles
    <2>1. blockAnswer' = "dirt" => world[blockTask] = "dirt"
      BY <1>6 DEF PortSettles
    <2> QED
      BY <1>6, <2>1 DEF PortSettles, Calling
  <1> QED
    BY <1>1, <1>2, <1>3, <1>4, <1>5, <1>6

LEMMA BlockSound ==
  ASSUME WorkerInv, PlacementInv, BlockNext
  PROVE  PlacementInv' /\ NothingSent
  BY BlockFoundSound, QuietStepSound, SupportObservedSound, PlaceSound,
     DeliveryMarkedSound, VerifiedSound, BlockFinalizedSound, BlockInputSound
     DEF BlockNext, BlockSteps

\* What the others do to the rows of placements: one may be claimed.
LEMMA RowsSpared ==
  ASSUME WorkerInv, MoveNext \/ Others
  PROVE  \A t \in PlaceTasks :
           /\ rows'[t].phase = rows[t].phase
           /\ rows'[t].status \in {rows[t].status, "claimed"}
  <1>1. rows \in [Tasks -> Row] /\ PlaceTasks \subseteq Tasks
    BY DEF WorkerInv, ContextOK, Tasks
  <1>2. CASE UNCHANGED rows
    BY <1>2
  <1>3. CASE MoveFinalized
    <2>1. moveTask \in Tasks /\ moveTask \notin PlaceTasks /\ moveOutcome \in Outcome
      BY <1>3, MoveTaskKnown, WorkAssumption
         DEF MoveFinalized, MoveActive, WorkAssumption, WorkerInv, MoveTypeOK
    <2>2. \/ rows' = rows
          \/ rows' = [rows EXCEPT ![moveTask].status = moveOutcome]
      BY <1>3, <2>1, FinishFacts DEF MoveFinalized, WorkerInv
    <2> QED
      BY <1>1, <2>1, <2>2
  <1>4. ASSUME NEW u \in Tasks, Claim(u)
        PROVE  \A t \in PlaceTasks :
                 /\ rows'[t].phase = rows[t].phase
                 /\ rows'[t].status \in {rows[t].status, "claimed"}
    BY <1>1, <1>4 DEF Claim, Row
  <1>5. CASE MoveNext /\ ~MoveFinalized
    <2>1. UNCHANGED rows
      BY <1>5
         DEF MoveNext, MoveSteps, ExecuteMove, MoveFound, ReadFails, StepAllowed, Step, StepFailed,
         StepObserved, CancelMove, ClosePort, StepSettles, PlacementAcquires,
         PlacementCommits, PlacementReleases
    <2> QED
      BY <1>2, <2>1
  <1>6. CASE Others
    BY <1>2, <1>4, <1>6 DEF Others, Runtime, ReaderBegins, ReaderEnds, CallerResets
  <1> QED
    BY <1>3, <1>5, <1>6

LEMMA PlacementStep ==
  ASSUME WorkerInv, PlacementInv, [Next]_vars
  PROVE  PlacementInv' /\ NothingSent
  <1>1. CASE BlockNext
    BY <1>1, BlockSound
  <1>2. CASE (MoveNext \/ Others) /\ BesidesBlock
    <2>1. \A t \in PlaceTasks :
            /\ rows'[t].phase = rows[t].phase
            /\ rows'[t].status = "completed" => rows[t].status = "completed"
      BY <1>2, RowsSpared
    <2>2. UNCHANGED <<blockPc, blockTask, blockAborted, blockAnswer, blockOutcome,
                      portStopped, blockClosed, world, placed>>
      BY <1>2 DEF BesidesBlock, blockOthers
    <2>3. blockPc = "idle" => ~blockNotified'
      BY <1>2 DEF BesidesBlock, Notify, BlockActive
    <2>4. blockPc # "idle" => blockTask \in PlaceTasks
      BY BlockTaskKnown DEF BlockActive
    <2>5. PlacedOnce' /\ CompletedIsThere' /\ NothingSent
      BY <2>1, <2>2 DEF PlacementInv, PlacedOnce, CompletedIsThere, NothingSent
    <2>6. AbortInv'
      BY <2>2, <2>3 DEF PlacementInv, AbortInv
    <2>7. ResultKnown'
      BY <2>1, <2>2, <2>4 DEF PlacementInv, ResultKnown
    <2> QED
      BY <2>5, <2>6, <2>7 DEF PlacementInv
  <1>3. CASE Crash
    <2>1. PlacedOnce' /\ CompletedIsThere' /\ ReturnFromBlock /\ UNCHANGED <<world, placed>>
      BY <1>3 DEF Crash, BlockLost, PlacementInv, PlacedOnce, CompletedIsThere
    <2> QED
      BY <2>1, PlacementReturns
  <1>4. CASE UNCHANGED vars
    BY <1>4
       DEF vars, blockOthers, PlacementInv, AbortInv, ResultKnown, PlacedOnce,
       CompletedIsThere, NothingSent
  <1> QED
    BY <1>1, <1>2, <1>3, <1>4 DEF Next

\* At every await of a placement, what it knows of its row, its abort signal and
\* the world still holds when it goes on.
THEOREM PlacementInvariance == Spec => []PlacementInv
  <1>1. Init => PlacementInv
    BY DEF Init, BlockInit, ContextInit, PlacementInv, AbortInv, ResultKnown,
       PlacedOnce, CompletedIsThere, Tasks
  <1>2. WorkerInv /\ PlacementInv /\ [Next]_vars => PlacementInv'
    BY PlacementStep
  <1> QED
    BY <1>1, <1>2, WorkerInvariance, PTL DEF Spec

\* However often a task is executed, cut off or lost with its process: its block
\* is asked for once, after the database was told.
THEOREM AlwaysPlacedOnce == Spec => []PlacedOnce
  <1>1. PlacementInv => PlacedOnce
    BY DEF PlacementInv
  <1> QED
    BY <1>1, PlacementInvariance, PTL

\* No row says completed without the block and the stored verification.
THEOREM AlwaysThere == Spec => []CompletedIsThere
  <1>1. PlacementInv => CompletedIsThere
    BY DEF PlacementInv
  <1> QED
    BY <1>1, PlacementInvariance, PTL

\* After cancel, close, a denial or an error the execution asks for no block.
THEOREM NeverSentAfterStop == Spec => NothingSentAfterStop
  <1>1. WorkerInv /\ PlacementInv /\ [Next]_vars
          => [~portStopped /\ ~blockClosed]_placed
    BY PlacementStep DEF NothingSent
  <1> QED
    BY <1>1, WorkerInvariance, PlacementInvariance, PTL DEF Spec, NothingSentAfterStop

----------------------------------------------------------------------------
(* The result of a task in the store and in its row                        *)

\* Unless something was lost: the row of a task under way is claimed, and a
\* result in the store is in the row, or on its way from the coordinator.
Claimed ==
  /\ blockPc \notin {"idle", "finding"} => rows[blockTask].status = "claimed"
  /\ movePc \notin {"idle", "finding"} => rows[moveTask].status = "claimed"

OnItsWay(t, result) ==
  \/ blockPc = "finalizing" /\ t = blockTask /\ blockOutcome = result
  \/ movePc = "finalizing" /\ t = moveTask /\ moveOutcome = result

Reported ==
  LET t == snapshot.task.id
      result == snapshot.task.state
  IN  t \in Tasks /\ result \in TerminalTask
        => rows[t].status = result \/ OnItsWay(t, result)

ResultInv == faults = 0 => Claimed /\ Reported

StatusKept == \A t \in Tasks : rows'[t].status = rows[t].status

\* The end of an execution makes the result the outcome of its own task, or
\* leaves the task as it is.
LEMMA EndedTask ==
  ASSUME NEW s, Consistent(s), NEW t, NEW o \in Outcome, o = "completed" => Owns(s, t)
  PROVE  /\ Finalized(s, t, o).task.id = s.task.id
         /\ \/ s.task.id = t /\ Finalized(s, t, o).task.state = o
            \/ Finalized(s, t, o) = s
  <1>1. o = "completed" => s.task.state \notin {"preparing", "paused"}
    BY DEF Owns
  <1> QED
    BY <1>1, FinalizedFacts

\* A step of an execution that goes on to its end, or leaves no result.
BlockEnds ==
  \E o \in Outcome :
    FinalizeBlock(o) /\ (o = "completed" => Owns(snapshot, blockTask))

BlockWorks ==
  /\ blockPc' \notin {"idle", "finding", "finalizing"}
  /\ blockTask' = blockTask
  /\ snapshot' = snapshot \/ snapshot'.task.state = "running"

LEMMA BlockReports ==
  ASSUME WorkerInv, Claimed, Reported, StatusKept, UNCHANGED moveVars,
         blockPc \notin {"idle", "finalizing"},
         \/ ReturnFromBlock /\ UNCHANGED snapshot
         \/ rows[blockTask].status = "claimed" /\ (BlockEnds \/ BlockWorks)
  PROVE  Claimed' /\ Reported'
  <1>1. UNCHANGED <<movePc, moveTask, moveOutcome>>
    BY DEF moveVars, moveMemory
  <1>2. /\ blockTask \in Tasks
        /\ movePc # "idle" => moveTask \in Tasks
    BY BlockTaskKnown, MoveTaskKnown DEF BlockActive, MoveActive
  <1>3. CASE ReturnFromBlock /\ UNCHANGED snapshot
    BY <1>1, <1>2, <1>3 DEF StatusKept, ReturnFromBlock, Claimed, Reported, OnItsWay
  <1>4. CASE rows[blockTask].status = "claimed" /\ BlockEnds
    <2>1. PICK o \in Outcome :
            FinalizeBlock(o) /\ (o = "completed" => Owns(snapshot, blockTask))
      BY <1>4 DEF BlockEnds
    <2>2. /\ snapshot' = Finalized(snapshot, blockTask, o)
          /\ blockPc' = "finalizing" /\ blockOutcome' = o /\ blockTask' = blockTask
      BY <2>1 DEF FinalizeBlock
    <2>3. /\ snapshot'.task.id = snapshot.task.id
          /\ \/ snapshot.task.id = blockTask /\ snapshot'.task.state = o
             \/ snapshot' = snapshot
      BY <2>1, <2>2, EndedTask DEF WorkerInv
    <2>4. Claimed'
      BY <1>1, <1>2, <1>4, <2>2 DEF StatusKept, Claimed
    <2>5. Reported'
      BY <1>1, <2>2, <2>3 DEF StatusKept, Reported, OnItsWay
    <2> QED
      BY <2>4, <2>5
  <1>5. CASE rows[blockTask].status = "claimed" /\ BlockWorks
    <2>1. Claimed'
      BY <1>1, <1>2, <1>5 DEF StatusKept, Claimed, BlockWorks
    <2>2. Reported'
      BY <1>1, <1>5 DEF StatusKept, Reported, OnItsWay, BlockWorks, TerminalTask
    <2> QED
      BY <2>1, <2>2
  <1> QED
    BY <1>3, <1>4, <1>5

LEMMA BlockFoundReports ==
  ASSUME WorkerInv, Claimed, Reported, BlockFound, UNCHANGED moveVars, faults' = 0
  PROVE  Claimed' /\ Reported'
  <1>1. blockPc = "finding"
    BY DEF BlockFound, Waits
  <1>2. ~ReadFails
    BY WorkAssumption DEF ReadFails, Fault, WorkerInv, ContextOK, WorkAssumption
  <1>3. /\ UNCHANGED rows
        /\ \/ ReturnFromBlock /\ UNCHANGED snapshot
           \/ /\ rows[blockTask].status = "claimed"
              /\ \/ FinalizeBlock("failed")
                 \/ FinalizeBlock("stopped")
                 \/ GoOn("observing_target")
    BY <1>2 DEF BlockFound, MayPlace, StopAndFinalize
  <1>4. GoOn("observing_target") => BlockWorks
    BY DEF GoOn, BlockWorks
  <1>5. FinalizeBlock("failed") \/ FinalizeBlock("stopped") => BlockEnds
    BY DEF BlockEnds, Outcome
  <1> QED
    BY <1>1, <1>3, <1>4, <1>5, BlockReports DEF StatusKept

LEMMA QuietStepReports ==
  ASSUME WorkerInv, Claimed, Reported, UNCHANGED moveVars,
         \/ PortFailed \/ TargetObserved \/ SupportObserved \/ Place \/ PlaceAnswered
         \/ ResultObserved
  PROVE  Claimed' /\ Reported'
  <1>1. /\ blockPc \notin {"idle", "finding", "finalizing"}
        /\ UNCHANGED rows
    BY DEF PortFailed, TargetObserved, SupportObserved, Place, PlaceAnswered,
       ResultObserved, Waits, Calling
  <1>2. rows[blockTask].status = "claimed" /\ StatusKept
    BY <1>1 DEF Claimed, StatusKept
  <1>3. \/ FinalizeBlock("failed")
        \/ FinalizeBlock("stopped")
        \/ \E pc \in {"observing_support", "placing", "observing_after", "verifying"} :
             GoOn(pc)
        \/ /\ snapshot.task.state = "idle"
           /\ snapshot' = Prepared(snapshot, blockTask)
           /\ blockPc' = "marking" /\ blockTask' = blockTask
    BY DEF PortFailed, TargetObserved, SupportObserved, Place, PlaceAnswered,
       ResultObserved, StopAndFinalize
  <1>4. CASE FinalizeBlock("failed") \/ FinalizeBlock("stopped")
    <2>1. BlockEnds
      BY <1>4 DEF BlockEnds, Outcome
    <2> QED
      BY <1>1, <1>2, <2>1, BlockReports
  <1>5. ASSUME NEW pc \in {"observing_support", "placing", "observing_after", "verifying"},
               GoOn(pc)
        PROVE  Claimed' /\ Reported'
    <2>1. BlockWorks
      BY <1>5 DEF GoOn, BlockWorks
    <2> QED
      BY <1>1, <1>2, <2>1, BlockReports
  <1>6. CASE /\ snapshot.task.state = "idle"
             /\ snapshot' = Prepared(snapshot, blockTask)
             /\ blockPc' = "marking" /\ blockTask' = blockTask
    <2>1. blockTask \in STRING
      BY <1>1, BlockTaskKnown DEF BlockActive
    <2>2. snapshot'.task.state = "running"
      BY <1>6, <2>1, PreparedFacts DEF WorkerInv
    <2>3. BlockWorks
      BY <1>6, <2>2 DEF BlockWorks
    <2> QED
      BY <1>1, <1>2, <2>3, BlockReports
  <1> QED
    BY <1>3, <1>4, <1>5, <1>6

LEMMA RequestStepReports ==
  ASSUME WorkerInv, Claimed, Reported, UNCHANGED moveVars, DeliveryMarked \/ Verified
  PROVE  Claimed' /\ Reported'
  <1>1. /\ blockPc \in {"marking", "verifying"} /\ BlockActive
        /\ Owns(snapshot, blockTask)
    BY DEF DeliveryMarked, Verified, Waits, BlockActive, WorkerInv, Placing
  <1>2. blockTask \in Tasks /\ rows[blockTask].status = "claimed" /\ ContextOK
    BY <1>1, BlockTaskKnown DEF Claimed, WorkerInv
  <1>3. PICK ok \in BOOLEAN :
          /\ \/ MarkRow(blockTask, "not_started", "delivery_started", ok)
             \/ MarkRow(blockTask, "delivery_started", "verified", ok)
          /\ \/ GoOn("sending")
             \/ FinalizeBlock("failed")
             \/ FinalizeBlock("completed")
    BY DEF DeliveryMarked, Verified, AfterMark, StopAndFinalize
  <1>4. \/ rows' = rows
        \/ \E to \in {"delivery_started", "verified"} :
             rows' = [rows EXCEPT ![blockTask].phase = to]
    BY <1>2, <1>3, MarkFacts
  <1>5. StatusKept
    BY <1>2, <1>4 DEF StatusKept, ContextOK, Row
  <1>6. GoOn("sending") => BlockWorks
    BY DEF GoOn, BlockWorks
  <1>7. FinalizeBlock("failed") \/ FinalizeBlock("completed") => BlockEnds
    BY <1>1 DEF BlockEnds, Outcome
  <1> QED
    BY <1>1, <1>2, <1>3, <1>5, <1>6, <1>7, BlockReports

LEMMA BlockFinalizedReports ==
  ASSUME WorkerInv, Claimed, Reported, UNCHANGED moveVars, BlockFinalized, faults' = 0
  PROVE  Claimed' /\ Reported'
  <1>1. /\ blockPc = "finalizing" /\ blockTask \in Tasks /\ blockOutcome \in Outcome
        /\ blockPc' = "idle" /\ UNCHANGED snapshot
        /\ UNCHANGED <<movePc, moveTask, moveOutcome>>
    BY BlockTaskKnown
       DEF BlockFinalized, Waits, BlockActive, WorkerInv, BlockTypeOK, ReturnFromBlock,
       moveVars, moveMemory
  <1>2. rows[blockTask].status = "claimed" /\ ContextOK
    BY <1>1 DEF Claimed, WorkerInv
  <1>3. rows' = [rows EXCEPT ![blockTask].status = blockOutcome]
    BY <1>1, <1>2, FinishFacts DEF BlockFinalized
  <1>4. \A t \in Tasks :
          rows'[t].status = IF t = blockTask THEN blockOutcome ELSE rows[t].status
    BY <1>1, <1>2, <1>3 DEF ContextOK, Row
  <1>5. movePc # "idle" => moveTask \in Tasks /\ moveTask # blockTask
    BY Distinct DEF WorkerInv
  <1>6. Claimed'
    BY <1>1, <1>4, <1>5 DEF Claimed
  <1>7. Reported'
    BY <1>1, <1>2, <1>4, <1>5 DEF Reported, OnItsWay, TerminalTask
  <1> QED
    BY <1>6, <1>7

LEMMA BlockInputReports ==
  ASSUME WorkerInv, Claimed, Reported, UNCHANGED moveVars,
         \/ \E t \in PlaceTasks : ExecuteBlock(t) \/ WorldChanges(t)
         \/ StoreNotified \/ CancelBlock \/ CloseBlock \/ PortSettles
  PROVE  Claimed' /\ Reported'
  <1>1. /\ UNCHANGED <<snapshot, rows, movePc, moveTask, moveOutcome>>
        /\ \/ UNCHANGED <<blockPc, blockTask, blockOutcome>>
           \/ blockPc = "idle" /\ blockPc' = "finding"
    BY DEF ExecuteBlock, WorldChanges, StoreNotified, CancelBlock, CloseBlock,
       PortSettles, Waits, moveVars, moveMemory, blockMemory
  <1> QED
    BY <1>1 DEF Claimed, Reported, OnItsWay

LEMMA BlockResult ==
  ASSUME WorkerInv, ResultInv, BlockNext, UNCHANGED moveVars
  PROVE  ResultInv'
  <1>1. SUFFICES ASSUME faults' = 0 PROVE Claimed' /\ Reported'
    BY DEF ResultInv
  <1>2. faults = 0
    <2>1. faults \in Nat
      BY WorkAssumption DEF WorkerInv, ContextOK, WorkAssumption
    <2>2. UNCHANGED faults \/ Fault
      BY DEF BlockNext, BlockSteps, ExecuteBlock, WorldChanges, BlockFound, ReadFails,
         PortFailed, TargetObserved, SupportObserved, DeliveryMarked, MarkRow, Request,
         Place, PlaceAnswered, ResultObserved, Verified, BlockFinalized, FinishRow,
         StoreNotified, CancelBlock, CloseBlock, PortSettles
    <2> QED
      BY <1>1, <2>1, <2>2 DEF Fault
  <1>3. Claimed /\ Reported
    BY <1>2 DEF ResultInv
  <1> QED
    BY <1>1, <1>3, BlockFoundReports, QuietStepReports, RequestStepReports,
       BlockFinalizedReports, BlockInputReports
       DEF BlockNext, BlockSteps

(* Journeys do the same; s is the store that the end of a journey finds. *)
MoveEndsIn(s, o) ==
  /\ FinalizeMove(s, o)
  /\ o = "completed" => Owns(s, moveTask)

MoveWorks ==
  /\ movePc' \notin {"idle", "finding", "finalizing"}
  /\ moveTask' = moveTask
  /\ snapshot' = snapshot \/ snapshot'.task.state = "running"

LEMMA MoveReports ==
  ASSUME WorkerInv, Claimed, Reported, UNCHANGED rows, UNCHANGED blockOthers,
         movePc \notin {"idle", "finalizing"},
         \/ MoveReturns /\ UNCHANGED snapshot
         \/ /\ rows[moveTask].status = "claimed"
            /\ \/ \E o \in Outcome : MoveEndsIn(snapshot, o)
               \/ MoveWorks
               \/ \E s, o : /\ Consistent(s) /\ Owns(s, moveTask)
                            /\ o \in Outcome /\ MoveEndsIn(s, o)
  PROVE  Claimed' /\ Reported'
  <1>1. UNCHANGED <<blockPc, blockTask, blockOutcome>>
    BY DEF blockOthers
  <1>2. CASE MoveReturns /\ UNCHANGED snapshot
    BY <1>1, <1>2 DEF MoveReturns, Claimed, Reported, OnItsWay
  <1>3. ASSUME NEW s, NEW o \in Outcome, MoveEndsIn(s, o), Consistent(s),
               s = snapshot \/ Owns(s, moveTask), rows[moveTask].status = "claimed"
        PROVE  Claimed' /\ Reported'
    <2>1. /\ snapshot' = Finalized(s, moveTask, o)
          /\ movePc' = "finalizing" /\ moveOutcome' = o /\ moveTask' = moveTask
      BY <1>3 DEF MoveEndsIn, FinalizeMove
    <2>2. \/ s.task.id = moveTask /\ snapshot'.task.id = s.task.id
             /\ snapshot'.task.state = o
          \/ snapshot' = s
      BY <1>3, <2>1, EndedTask DEF MoveEndsIn
    <2>3. Claimed'
      BY <1>1, <1>3, <2>1 DEF Claimed
    <2>4. \/ snapshot' = snapshot
          \/ snapshot'.task.id = moveTask /\ snapshot'.task.state = o
          \/ snapshot'.task.state = "running"
      BY <1>3, <2>2 DEF Owns
    <2>5. Reported'
      BY <1>1, <2>1, <2>4 DEF Reported, OnItsWay, TerminalTask
    <2> QED
      BY <2>3, <2>5
  <1>4. CASE rows[moveTask].status = "claimed" /\ MoveWorks
    BY <1>1, <1>4 DEF MoveWorks, Claimed, Reported, OnItsWay, TerminalTask
  <1>5. Consistent(snapshot)
    BY DEF WorkerInv
  <1> QED
    BY <1>2, <1>3, <1>4, <1>5

LEMMA MoveFoundReports ==
  ASSUME WorkerInv, Claimed, Reported, MoveFound, UNCHANGED blockOthers, faults' = 0
  PROVE  Claimed' /\ Reported'
  <1> DEFINE steps == Plan(snapshot.minecraft.place, Target[moveTask])
             q == Prepared(snapshot, moveTask)
  <1>1. movePc = "finding" /\ moveTask \in STRING /\ Consistent(snapshot)
    BY MoveTaskKnown DEF MoveFound, MoveActive, WorkerInv
  <1>2. ~ReadFails
    BY WorkAssumption DEF ReadFails, Fault, WorkerInv, ContextOK, WorkAssumption
  <1>3. /\ UNCHANGED rows
        /\ \/ MoveReturns /\ UNCHANGED snapshot
           \/ /\ rows[moveTask].status = "claimed"
              /\ \/ \E o \in {"failed", "stopped"} : FinalizeMove(snapshot, o)
                 \/ StoreFree /\ Begin(steps)
    BY <1>2 DEF MoveFound
  <1>4. CASE MoveReturns /\ UNCHANGED snapshot
    BY <1>1, <1>3, <1>4, MoveReports
  <1>5. ASSUME NEW o \in {"failed", "stopped"}, FinalizeMove(snapshot, o),
               rows[moveTask].status = "claimed"
        PROVE  Claimed' /\ Reported'
    <2>1. o \in Outcome /\ MoveEndsIn(snapshot, o)
      BY <1>5 DEF Outcome, MoveEndsIn
    <2> QED
      BY <1>1, <1>3, <1>5, <2>1, MoveReports
  <1>6. CASE StoreFree /\ Begin(steps) /\ rows[moveTask].status = "claimed"
    <2>1. Consistent(q) /\ Owns(q, moveTask)
      BY <1>1, <1>6, PreparedFacts DEF StoreFree, Owns
    <2>2. \/ \E o \in {"stopped", "completed"} : FinalizeMove(q, o)
          \/ movePc' = "stepping" /\ moveTask' = moveTask /\ snapshot' = q
      BY <1>6 DEF Begin, Arrive, StopAndFinalizeMove
    <2> HIDE DEF q
    <2>3. ASSUME NEW o \in {"stopped", "completed"}, FinalizeMove(q, o)
          PROVE  Claimed' /\ Reported'
      <3>1. o \in Outcome /\ MoveEndsIn(q, o)
        BY <2>1, <2>3 DEF Outcome, MoveEndsIn
      <3> QED
        BY <1>1, <1>3, <1>6, <2>1, <3>1, MoveReports
    <2>4. CASE movePc' = "stepping" /\ moveTask' = moveTask /\ snapshot' = q
      <3>1. MoveWorks
        BY <2>1, <2>4 DEF MoveWorks, Owns
      <3> QED
        BY <1>1, <1>3, <1>6, <3>1, MoveReports
    <2> QED
      BY <2>2, <2>3, <2>4
  <1> QED
    BY <1>3, <1>4, <1>5, <1>6

LEMMA MoveStepReports ==
  ASSUME WorkerInv, Claimed, Reported, UNCHANGED blockOthers,
         \/ StepAllowed
         \/ \E tick \in Tick \cup {NoTick} : Step(tick)
         \/ StepFailed \/ StepObserved
  PROVE  Claimed' /\ Reported'
  <1> DEFINE next == Advanced(snapshot, moveAnswer, done + 1)
  <1>1. /\ movePc \in Walking /\ MoveActive /\ UNCHANGED rows
        /\ movePc \notin {"idle", "finding", "finalizing"}
    BY DEF StepAllowed, Step, StepFailed, StepObserved, Walking, MoveActive
  <1>2. /\ rows[moveTask].status = "claimed" /\ Consistent(snapshot)
        /\ Owns(snapshot, moveTask) /\ MoveTypeOK /\ done < Len(plan)
    BY <1>1 DEF Claimed, WorkerInv
  <1>3. StepObserved => Consistent(next) /\ Owns(next, moveTask)
    <2>1. SUFFICES ASSUME StepObserved PROVE Consistent(next) /\ Owns(next, moveTask)
      OBVIOUS
    <2>2. moveAnswer \in Places /\ Len(plan) \in Nat /\ done + 1 \in 1..Len(plan)
      BY <1>2, <2>1 DEF StepObserved, MoveTypeOK
    <2>3. moveAnswer \in STRING
      BY <2>2, MovementAssumption DEF Places, MovementAssumption
    <2> QED
      BY <1>2, <2>2, <2>3, AdvancedFacts
  <1>4. \/ \E o \in {"failed", "stopped"} : FinalizeMove(snapshot, o)
        \/ StepObserved /\ \E o \in {"stopped", "completed"} : FinalizeMove(next, o)
        \/ /\ movePc' \in Walking /\ moveTask' = moveTask
           /\ snapshot' = snapshot \/ (StepObserved /\ snapshot' = next)
    BY DEF StepAllowed, Step, StepFailed, StepObserved, StopAndFinalizeMove, Arrive, Walking
  <1> HIDE DEF next
  <1>5. ASSUME NEW o \in {"failed", "stopped"}, FinalizeMove(snapshot, o)
        PROVE  Claimed' /\ Reported'
    <2>1. o \in Outcome /\ MoveEndsIn(snapshot, o)
      BY <1>5 DEF Outcome, MoveEndsIn
    <2> QED
      BY <1>1, <1>2, <2>1, MoveReports
  <1>6. ASSUME StepObserved, NEW o \in {"stopped", "completed"}, FinalizeMove(next, o)
        PROVE  Claimed' /\ Reported'
    <2>1. o \in Outcome /\ MoveEndsIn(next, o)
      BY <1>3, <1>6 DEF Outcome, MoveEndsIn
    <2> QED
      BY <1>1, <1>2, <1>3, <1>6, <2>1, MoveReports
  <1>7. CASE /\ movePc' \in Walking /\ moveTask' = moveTask
             /\ snapshot' = snapshot \/ (StepObserved /\ snapshot' = next)
    <2>1. MoveWorks
      BY <1>2, <1>3, <1>7 DEF MoveWorks, Walking, Owns
    <2> QED
      BY <1>1, <1>2, <2>1, MoveReports
  <1> QED
    BY <1>4, <1>5, <1>6, <1>7

LEMMA MoveFinalizedReports ==
  ASSUME WorkerInv, Claimed, Reported, UNCHANGED blockOthers, MoveFinalized, faults' = 0
  PROVE  Claimed' /\ Reported'
  <1>1. /\ movePc = "finalizing" /\ moveTask \in Tasks /\ moveOutcome \in Outcome
        /\ movePc' = "idle" /\ UNCHANGED snapshot
        /\ UNCHANGED <<blockPc, blockTask, blockOutcome>>
    BY MoveTaskKnown
       DEF MoveFinalized, MoveActive, WorkerInv, MoveTypeOK, MoveReturns, blockOthers
  <1>2. rows[moveTask].status = "claimed" /\ ContextOK
    BY <1>1 DEF Claimed, WorkerInv
  <1>3. rows' = [rows EXCEPT ![moveTask].status = moveOutcome]
    BY <1>1, <1>2, FinishFacts DEF MoveFinalized
  <1>4. \A t \in Tasks :
          rows'[t].status = IF t = moveTask THEN moveOutcome ELSE rows[t].status
    BY <1>1, <1>2, <1>3 DEF ContextOK, Row
  <1>5. blockPc # "idle" => blockTask \in Tasks /\ moveTask # blockTask
    BY Distinct DEF WorkerInv
  <1>6. Claimed'
    BY <1>1, <1>4, <1>5 DEF Claimed
  <1>7. Reported'
    BY <1>1, <1>2, <1>4, <1>5 DEF Reported, OnItsWay, TerminalTask
  <1> QED
    BY <1>6, <1>7

LEMMA MoveInputReports ==
  ASSUME WorkerInv, Claimed, Reported, UNCHANGED blockOthers,
         \/ \E t \in MoveTasks : ExecuteMove(t)
         \/ CancelMove \/ ClosePort \/ StepSettles
         \/ \E tick \in Tick : PlacementAcquires(tick)
         \/ PlacementCommits \/ PlacementReleases
  PROVE  Claimed' /\ Reported'
  <1>1. /\ UNCHANGED <<snapshot, rows, blockPc, blockTask, blockOutcome>>
        /\ \/ UNCHANGED <<movePc, moveTask, moveOutcome>>
           \/ movePc = "idle" /\ movePc' = "finding"
    BY DEF ExecuteMove, CancelMove, ClosePort, StepSettles, PlacementAcquires,
       PlacementCommits, PlacementReleases, moveMemory, blockOthers
  <1> QED
    BY <1>1 DEF Claimed, Reported, OnItsWay

LEMMA MoveResult ==
  ASSUME WorkerInv, ResultInv, MoveNext, UNCHANGED blockOthers
  PROVE  ResultInv'
  <1>1. SUFFICES ASSUME faults' = 0 PROVE Claimed' /\ Reported'
    BY DEF ResultInv
  <1>2. faults = 0
    <2>1. faults \in Nat
      BY WorkAssumption DEF WorkerInv, ContextOK, WorkAssumption
    <2>2. UNCHANGED faults \/ Fault
      BY DEF MoveNext, MoveSteps, ExecuteMove, MoveFound, ReadFails, StepAllowed, Step, StepFailed,
         StepObserved, MoveFinalized, FinishRow, Request, CancelMove, ClosePort,
         StepSettles, PlacementAcquires, PlacementCommits, PlacementReleases
    <2> QED
      BY <1>1, <2>1, <2>2 DEF Fault
  <1>3. Claimed /\ Reported
    BY <1>2 DEF ResultInv
  <1> QED
    BY <1>1, <1>3, MoveFoundReports, MoveStepReports, MoveFinalizedReports,
       MoveInputReports
       DEF MoveNext, MoveSteps

LEMMA OthersResult ==
  ASSUME WorkerInv, ResultInv, Others, UNCHANGED <<moveVars, blockOthers>>
  PROVE  ResultInv'
  <1>1. UNCHANGED <<blockPc, blockTask, blockOutcome, movePc, moveTask, moveOutcome, faults>>
    BY DEF moveVars, moveMemory, blockOthers, Others, Runtime, Claim, ReaderBegins,
       ReaderEnds, CallerResets
  <1>2. SUFFICES ASSUME Claimed, Reported PROVE Claimed' /\ Reported'
    BY <1>1 DEF ResultInv
  <1>3. ASSUME UNCHANGED rows,
               \/ snapshot'.task = snapshot.task
               \/ snapshot'.task.state \notin TerminalTask
               \/ snapshot'.task.id \notin Tasks
        PROVE  Claimed' /\ Reported'
    BY <1>1, <1>2, <1>3 DEF Claimed, Reported, OnItsWay
  <1>4. ASSUME NEW c \in RuntimeCommands, Runtime(c)
        PROVE  Claimed' /\ Reported'
    BY <1>3, <1>4, RuntimeFacts DEF Runtime, WorkerInv
  <1>5. ASSUME NEW t \in Tasks, Claim(t)
        PROVE  Claimed' /\ Reported'
    <2>1. \A u \in Tasks : \/ rows'[u].status = rows[u].status
                           \/ rows[u].status = "queued" /\ rows'[u].status = "claimed"
      BY <1>5 DEF Claim, WorkerInv, ContextOK, Row
    <2>2. /\ blockPc # "idle" => blockTask \in Tasks
          /\ movePc # "idle" => moveTask \in Tasks
      BY BlockTaskKnown, MoveTaskKnown DEF BlockActive, MoveActive
    <2>3. UNCHANGED snapshot
      BY <1>5 DEF Claim
    <2>4. Claimed'
      BY <1>1, <1>2, <2>1, <2>2 DEF Claimed
    <2>5. Reported'
      BY <1>1, <1>2, <2>1, <2>3 DEF Reported, OnItsWay, TerminalTask
    <2> QED
      BY <2>4, <2>5
  <1>6. CASE ReaderBegins
    <2>1. snapshot'.task.state = "running" /\ UNCHANGED rows
      BY <1>6, ReaderFacts DEF Owns, ReaderBegins
    <2> QED
      BY <1>3, <2>1 DEF TerminalTask
  <1>7. CASE ReaderEnds
    <2>1. Owns(snapshot, ReadTask) /\ Consistent(snapshot)
      BY <1>7 DEF ReaderEnds, WorkerInv
    <2>2. snapshot'.task.id = ReadTask
      BY <1>7, <2>1, EndedTask DEF ReaderEnds, Owns, Outcome
    <2>3. ReadTask \notin Tasks
      BY ProcessAssumption DEF ProcessAssumption
    <2> QED
      BY <1>3, <1>7, <2>2, <2>3 DEF ReaderEnds
  <1>8. CASE CallerResets
    <2>1. snapshot' = [snapshot EXCEPT !.task = IdleTask] /\ UNCHANGED rows
      BY <1>8 DEF CallerResets, After, TaskCommand, MinecraftCommand, TaskAfter
    <2>2. snapshot'.task.state = "idle"
      BY <2>1 DEF IdleTask, WorkerInv, Consistent, Snapshot
    <2> QED
      BY <1>3, <2>1, <2>2 DEF TerminalTask
  <1> QED
    BY <1>4, <1>5, <1>6, <1>7, <1>8 DEF Others

LEMMA ResultStep ==
  ASSUME WorkerInv, ResultInv, [Next]_vars
  PROVE  ResultInv'
  <1>1. CASE BlockNext /\ UNCHANGED <<moveVars, reading>>
    BY <1>1, BlockResult
  <1>2. CASE MoveNext /\ BesidesBlock
    BY <1>2, MoveResult DEF BesidesBlock
  <1>3. CASE Others /\ BesidesBlock /\ UNCHANGED moveVars
    BY <1>3, OthersResult DEF BesidesBlock
  <1>4. CASE Crash
    BY <1>4, WorkAssumption DEF Crash, Fault, WorkerInv, ContextOK, WorkAssumption, ResultInv
  <1>5. CASE UNCHANGED vars
    BY <1>5 DEF vars, blockOthers, moveVars, moveMemory, ResultInv, Claimed, Reported,
       OnItsWay
  <1> QED
    BY <1>1, <1>2, <1>3, <1>4, <1>5 DEF Next

\* Without a fault no other step takes the row of a task under way, and a result
\* of the store is in its row or on its way there.
THEOREM ResultInvariance == Spec => []ResultInv
  <1>1. Init => ResultInv
    BY DEF Init, BlockInit, MoveInit, Spawned, InitialSnapshot, IdleTask, ResultInv,
       Claimed, Reported, TerminalTask
  <1>2. WorkerInv /\ ResultInv /\ [Next]_vars => ResultInv'
    BY ResultStep
  <1> QED
    BY <1>1, <1>2, WorkerInvariance, PTL DEF Spec

\* For any number of tasks: once nobody works on the task of the store any more,
\* the queue says of it what the store says, unless a request or process was lost.
THEOREM AlwaysSameResult == Spec => []SameResult
  <1>1. ResultInv => SameResult
    BY DEF ResultInv, Reported, OnItsWay, SameResult
  <1> QED
    BY <1>1, ResultInvariance, PTL

----------------------------------------------------------------------------
(* The process against the life cycle the task queue promises.  Its rows   *)
(* start queued, so that only the steps are compared.                      *)

Lifecycle == INSTANCE TaskLifecycle
               WITH Placing <- PlaceTasks,
                    status <- [t \in Tasks |-> rows[t].status],
                    phase <- [t \in Tasks |-> rows[t].phase]

RowsFollowLifecycle == [][Lifecycle!Next]_(Lifecycle!vars)

\* The ways a row may go: it is claimed, finished, or its delivery is recorded.
LegalRow(t, new) ==
  LET old == rows[t] IN
  \/ /\ new = [old EXCEPT !.status = "claimed"]
     /\ old.status = "queued"
  \/ /\ old.status = "claimed"
     /\ \E o \in Outcome : new = [old EXCEPT !.status = o]
  \/ /\ t \in PlaceTasks
     /\ old.status = "claimed" /\ old.phase = "not_started"
     /\ new = [old EXCEPT !.phase = "delivery_started"]
  \/ /\ old.status = "claimed" /\ old.phase = "delivery_started"
     /\ new = [old EXCEPT !.phase = "verified"]

RowGoes == \E t \in Tasks, new \in Row :
             LegalRow(t, new) /\ rows' = [rows EXCEPT ![t] = new]

LEMMA FinishGoes ==
  ASSUME ContextOK, NEW t \in Tasks, NEW o \in Outcome, NEW ok \in BOOLEAN,
         FinishRow(t, o, ok)
  PROVE  UNCHANGED rows \/ RowGoes
  <1> DEFINE new == [rows[t] EXCEPT !.status = o]
  <1>1. new \in Row
    BY DEF ContextOK, Row, Outcome
  <1>2. \/ UNCHANGED rows
        \/ rows[t].status = "claimed" /\ rows' = [rows EXCEPT ![t] = new]
    BY DEF FinishRow, Request
  <1>3. rows[t].status = "claimed" => LegalRow(t, new)
    BY DEF LegalRow
  <1> HIDE DEF new
  <1> QED
    BY <1>1, <1>2, <1>3 DEF RowGoes

LEMMA MarkGoes ==
  ASSUME ContextOK, NEW t \in PlaceTasks, NEW ok \in BOOLEAN, NEW from, NEW to,
         <<from, to>> \in {<<"not_started", "delivery_started">>,
                           <<"delivery_started", "verified">>},
         MarkRow(t, from, to, ok)
  PROVE  UNCHANGED rows \/ RowGoes
  <1> DEFINE new == [rows[t] EXCEPT !.phase = to]
  <1>1. new \in Row /\ t \in Tasks
    BY DEF ContextOK, Row, Tasks
  <1>2. \/ UNCHANGED rows
        \/ /\ rows[t].status = "claimed" /\ rows[t].phase = from
           /\ rows' = [rows EXCEPT ![t] = new]
    BY DEF MarkRow, Request
  <1>3. rows[t].status = "claimed" /\ rows[t].phase = from => LegalRow(t, new)
    BY DEF LegalRow
  <1> HIDE DEF new
  <1> QED
    BY <1>1, <1>2, <1>3 DEF RowGoes

\* A step leaves the rows alone, or one row goes one of the ways known.
LEMMA RowSteps ==
  ASSUME WorkerInv, [Next]_vars
  PROVE  UNCHANGED rows \/ RowGoes
  <1>1. ContextOK
    BY DEF WorkerInv
  <1>2. CASE DeliveryMarked \/ Verified
    <2>1. BlockActive
      BY <1>2 DEF DeliveryMarked, Verified, Waits, BlockActive
    <2> QED
      BY <1>1, <1>2, <2>1, BlockTaskKnown, MarkGoes DEF DeliveryMarked, Verified
  <1>3. CASE BlockFinalized
    <2>1. blockTask \in Tasks /\ blockOutcome \in Outcome
      BY <1>3, BlockTaskKnown
         DEF BlockFinalized, Waits, BlockActive, WorkerInv, BlockTypeOK, Tasks
    <2> QED
      BY <1>1, <1>3, <2>1, FinishGoes DEF BlockFinalized
  <1>4. CASE MoveFinalized
    <2>1. moveTask \in Tasks /\ moveOutcome \in Outcome
      BY <1>4, MoveTaskKnown DEF MoveFinalized, MoveActive, WorkerInv, MoveTypeOK
    <2> QED
      BY <1>1, <1>4, <2>1, FinishGoes DEF MoveFinalized
  <1>5. ASSUME NEW t \in Tasks, Claim(t)
        PROVE  RowGoes
    <2> DEFINE new == [rows[t] EXCEPT !.status = "claimed"]
    <2>1. new \in Row /\ LegalRow(t, new) /\ rows' = [rows EXCEPT ![t] = new]
      BY <1>1, <1>5 DEF ContextOK, Row, LegalRow, Claim
    <2> HIDE DEF new
    <2> QED
      BY <2>1 DEF RowGoes
  <1>6. CASE BlockNext /\ ~(DeliveryMarked \/ Verified \/ BlockFinalized)
    BY <1>6
       DEF BlockNext, BlockSteps, BlockFound, ReadFails, PortFailed, TargetObserved,
       SupportObserved, Place, PlaceAnswered, ResultObserved, ExecuteBlock,
       StoreNotified, CancelBlock, CloseBlock, PortSettles, WorldChanges
  <1>7. CASE MoveNext /\ ~MoveFinalized
    BY <1>7
       DEF MoveNext, MoveSteps, ExecuteMove, MoveFound, ReadFails, StepAllowed, Step, StepFailed,
       StepObserved, CancelMove, ClosePort, StepSettles, PlacementAcquires,
       PlacementCommits, PlacementReleases
  <1>8. CASE Others
    BY <1>5, <1>8 DEF Others, Runtime, ReaderBegins, ReaderEnds, CallerResets
  <1>9. CASE Crash \/ UNCHANGED vars
    BY <1>9 DEF Crash, vars
  <1> QED
    BY <1>2, <1>3, <1>4, <1>6, <1>7, <1>8, <1>9 DEF Next

\* Whatever the two coordinators, their faults and crashes make of the rows, a
\* task only goes the ways of the life cycle: it is finished once, its delivery
\* is recorded before its verification and only for a placement, both while it
\* is claimed, and what was claimed never goes back to the queue.
THEOREM KeepsLifecycle == Spec => RowsFollowLifecycle
  <1> DEFINE st == [t \in Tasks |-> rows[t].status]
             ph == [t \in Tasks |-> rows[t].phase]
  <1>1. ASSUME WorkerInv, [Next]_vars
        PROVE  [Lifecycle!Next]_(Lifecycle!vars)
    <2>1. CASE UNCHANGED rows
      BY <2>1 DEF Lifecycle!vars
    <2>2. CASE RowGoes
      <3>1. PICK t \in Tasks, new \in Row :
              LegalRow(t, new) /\ rows' = [rows EXCEPT ![t] = new]
        BY <2>2 DEF RowGoes
      <3>2. /\ st' = [st EXCEPT ![t] = new.status]
            /\ ph' = [ph EXCEPT ![t] = new.phase]
            /\ st[t] = rows[t].status /\ ph[t] = rows[t].phase
        BY <1>1, <3>1 DEF WorkerInv, ContextOK
      <3>3. new.phase = rows[t].phase => ph' = ph
        BY <3>2
      <3>4. new.status = rows[t].status => st' = st
        BY <3>2
      <3>5. rows[t] \in Row
        BY <1>1 DEF WorkerInv, ContextOK
      <3> HIDE DEF st, ph
      <3>6. Lifecycle!Next
        BY <3>1, <3>2, <3>3, <3>4, <3>5
           DEF LegalRow, Row, Outcome, st, ph, Lifecycle!Next, Lifecycle!Claim,
           Lifecycle!Finish, Lifecycle!StartDelivery, Lifecycle!Verify,
           Lifecycle!Move, Lifecycle!Advance, Lifecycle!Outcome
      <3> QED
        BY <3>6
    <2> QED
      BY <1>1, <2>1, <2>2, RowSteps
  <1>2. WorkerInv /\ [Next]_vars => [Lifecycle!Next]_(Lifecycle!vars)
    BY <1>1
  <1> QED
    BY <1>2, WorkerInvariance, PTL DEF Spec, RowsFollowLifecycle

----------------------------------------------------------------------------
(* Executions end: how many steps are left                                 *)

\* A call of the port takes two steps, its settling and its end.
Unsettled == IF blockAnswer = "none" THEN 1 ELSE 0

\* What is left of a placement, counted in its own steps.
BlockLeft ==
  IF blockPc = "idle" THEN 0
  ELSE IF blockPc = "finalizing" THEN 1
  ELSE IF blockPc = "verifying" THEN 2
  ELSE IF blockPc = "observing_after" THEN 3 + Unsettled
  ELSE IF blockPc = "placing" THEN 5 + Unsettled
  ELSE IF blockPc = "sending" THEN 7
  ELSE IF blockPc = "marking" THEN 8
  ELSE IF blockPc = "observing_support" THEN 9 + Unsettled
  ELSE IF blockPc = "observing_target" THEN 11 + Unsettled
  ELSE 13

\* Every step of a placement brings it nearer to its end, and no step of anybody
\* else, no abort and no notification takes it back.
BlockAdvances ==
  /\ BlockSteps \/ PortSettles => BlockLeft' < BlockLeft
  /\ BlockActive => BlockLeft' <= BlockLeft

LEMMA BlockLeftByPc ==
  ASSUME BlockTypeOK, BlockActive
  PROVE  /\ BlockLeft > 0
         /\ blockPc # "finalizing" => BlockLeft > 1
  BY DEF BlockLeft, Unsettled, BlockActive, BlockTypeOK, Calling

\* A step that ends the execution, or the last one.
LEMMA BlockEndsLower ==
  ASSUME BlockTypeOK, BlockActive,
         \/ ReturnFromBlock
         \/ blockPc # "finalizing" /\ \E o : FinalizeBlock(o)
  PROVE  BlockLeft' < BlockLeft
  <1>1. BlockLeft > 0 /\ (blockPc # "finalizing" => BlockLeft > 1)
    BY BlockLeftByPc
  <1>2. CASE ReturnFromBlock
    BY <1>1, <1>2 DEF ReturnFromBlock, BlockLeft
  <1>3. CASE blockPc # "finalizing" /\ \E o : FinalizeBlock(o)
    BY <1>1, <1>3 DEF FinalizeBlock, BlockLeft
  <1> QED
    BY <1>2, <1>3

\* A step that goes on to the next request.
LEMMA BlockGoesLower ==
  ASSUME blockAnswer' = "none",
         \/ blockPc = "finding" /\ blockPc' = "observing_target"
         \/ blockPc = "observing_target" /\ blockAnswer # "none" /\ blockPc' = "observing_support"
         \/ blockPc = "observing_support" /\ blockAnswer # "none" /\ blockPc' = "marking"
         \/ blockPc = "marking" /\ blockPc' = "sending"
         \/ blockPc = "sending" /\ blockPc' = "placing"
         \/ blockPc = "placing" /\ blockAnswer # "none" /\ blockPc' = "observing_after"
         \/ blockPc = "observing_after" /\ blockAnswer # "none" /\ blockPc' = "verifying"
  PROVE  BlockLeft' < BlockLeft
  BY DEF BlockLeft, Unsettled

LEMMA BlockStepLower ==
  ASSUME BlockTypeOK, BlockSteps
  PROVE  BlockLeft' < BlockLeft
  <1>0. BlockActive
    BY DEF BlockSteps, BlockFound, PortFailed, TargetObserved, SupportObserved,
       DeliveryMarked, Place, PlaceAnswered, ResultObserved, Verified, BlockFinalized,
       Waits, BlockActive, Calling
  <1>1. CASE BlockFound
    <2>1. /\ blockPc = "finding"
          /\ \/ ReturnFromBlock
             \/ \E o : FinalizeBlock(o)
             \/ GoOn("observing_target")
      BY <1>1 DEF BlockFound, Waits, StopAndFinalize
    <2> QED
      BY <1>0, <2>1, BlockEndsLower, BlockGoesLower DEF GoOn
  <1>2. CASE PortFailed
    <2>1. blockPc # "finalizing" /\ \E o : FinalizeBlock(o)
      BY <1>2 DEF PortFailed, StopAndFinalize, Calling
    <2> QED
      BY <1>0, <2>1, BlockEndsLower
  <1>3. CASE TargetObserved
    <2>1. /\ blockPc = "observing_target" /\ blockAnswer # "none"
          /\ (\E o : FinalizeBlock(o)) \/ GoOn("observing_support")
      BY <1>3 DEF TargetObserved, Waits
    <2> QED
      BY <1>0, <2>1, BlockEndsLower, BlockGoesLower DEF GoOn
  <1>4. CASE SupportObserved
    <2>1. /\ blockPc = "observing_support" /\ blockAnswer # "none"
          /\ \/ \E o : FinalizeBlock(o)
             \/ blockPc' = "marking" /\ blockAnswer' = "none"
      BY <1>4 DEF SupportObserved, Waits, StopAndFinalize
    <2> QED
      BY <1>0, <2>1, BlockEndsLower, BlockGoesLower
  <1>5. CASE DeliveryMarked
    <2>1. /\ blockPc = "marking"
          /\ (\E o : FinalizeBlock(o)) \/ GoOn("sending")
      BY <1>5 DEF DeliveryMarked, AfterMark, StopAndFinalize, Waits
    <2> QED
      BY <1>0, <2>1, BlockEndsLower, BlockGoesLower DEF GoOn
  <1>6. CASE Place
    <2>1. /\ blockPc = "sending"
          /\ (\E o : FinalizeBlock(o)) \/ GoOn("placing")
      BY <1>6 DEF Place, StopAndFinalize, Waits
    <2> QED
      BY <1>0, <2>1, BlockEndsLower, BlockGoesLower DEF GoOn
  <1>7. CASE PlaceAnswered
    <2>1. /\ blockPc = "placing" /\ blockAnswer # "none"
          /\ (\E o : FinalizeBlock(o)) \/ GoOn("observing_after")
      BY <1>7 DEF PlaceAnswered, StopAndFinalize, Waits
    <2> QED
      BY <1>0, <2>1, BlockEndsLower, BlockGoesLower DEF GoOn
  <1>8. CASE ResultObserved
    <2>1. /\ blockPc = "observing_after" /\ blockAnswer # "none"
          /\ (\E o : FinalizeBlock(o)) \/ GoOn("verifying")
      BY <1>8 DEF ResultObserved, StopAndFinalize, Waits
    <2> QED
      BY <1>0, <2>1, BlockEndsLower, BlockGoesLower DEF GoOn
  <1>9. CASE Verified
    <2>1. blockPc = "verifying" /\ \E o : FinalizeBlock(o)
      BY <1>9 DEF Verified, StopAndFinalize, Waits
    <2> QED
      BY <1>0, <2>1, BlockEndsLower
  <1>10. CASE BlockFinalized
    BY <1>0, <1>10, BlockEndsLower DEF BlockFinalized
  <1> QED
    BY <1>1, <1>2, <1>3, <1>4, <1>5, <1>6, <1>7, <1>8, <1>9, <1>10 DEF BlockSteps

LEMMA PortSettlesLower ==
  ASSUME WorkerInv, PortSettles
  PROVE  BlockLeft' < BlockLeft
  <1>1. blockPc \in Calling /\ blockPc' = blockPc /\ blockAnswer = "none"
    BY DEF PortSettles
  <1>2. world[blockTask] # "none"
    BY <1>1, BlockTaskKnown DEF WorkerInv, BlockTypeOK, BlockActive, Calling
  <1>3. blockAnswer' # "none"
    BY <1>2 DEF PortSettles, Calling
  <1> QED
    BY <1>1, <1>3 DEF BlockLeft, Unsettled, Calling

\* What does not touch the call or its place in the execution.
LEMMA BlockLeftStays ==
  ASSUME UNCHANGED <<blockPc, blockAnswer>>
  PROVE  BlockLeft' = BlockLeft
  BY DEF BlockLeft, Unsettled

LEMMA BlockOnlyAdvances ==
  ASSUME WorkerInv, [Next]_vars
  PROVE  BlockAdvances
  <1>1. BlockSteps \/ PortSettles => BlockLeft' < BlockLeft
    BY BlockStepLower, PortSettlesLower DEF WorkerInv
  <1>2. BlockLeft \in 0..13 /\ BlockLeft' \in 0..13
    BY DEF BlockLeft, Unsettled
  <1>3. CASE BlockSteps \/ PortSettles
    BY <1>1, <1>2, <1>3 DEF BlockAdvances
  <1>4. CASE UNCHANGED <<blockPc, blockAnswer>>
    BY <1>1, <1>2, <1>4, BlockLeftStays DEF BlockAdvances
  <1>5. CASE \E t \in PlaceTasks : ExecuteBlock(t)
    <2>1. ~BlockActive
      BY <1>5 DEF ExecuteBlock, Waits, BlockActive
    <2> QED
      BY <1>1, <2>1 DEF BlockAdvances
  <1>6. CASE Crash
    <2>1. BlockLeft' = 0
      BY <1>6 DEF Crash, BlockLost, ReturnFromBlock, BlockLeft
    <2> QED
      BY <1>1, <1>2, <2>1 DEF BlockAdvances
  <1>7. (\E t \in PlaceTasks : WorldChanges(t)) \/ StoreNotified \/ CancelBlock \/ CloseBlock
          => UNCHANGED <<blockPc, blockAnswer>>
    BY DEF WorldChanges, blockMemory, StoreNotified, CancelBlock, CloseBlock
  <1>8. BesidesBlock \/ UNCHANGED vars => UNCHANGED <<blockPc, blockAnswer>>
    BY DEF BesidesBlock, blockOthers, vars
  <1> QED
    BY <1>3, <1>4, <1>5, <1>6, <1>7, <1>8 DEF Next, BlockNext

\* An execution of a placement ends: it takes thirteen steps of its own at most,
\* every one of them brings it nearer to its end, and nothing that comes in
\* between, no abort, denial, close or late change of the world, leads it back.
THEOREM PlacementsAdvance == Spec => [][BlockAdvances]_vars
  <1>1. WorkerInv /\ [Next]_vars => [BlockAdvances]_vars
    BY BlockOnlyAdvances
  <1> QED
    BY <1>1, WorkerInvariance, PTL DEF Spec

\* What is left of a journey, counted in its own steps: four per step of the
\* plan, which is allowed, sent, settles and is judged.
MoveLeft ==
  LET ahead == 4 * (Len(plan) - done) IN
  IF movePc = "idle" THEN 0
  ELSE IF movePc = "finalizing" THEN 1
  ELSE IF movePc = "moving" THEN (IF moveAnswer = "none" THEN ahead ELSE ahead - 1)
  ELSE IF movePc = "sending" THEN ahead + 1
  ELSE IF movePc = "stepping" THEN ahead + 2
  ELSE 4 * MaxSteps + 3

\* Every step of a journey brings it nearer to its end, and no step of anybody
\* else, no abort and no closed port, takes it back.
MoveAdvances ==
  /\ MoveSteps \/ StepSettles => MoveLeft' < MoveLeft
  /\ MoveActive => MoveLeft' <= MoveLeft

\* A plan under way is no longer than the limit it was made with.
PlanInv == Len(plan) <= MaxSteps

LEMMA PlanLength ==
  ASSUME NEW from \in Places, NEW to \in Places
  PROVE  Len(Plan(from, to)) = Distance(from, to)
  <1>1. Distance(from, to) \in Nat
    BY DistanceFacts
  <1> QED
    BY <1>1 DEF Plan

LEMMA PlanStep ==
  ASSUME WorkerInv, PlanInv, [Next]_vars
  PROVE  PlanInv'
  <1>1. CASE UNCHANGED plan
    BY <1>1 DEF PlanInv
  <1>2. CASE MoveReturns
    <2>1. plan' = <<>> /\ Len(<<>>) = 0
      BY <1>2 DEF MoveReturns
    <2> QED
      BY <2>1, MovementAssumption DEF PlanInv, MovementAssumption
  <1>3. CASE MoveFound
    <2>1. CASE UNCHANGED plan \/ MoveReturns
      BY <1>1, <1>2, <2>1
    <2>2. CASE /\ CanPlan(snapshot.minecraft.place, Target[moveTask])
               /\ plan' = Plan(snapshot.minecraft.place, Target[moveTask])
      <3>1. MoveActive
        BY <1>3 DEF MoveFound, MoveActive
      <3>2. Target[moveTask] \in Places
        BY <3>1, MoveTaskKnown
      <3>3. Len(plan') = Distance(snapshot.minecraft.place, Target[moveTask])
        BY <2>2, <3>2, PlanLength DEF CanPlan
      <3> QED
        BY <2>2, <3>3 DEF CanPlan, PlanInv
    <2> QED
      BY <1>3, <2>1, <2>2
         DEF MoveFound, StopAndFinalizeMove, FinalizeMove, Begin, Arrive
  <1>4. MoveNext => UNCHANGED plan \/ MoveReturns \/ MoveFound
    BY DEF MoveNext, MoveSteps, ExecuteMove, StepAllowed, Step, StepFailed, StepObserved, Arrive,
       MoveFinalized, StopAndFinalizeMove, FinalizeMove, CancelMove, ClosePort,
       StepSettles, PlacementAcquires, PlacementCommits, PlacementReleases, moveMemory
  <1>5. Crash => MoveReturns
    BY DEF Crash, MoveLost
  <1>6. UNCHANGED moveVars \/ UNCHANGED vars => UNCHANGED plan
    BY DEF moveVars, moveMemory, vars
  <1> QED
    BY <1>1, <1>2, <1>3, <1>4, <1>5, <1>6 DEF Next

\* No plan is longer than limits.maxSteps, whatever the store shows when it is made.
THEOREM PlansAreBounded == Spec => []PlanInv
  <1>1. Init => PlanInv
    <2>1. Init => plan = <<>> /\ Len(<<>>) = 0
      BY DEF Init, MoveInit
    <2> QED
      BY <2>1, MovementAssumption DEF PlanInv, MovementAssumption
  <1>2. WorkerInv /\ PlanInv /\ [Next]_vars => PlanInv'
    BY PlanStep
  <1> QED
    BY <1>1, <1>2, WorkerInvariance, PTL DEF Spec

LEMMA MoveLeftTypes ==
  ASSUME WorkerInv, PlanInv
  PROVE  /\ MoveLeft \in Nat
         /\ MoveActive => MoveLeft > 0
         /\ movePc \in {"finding", "stepping", "sending", "moving"} => MoveLeft > 1
         /\ movePc \in Walking => Len(plan) \in Nat /\ done \in Nat /\ done < Len(plan)
         /\ MaxSteps \in Nat
  <1>1. plan \in Seq(Places) /\ done \in 0..Len(plan) /\ MaxSteps \in Nat
    BY MovementAssumption DEF WorkerInv, MoveTypeOK, MovementAssumption
  <1>2. Len(plan) \in Nat /\ done \in Nat
    BY <1>1
  <1>3. movePc \in Walking => done < Len(plan)
    BY DEF WorkerInv
  <1>4. movePc \in {"idle", "finding", "stepping", "sending", "moving", "finalizing"}
    BY DEF WorkerInv, MoveTypeOK
  <1> DEFINE n == Len(plan)
  <1> HIDE DEF n
  <1>5. n \in Nat /\ (movePc \in Walking => done < n)
    BY <1>2, <1>3 DEF n
  <1>6. MoveLeft = IF movePc = "idle" THEN 0
                   ELSE IF movePc = "finalizing" THEN 1
                   ELSE IF movePc = "moving"
                        THEN (IF moveAnswer = "none" THEN 4 * (n - done) ELSE 4 * (n - done) - 1)
                   ELSE IF movePc = "sending" THEN 4 * (n - done) + 1
                   ELSE IF movePc = "stepping" THEN 4 * (n - done) + 2
                   ELSE 4 * MaxSteps + 3
    BY DEF MoveLeft, n
  <1> QED
    BY <1>1, <1>2, <1>3, <1>4, <1>5, <1>6 DEF MoveActive, Walking

\* A step that ends the journey, or the last one.
LEMMA MoveEndsLower ==
  ASSUME WorkerInv, PlanInv, MoveActive,
         \/ MoveReturns
         \/ movePc # "finalizing" /\ movePc' = "finalizing"
  PROVE  MoveLeft' < MoveLeft
  <1>1. CASE MoveReturns
    <2>1. MoveLeft' = 0
      BY <1>1 DEF MoveReturns, MoveLeft
    <2> QED
      BY <2>1, MoveLeftTypes
  <1>2. CASE movePc # "finalizing" /\ movePc' = "finalizing"
    <2>1. MoveLeft' = 1
      BY <1>2 DEF MoveLeft
    <2>2. movePc \in {"finding", "stepping", "sending", "moving"}
      BY <1>2 DEF WorkerInv, MoveTypeOK, MoveActive
    <2> QED
      BY <2>1, <2>2, MoveLeftTypes
  <1> QED
    BY <1>1, <1>2

LEMMA ArrivesAtEnd ==
  ASSUME NEW s, Arrive(s)
  PROVE  movePc' = "finalizing"
  BY DEF Arrive, StopAndFinalizeMove, FinalizeMove

\* A step of the plan that is allowed, is sent, has settled, or is followed by the next one.
LEMMA MoveGoesLower ==
  ASSUME WorkerInv, PlanInv, plan' = plan,
         \/ /\ movePc = "stepping" /\ movePc' = "sending"
            /\ done' = done
         \/ /\ movePc = "sending" /\ movePc' = "moving"
            /\ done' = done
         \/ /\ movePc = "moving" /\ movePc' = "moving"
            /\ moveAnswer = "none" /\ moveAnswer' # "none"
            /\ done' = done
         \/ /\ movePc = "moving" /\ movePc' = "stepping"
            /\ done' = done + 1
  PROVE  MoveLeft' < MoveLeft
  <1> DEFINE n == Len(plan)
  <1>1. n \in Nat /\ done \in Nat /\ done < n
    BY MoveLeftTypes DEF Walking
  <1>2. Len(plan') = n
    OBVIOUS
  <1> HIDE DEF n
  <1>3. /\ movePc = "moving" => MoveLeft \in {4 * (n - done), 4 * (n - done) - 1}
        /\ movePc = "moving" /\ moveAnswer = "none" => MoveLeft = 4 * (n - done)
        /\ movePc = "sending" => MoveLeft = 4 * (n - done) + 1
        /\ movePc = "stepping" => MoveLeft = 4 * (n - done) + 2
    BY DEF MoveLeft, n
  <1>4. /\ movePc' = "moving" => MoveLeft' \in {4 * (n - done'), 4 * (n - done') - 1}
        /\ movePc' = "moving" /\ moveAnswer' # "none" => MoveLeft' = 4 * (n - done') - 1
        /\ movePc' = "sending" => MoveLeft' = 4 * (n - done') + 1
        /\ movePc' = "stepping" => MoveLeft' = 4 * (n - done') + 2
    BY <1>2 DEF MoveLeft
  <1> QED
    BY <1>1, <1>3, <1>4

LEMMA MoveFoundLower ==
  ASSUME WorkerInv, PlanInv, MoveFound
  PROVE  MoveLeft' < MoveLeft
  <1> DEFINE steps == Plan(snapshot.minecraft.place, Target[moveTask])
  <1>1. movePc = "finding" /\ MoveActive
    BY DEF MoveFound, MoveActive
  <1>2. CASE MoveReturns \/ movePc' = "finalizing"
    BY <1>1, <1>2, MoveEndsLower
  <1>3. CASE /\ CanPlan(snapshot.minecraft.place, Target[moveTask])
             /\ plan' = steps /\ movePc' = "stepping" /\ done' = done
    <2>1. Target[moveTask] \in Places
      BY <1>1, MoveTaskKnown
    <2>2. Len(plan') = Distance(snapshot.minecraft.place, Target[moveTask])
      BY <1>3, <2>1, PlanLength DEF CanPlan
    <2>3. Len(plan') \in Nat /\ Len(plan') <= MaxSteps
      BY <1>3, <2>1, <2>2, DistanceFacts DEF CanPlan
    <2>4. done' = 0
      BY <1>1, <1>3 DEF WorkerInv
    <2>5. MoveLeft = 4 * MaxSteps + 3
      BY <1>1 DEF MoveLeft
    <2>6. MoveLeft' = 4 * (Len(plan') - done') + 2
      BY <1>3 DEF MoveLeft
    <2> QED
      BY <2>3, <2>4, <2>5, <2>6, MoveLeftTypes
  <1>4. \/ MoveReturns \/ movePc' = "finalizing"
        \/ /\ CanPlan(snapshot.minecraft.place, Target[moveTask])
           /\ Begin(steps)
    BY DEF MoveFound, StopAndFinalizeMove, FinalizeMove
  <1>5. Begin(steps) => \/ movePc' = "finalizing"
                        \/ plan' = steps /\ movePc' = "stepping" /\ done' = done
    BY ArrivesAtEnd DEF Begin
  <1> QED
    BY <1>2, <1>3, <1>4, <1>5

LEMMA MoveStepLower ==
  ASSUME WorkerInv, PlanInv, MoveSteps
  PROVE  MoveLeft' < MoveLeft
  <1>1. CASE MoveFound
    BY <1>1, MoveFoundLower
  <1>2. ASSUME NEW tick \in Tick \cup {NoTick}, Step(tick)
        PROVE  MoveLeft' < MoveLeft
    <2>1. movePc = "sending"
      BY <1>2 DEF Step
    <2>2. \/ movePc' = "finalizing"
          \/ movePc' = "moving" /\ plan' = plan /\ done' = done
      BY <1>2 DEF Step, StopAndFinalizeMove, FinalizeMove
    <2> QED
      BY <2>1, <2>2, MoveEndsLower, MoveGoesLower DEF MoveActive
  <1>3. CASE StepFailed
    <2>1. movePc = "moving" /\ movePc' = "finalizing"
      BY <1>3 DEF StepFailed, StopAndFinalizeMove, FinalizeMove
    <2> QED
      BY <2>1, MoveEndsLower DEF MoveActive
  <1>4. CASE StepObserved
    <2>1. movePc = "moving"
      BY <1>4 DEF StepObserved
    <2>2. \/ movePc' = "finalizing"
          \/ movePc' = "stepping" /\ plan' = plan /\ done' = done + 1
      BY <1>4, ArrivesAtEnd DEF StepObserved, StopAndFinalizeMove, FinalizeMove
    <2> QED
      BY <2>1, <2>2, MoveEndsLower, MoveGoesLower DEF MoveActive
  <1>5. CASE MoveFinalized
    BY <1>5, MoveEndsLower DEF MoveFinalized, MoveActive
  <1>6. CASE StepAllowed
    <2>1. movePc = "stepping"
      BY <1>6 DEF StepAllowed
    <2>2. \/ movePc' = "finalizing"
          \/ movePc' = "sending" /\ plan' = plan /\ done' = done
      BY <1>6 DEF StepAllowed, StopAndFinalizeMove, FinalizeMove
    <2> QED
      BY <2>1, <2>2, MoveEndsLower, MoveGoesLower DEF MoveActive
  <1> QED
    BY <1>1, <1>2, <1>3, <1>4, <1>5, <1>6 DEF MoveSteps

LEMMA StepSettlesLower ==
  ASSUME WorkerInv, PlanInv, StepSettles
  PROVE  MoveLeft' < MoveLeft
  <1>0. "none" \notin Places
    BY MovementAssumption DEF MovementAssumption, Places
  <1>1. /\ movePc = "moving" /\ movePc' = "moving"
        /\ moveAnswer = "none" /\ moveAnswer' # "none"
        /\ plan' = plan /\ done' = done
    BY <1>0 DEF StepSettles, Observation
  <1> QED
    BY <1>1, MoveGoesLower

LEMMA MoveLeftStays ==
  ASSUME UNCHANGED <<movePc, plan, done>>,
         moveAnswer = "none" \/ moveAnswer' = moveAnswer,
         WorkerInv, PlanInv
  PROVE  MoveLeft' <= MoveLeft
  <1> DEFINE ahead == 4 * (Len(plan) - done)
  <1>1. /\ MoveLeft \in Nat
        /\ movePc \in Walking => ahead \in Int
    BY MoveLeftTypes DEF Walking
  <1>2. ahead' = ahead
    OBVIOUS
  <1> HIDE DEF ahead
  <1>3. \/ MoveLeft' = MoveLeft
        \/ movePc = "moving" /\ MoveLeft = ahead /\ MoveLeft' = ahead - 1
    BY <1>2 DEF MoveLeft, ahead
  <1> QED
    BY <1>1, <1>3 DEF Walking

LEMMA MoveLeftNat == WorkerInv /\ PlanInv => MoveLeft \in Nat
  BY MoveLeftTypes

LEMMA MoveOnlyAdvances ==
  ASSUME WorkerInv, PlanInv, PlanInv', [Next]_vars
  PROVE  MoveAdvances
  <1>1. MoveSteps \/ StepSettles => MoveLeft' < MoveLeft
    BY MoveStepLower, StepSettlesLower
  <1>2. MoveLeft \in Nat /\ MoveLeft' \in Nat
    <2>1. MoveLeft \in Nat
      BY MoveLeftTypes
    <2>2. WorkerInv' /\ PlanInv'
      BY WorkerStep
    <2>3. (WorkerInv /\ PlanInv => MoveLeft \in Nat)'
      BY MoveLeftNat, PTL
    <2> QED
      BY <2>1, <2>2, <2>3
  <1>3. CASE MoveSteps \/ StepSettles
    BY <1>1, <1>2, <1>3 DEF MoveAdvances
  <1>4. CASE /\ UNCHANGED <<movePc, plan, done>>
             /\ moveAnswer = "none" \/ moveAnswer' = moveAnswer
    BY <1>1, <1>4, MoveLeftStays DEF MoveAdvances
  <1>5. CASE \E t \in MoveTasks : ExecuteMove(t)
    <2>1. ~MoveActive
      BY <1>5 DEF ExecuteMove, MoveActive
    <2> QED
      BY <1>1, <2>1 DEF MoveAdvances
  <1>6. CASE Crash
    <2>1. MoveLeft' = 0
      BY <1>6 DEF Crash, MoveLost, MoveReturns, MoveLeft
    <2> QED
      BY <1>1, <1>2, <2>1 DEF MoveAdvances
  <1>7. CancelMove \/ ClosePort \/ (\E tick \in Tick : PlacementAcquires(tick))
          \/ PlacementCommits \/ PlacementReleases
        => /\ UNCHANGED <<movePc, plan, done>>
           /\ moveAnswer = "none" \/ moveAnswer' = moveAnswer
    BY DEF CancelMove, ClosePort, PlacementAcquires, PlacementCommits,
       PlacementReleases, moveMemory
  <1>8. UNCHANGED moveVars \/ UNCHANGED vars => UNCHANGED <<movePc, plan, done, moveAnswer>>
    BY DEF moveVars, moveMemory, vars
  <1> QED
    BY <1>3, <1>4, <1>5, <1>6, <1>7, <1>8 DEF Next, MoveNext

\* A journey ends: it takes 4 * maxSteps + 3 steps of its own at most, every one
\* of them brings it nearer to its end, and neither the stream, a cancel, a closed
\* port nor anybody else's change of the store leads it back.
THEOREM JourneysAdvance == Spec => [][MoveAdvances]_vars
  <1>1. WorkerInv /\ PlanInv /\ PlanInv' /\ [Next]_vars => [MoveAdvances]_vars
    BY MoveOnlyAdvances
  <1> QED
    BY <1>1, WorkerInvariance, PlansAreBounded, PTL DEF Spec
=============================================================================
