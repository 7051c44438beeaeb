----------------------------- MODULE WorldWork -----------------------------
(***************************************************************************)
(* One process in which both coordinators of world-changing work and the   *)
(* executor of read-only work share one state store: the store holds a     *)
(* single task, which each of them takes only when it finds it free.       *)
(***************************************************************************)
EXTENDS BlockOperation, Movement

CONSTANTS
  RuntimeCommands,  \* what the supervisor dispatches to a spawned runtime
  ReadTask          \* the id of the read-only executor's task

ASSUME ProcessAssumption ==
  /\ ReadTask \in STRING \ Tasks
  /\ \A c \in RuntimeCommands : c \in Command /\ c.type \notin TaskCommand
  \* The supervisor reports a spawn with minecraft.spawn.update only.
  /\ [type |-> "minecraft.connection.transition", to |-> "spawned"]
       \notin RuntimeCommands

VARIABLE reading   \* the read-only executor works on its task

blockOthers == <<blockPc, blockTask, blockAborted, blockAnswer, blockOutcome,
                 portStopped, blockClosed, world, placed>>

vars == <<snapshot, rows, faults, blockNotified, blockOthers, moveVars, reading>>

\* A runtime that has spawned and reported.
Spawned ==
  [InitialSnapshot EXCEPT
     !.runtime = "ready",
     !.minecraft = [connection |-> "spawned", spawned |-> TRUE,
                    telemetry |-> "valid", place |-> Line[1],
                    health |-> 20, hunger |-> 20, other |-> FALSE]]

Init ==
  /\ snapshot = Spawned
  /\ ContextInit
  /\ BlockInit
  /\ MoveInit
  /\ reading = FALSE

\* A change of the store by somebody else: the execution of a placement, which
\* subscribes to it, is notified.
BesidesBlock ==
  /\ Notify
  /\ UNCHANGED blockOthers

Runtime(c) ==
  /\ Accepts(snapshot, c) /\ Changes(snapshot, c)
  /\ snapshot' = After(snapshot, c)
  /\ UNCHANGED <<rows, faults, reading>>

\* A worker claims the task for whoever executes it.
Claim(t) ==
  /\ rows[t].status = "queued"
  /\ rows' = [rows EXCEPT ![t].status = "claimed"]
  /\ UNCHANGED <<snapshot, faults, reading>>

\* The read-only executor resets a task that is over; it takes no other.
ReaderBegins ==
  /\ ~reading
  /\ snapshot.task.state \in TerminalTask \cup {"idle"}
  /\ reading' = TRUE
  /\ snapshot' = Prepared([snapshot EXCEPT !.task = IdleTask], ReadTask)
  /\ UNCHANGED <<rows, faults>>

ReaderEnds ==
  /\ reading
  /\ reading' = FALSE
  /\ snapshot' = Finalized(snapshot, ReadTask, "completed")
  /\ UNCHANGED <<rows, faults>>

\* Before another task of a coordinator its caller resets the store.
CallerResets ==
  /\ snapshot.task.state \in TerminalTask
  /\ snapshot' = After(snapshot, [type |-> "task.reset"])
  /\ UNCHANGED <<rows, faults, reading>>

Others ==
  \/ \E c \in RuntimeCommands : Runtime(c)
  \/ \E t \in Tasks : Claim(t)
  \/ ReaderBegins \/ ReaderEnds \/ CallerResets

\* The process dies and another one spawns; rows and world are left.
Crash ==
  /\ Fault
  /\ snapshot' = Spawned
  /\ BlockLost
  /\ MoveLost
  /\ reading' = FALSE
  /\ UNCHANGED rows

Next ==
  \/ BlockNext /\ UNCHANGED <<moveVars, reading>>
  \/ MoveNext /\ BesidesBlock /\ UNCHANGED reading
  \/ Others /\ BesidesBlock /\ UNCHANGED moveVars
  \/ Crash

Spec == Init /\ [][Next]_vars

----------------------------------------------------------------------------
(* Properties                                                              *)

\* Whoever works in the world, or reads it, owns the one task of the state
\* store until its own end: no two of them work at once, and none changes the
\* task of another.
OneWorker ==
  LET Owns(t) == snapshot.task.id = t /\ snapshot.task.state = "running" IN
  /\ blockPc \in {"marking", "sending", "placing", "observing_after", "verifying"}
       => Owns(blockTask)
  /\ movePc \in {"stepping", "sending", "moving"} => Owns(moveTask)
  /\ reading => Owns(ReadTask)

\* Unless the database failed or the process crashed, the queue holds the same
\* result of a task that was worked on as the state store.
SameResult ==
  LET t == snapshot.task.id IN
  (/\ faults = 0
   /\ t \in Tasks \ {blockTask, moveTask}
   /\ snapshot.task.state \in TerminalTask) => rows[t].status = snapshot.task.state

\* An execution can always go on by itself, although no port and no server may
\* ever answer, whatever was aborted, closed or lost: it ends.
NeverStuck ==
  /\ BlockActive => ENABLED (BlockSteps \/ PortSettles)
  /\ MoveActive  => ENABLED (MoveSteps \/ StepSettles)

\* The variables have their types.
TypeOK ==
  /\ snapshot \in Snapshot
  /\ rows \in [Tasks -> Row]
  /\ faults \in 0..MaxFaults
  /\ BlockTypeOK
  /\ MoveTypeOK
  /\ reading \in BOOLEAN
=============================================================================
