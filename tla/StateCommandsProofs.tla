------------------------- MODULE StateCommandsProofs -------------------------
(***************************************************************************)
(* What single commands of the state store keep, in any snapshot.          *)
(***************************************************************************)
EXTENDS WorkSafetyPolicy, TLAPS

\* The parts of the snapshot that several commands write, and how they agree.
MinecraftOK(m) ==
  /\ m.spawned <=> m.connection = "spawned"
  /\ m.telemetry # "valid" =>
       m.place = NoValue /\ m.health = NoValue /\ m.hunger = NoValue

TaskOK(t) ==
  /\ t.finished <=> t.state \in TerminalTask
  /\ t.state \in {"running", "paused", "completed"} => t.started
  /\ t.id = NoValue <=> t.state = "idle"
  /\ t.progress = NoValue <=> t.state = "idle"

Consistent(s) ==
  /\ s \in Snapshot
  /\ MinecraftOK(s.minecraft)
  /\ TaskOK(s.task)
  /\ s.minecraft.other => s.runtime \in {"stopping", "stopped", "failed"}

\* The commands callers really dispatch: no direct jump to "spawned".
Dispatched ==
  {c \in Command : c # [type |-> "minecraft.connection.transition",
                        to |-> "spawned"]}

LEMMA InitialConsistent ==
  Consistent(InitialSnapshot)
  <1>1. NoConnection \in MinecraftState /\ MinecraftOK(NoConnection)
        /\ ~NoConnection.other
    BY DEF NoConnection, MinecraftState, MinecraftOK, Optional,
       ConnectionState, TelemetryStatus
  <1>2. IdleTask \in TaskProgress /\ TaskOK(IdleTask)
    BY DEF IdleTask, TaskProgress, TaskOK, Optional, TaskState, TerminalTask
  <1> QED
    BY <1>1, <1>2 DEF InitialSnapshot, Snapshot, Consistent, Optional,
       RuntimeState

\* The commands of the connection keep its fields together and never forget
\* the other player.
LEMMA MinecraftCommands ==
  ASSUME NEW m \in MinecraftState, MinecraftOK(m),
         NEW c \in Dispatched, c.type \in MinecraftCommand,
         c.type = "minecraft.connection.transition" => AcceptsConnection(m, c.to)
  PROVE  /\ MinecraftAfter(m, c) \in MinecraftState
         /\ MinecraftOK(MinecraftAfter(m, c))
         /\ MinecraftAfter(m, c).other = m.other
  <1>1. CASE c.type = "minecraft.connection.transition"
    <2>1. /\ c.to \in ConnectionState /\ c.to # "spawned"
          /\ MinecraftAfter(m, c) = Connection(m, c.to)
          /\ m.connection = c.to \/ c.to \in ConnectionNext(m.connection)
      BY <1>1 DEF Dispatched, Command, MinecraftAfter, AcceptsConnection
    <2>2. m.connection = "spawned" => c.to = "disconnected"
      BY <2>1 DEF ConnectionNext
    <2>3. CASE c.to = "disconnected" /\ m.connection # c.to
      <3>1. MinecraftAfter(m, c) = [NoConnection EXCEPT !.other = m.other]
        BY <2>1, <2>3 DEF Connection
      <3>2. m.other \in BOOLEAN
        BY DEF MinecraftState
      <3>3. NoConnection \in MinecraftState /\ MinecraftOK(NoConnection)
        BY DEF NoConnection, MinecraftState, MinecraftOK, Optional,
           TelemetryStatus, ConnectionState
      <3>4. MinecraftAfter(m, c) \in MinecraftState
        BY <3>1, <3>2, <3>3 DEF MinecraftState
      <3>5. MinecraftOK(MinecraftAfter(m, c)) /\ MinecraftAfter(m, c).other = m.other
        BY <3>1, <3>2, <3>3 DEF MinecraftState, MinecraftOK
      <3> QED
        BY <3>4, <3>5
    <2>4. CASE ~(c.to = "disconnected" /\ m.connection # c.to)
      BY <2>1, <2>2, <2>4 DEF Connection, MinecraftState, MinecraftOK
    <2> QED
      BY <2>3, <2>4
  <1>2. CASE c.type = "minecraft.spawn.update"
    BY <1>2 DEF MinecraftAfter, Spawn, MinecraftState, MinecraftOK,
       ConnectionState
  <1>3. CASE c.type = "minecraft.telemetry.update"
    <2>1. c.telemetry \in Telemetry /\ MinecraftAfter(m, c) = Report(m, c.telemetry)
      BY <1>3 DEF Dispatched, Command, MinecraftAfter
    <2>2. /\ Updated(m.place, c.telemetry.place) \in Optional(STRING)
          /\ Updated(m.health, c.telemetry.health) \in Optional(Int)
          /\ Updated(m.hunger, c.telemetry.hunger) \in Optional(Int)
      BY <2>1 DEF Updated, Telemetry, MinecraftState, Optional
    <2> QED
      BY <2>1, <2>2 DEF Report, MinecraftState, MinecraftOK, TelemetryStatus
  <1>4. CASE c.type = "minecraft.telemetry.invalidate"
    BY <1>4 DEF MinecraftAfter, Invalidate, MinecraftState, MinecraftOK,
       Optional, TelemetryStatus
  <1> QED
    BY <1>1, <1>2, <1>3, <1>4 DEF MinecraftCommand

\* The commands of the task keep its times and its progress together.
LEMMA TaskCommands ==
  ASSUME NEW t \in TaskProgress, TaskOK(t),
         NEW c \in Dispatched, c.type \in TaskCommand,
         c.type = "task.transition" => c.to \in TaskNext(t.state),
         c.type = "task.progress.update" => AcceptsProgress(t, c.progress)
  PROVE  TaskAfter(t, c) \in TaskProgress /\ TaskOK(TaskAfter(t, c))
  <1>1. CASE c.type = "task.prepare"
    <2>1. c.id \in STRING /\ c.id # NoValue /\ TaskAfter(t, c) = Prepare(c.id)
      BY <1>1, NoValueAssumption
         DEF Dispatched, Command, TaskAfter, NoValueAssumption
    <2>2. 0 # NoValue /\ 0 \in 0..100
      BY NoValueAssumption DEF NoValueAssumption
    <2> QED
      BY <2>1, <2>2 DEF Prepare, TaskProgress, TaskOK, Optional, TaskState,
         TerminalTask
  <1>2. CASE c.type = "task.transition"
    <2>1. /\ c.to \in TaskState \ {"idle", "preparing"}
          /\ TaskAfter(t, c) = Transition(t, c.to) /\ c.to \in TaskNext(t.state)
      BY <1>2 DEF Dispatched, Command, TaskAfter
    <2>2. /\ t.state \notin {"idle", "completed", "failed", "stopped"}
          /\ c.to \in {"paused", "completed"} => t.state = "running"
      BY <2>1 DEF TaskNext
    <2> QED
      BY <2>1, <2>2 DEF Transition, TaskProgress, TaskOK, TaskState, TerminalTask
  <1>3. CASE c.type = "task.progress.update"
    BY <1>3, NoValueAssumption
       DEF TaskAfter, AcceptsProgress, TaskProgress, TaskOK, Optional,
       NoValueAssumption
  <1>4. CASE c.type = "task.reset"
    BY <1>4 DEF TaskAfter, IdleTask, TaskProgress, TaskOK, Optional, TaskState,
       TerminalTask
  <1> QED
    BY <1>1, <1>2, <1>3, <1>4 DEF TaskCommand

LEMMA CommandsKeepConsistent ==
  ASSUME NEW s, Consistent(s), NEW c \in Dispatched,
         Accepts(s, c)
  PROVE  Consistent(After(s, c)) /\ (Final(s) => Final(After(s, c)))
  <1>1. CASE c.type \in MinecraftCommand
    <2> DEFINE m == MinecraftAfter(s.minecraft, c)
    <2>1. s.minecraft \in MinecraftState
      BY DEF Consistent, Snapshot
    <2>2. m \in MinecraftState /\ MinecraftOK(m) /\ m.other = s.minecraft.other
      BY <1>1, <2>1, MinecraftCommands DEF Consistent, Accepts
    <2>3. After(s, c) = [s EXCEPT !.minecraft = m]
      BY <1>1 DEF After, TaskCommand, MinecraftCommand
    <2> HIDE DEF m
    <2> QED
      BY <2>2, <2>3 DEF Consistent, Snapshot, Final, StopRequested
  <1>2. CASE c.type \in TaskCommand
    <2> DEFINE t == TaskAfter(s.task, c)
    <2>1. s.task \in TaskProgress
      BY DEF Consistent, Snapshot
    <2>2. t \in TaskProgress /\ TaskOK(t)
      BY <1>2, <2>1, TaskCommands DEF Consistent, Accepts
    <2>3. After(s, c) = [s EXCEPT !.task = t]
      BY <1>2 DEF After, TaskCommand, MinecraftCommand
    <2> HIDE DEF t
    <2> QED
      BY <2>2, <2>3 DEF Consistent, Snapshot, Final, StopRequested
  <1>3. CASE c.type = "schedule.intent.record"
    <2>1. c.entry \in STRING /\ After(s, c) = [s EXCEPT !.schedule = c.entry]
      BY <1>3 DEF Dispatched, Command, After, TaskCommand, MinecraftCommand
    <2> QED
      BY <2>1 DEF Snapshot, Consistent, Optional, Final, StopRequested
  <1>4. CASE c.type = "runtime.transition"
    <2>1. /\ c.to \in RuntimeState /\ After(s, c) = [s EXCEPT !.runtime = c.to]
          /\ AcceptsRuntime(s, c.to)
      BY <1>4 DEF Dispatched, Command, After, Accepts, TaskCommand,
         MinecraftCommand
    <2>2. s.runtime \in {"stopping", "stopped", "failed"} =>
            c.to \in {"stopping", "stopped", "failed"}
      BY <2>1 DEF AcceptsRuntime, RuntimeNext
    <2> QED
      BY <2>1, <2>2 DEF Snapshot, Consistent, Final, StopRequested
  <1>5. CASE c.type = "safety.other_player_detected"
    <2>1. After(s, c) = Detection(s)
      BY <1>5 DEF After, TaskCommand, MinecraftCommand
    <2>2. /\ [s.minecraft EXCEPT !.other = TRUE] \in MinecraftState
          /\ MinecraftOK([s.minecraft EXCEPT !.other = TRUE])
      BY DEF Consistent, Snapshot, MinecraftState, MinecraftOK
    <2>3. CASE s.minecraft.other
      BY <2>1, <2>3 DEF Detection
    <2>4. CASE ~s.minecraft.other
      <3> DEFINE m == [s.minecraft EXCEPT !.other = TRUE]
      <3>1. m \in MinecraftState /\ MinecraftOK(m) /\ m.other
        BY <2>2 DEF Consistent, Snapshot, MinecraftState
      <3>2. After(s, c) = [s EXCEPT !.runtime = "stopping",
                                    !.stopReason = "other_player_detected",
                                    !.minecraft = m]
        BY <2>1, <2>4 DEF Detection
      <3> HIDE DEF m
      <3>3. /\ After(s, c).minecraft = m
            /\ After(s, c).runtime = "stopping"
            /\ After(s, c).task = s.task
        BY <3>2 DEF Consistent, Snapshot
      <3>4. After(s, c) \in Snapshot
        <4>1. [s EXCEPT !.runtime = "stopping"] \in Snapshot
          BY DEF Consistent, Snapshot, RuntimeState
        <4>2. \A x \in Snapshot :
                [x EXCEPT !.stopReason = "other_player_detected"] \in Snapshot
          BY DEF Snapshot, Optional, RuntimeStopReason
        <4>3. \A x \in Snapshot : [x EXCEPT !.minecraft = m] \in Snapshot
          BY <3>1 DEF Snapshot
        <4> QED
          BY <3>2, <4>1, <4>2, <4>3
      <3> QED
        BY <3>1, <3>3, <3>4 DEF Consistent, Final
    <2> QED
      BY <2>3, <2>4
  <1>6. CASE c.type = "runtime.stop_reason.record"
    <2>1. c.reason \in RuntimeStopReason /\ After(s, c) = [s EXCEPT !.stopReason = c.reason]
      BY <1>6 DEF Dispatched, Command, After, TaskCommand, MinecraftCommand
    <2> QED
      BY <2>1, NoValueAssumption
         DEF Snapshot, Consistent, Optional, Final, StopRequested,
         NoValueAssumption
  <1>7. CASE c.type = "runtime.error.record"
    <2>1. c.code \in SanitizedErrorCode /\ After(s, c) = [s EXCEPT !.lastError = c.code]
      BY <1>7 DEF Dispatched, Command, After, TaskCommand, MinecraftCommand
    <2> QED
      BY <2>1 DEF Snapshot, Consistent, Optional, Final, StopRequested
  <1> QED
    BY <1>1, <1>2, <1>3, <1>4, <1>5, <1>6, <1>7 DEF Dispatched, Command,
       MinecraftCommand, TaskCommand
==============================================================================
