--------------------------- MODULE StateCommands ---------------------------
(***************************************************************************)
(* The commands of the state store as functions on snapshots: which ones   *)
(* InMemoryStateStore accepts in a snapshot (the others throw) and the     *)
(* snapshot they lead to.  Timestamps and the messages of progress and     *)
(* error reports are left out.  A position and its dimension are one value, *)
(* and a schedule record (phase, intent, window, time) is one value.       *)
(***************************************************************************)
EXTENDS Integers

CONSTANT NoValue   \* an optional field that is undefined

RuntimeState    == {"starting", "connecting", "ready", "reconnecting",
                    "stopping", "stopped", "failed"}
ConnectionState == {"disconnected", "connecting", "connected", "spawned"}
TaskState       == {"idle", "preparing", "running", "paused",
                    "completed", "failed", "stopped"}
TerminalTask    == {"completed", "failed", "stopped"}
TelemetryStatus == {"unknown", "valid", "invalid"}

RuntimeStopReason == {"other_player_detected", "signal_sigint", "signal_sigterm",
                      "stop_requested", "schedule_window_ended",
                      "reconnect_exhausted", "connection_error", "internal_error"}
SanitizedErrorCode == {"connection_error", "reconnect_exhausted", "internal_error"}

ASSUME NoValueAssumption ==
  /\ NoValue \notin Int
  /\ NoValue \notin STRING
  /\ NoValue \notin RuntimeStopReason
  /\ NoValue \notin SanitizedErrorCode

Optional(S) == S \cup {NoValue}

MinecraftState ==
  [connection : ConnectionState,
   spawned    : BOOLEAN,            \* spawnCompleted
   telemetry  : TelemetryStatus,    \* telemetryStatus
   place      : Optional(STRING),   \* position and dimension
   health     : Optional(Int),
   hunger     : Optional(Int),
   other      : BOOLEAN]            \* otherPlayerDetected

TaskProgress ==
  [state    : TaskState,
   id       : Optional(STRING),
   progress : Optional(0..100),     \* in percent
   started  : BOOLEAN,              \* startedAt # undefined
   finished : BOOLEAN]              \* finishedAt # undefined

Snapshot ==
  [runtime    : RuntimeState,
   minecraft  : MinecraftState,
   task       : TaskProgress,
   schedule   : Optional(STRING),
   stopReason : Optional(RuntimeStopReason),
   lastError  : Optional(SanitizedErrorCode)]

Telemetry == [place : Optional(STRING), health : Optional(Int),
              hunger : Optional(Int)]

Command ==
  [type : {"schedule.intent.record"}, entry : STRING]
  \cup [type : {"runtime.transition"}, to : RuntimeState]
  \cup [type : {"minecraft.connection.transition"}, to : ConnectionState]
  \cup [type : {"minecraft.spawn.update"}, completed : BOOLEAN]
  \cup [type : {"minecraft.telemetry.update"}, telemetry : Telemetry]
  \cup [type : {"minecraft.telemetry.invalidate"}]
  \cup [type : {"safety.other_player_detected"}]
  \cup [type : {"task.prepare"}, id : STRING]
  \cup [type : {"task.transition"}, to : TaskState \ {"idle", "preparing"}]
  \cup [type : {"task.progress.update"}, progress : Int]
  \cup [type : {"task.reset"}]
  \cup [type : {"runtime.stop_reason.record"}, reason : RuntimeStopReason]
  \cup [type : {"runtime.error.record"}, code : SanitizedErrorCode]

IdleTask == [state |-> "idle", id |-> NoValue, progress |-> NoValue,
             started |-> FALSE, finished |-> FALSE]

NoConnection ==
  [connection |-> "disconnected", spawned |-> FALSE, telemetry |-> "unknown",
   place |-> NoValue, health |-> NoValue, hunger |-> NoValue, other |-> FALSE]

InitialSnapshot ==
  [runtime |-> "starting", minecraft |-> NoConnection, task |-> IdleTask,
   schedule |-> NoValue, stopReason |-> NoValue, lastError |-> NoValue]

----------------------------------------------------------------------------
(* transitions.ts                                                          *)

RuntimeNext(from) ==
  CASE from = "starting"     -> {"connecting", "stopping"}
    [] from = "connecting"   -> {"ready", "reconnecting", "stopping", "failed"}
    [] from = "ready"        -> {"reconnecting", "stopping", "failed"}
    [] from = "reconnecting" -> {"connecting", "stopping", "failed"}
    [] from = "stopping"     -> {"stopped", "failed"}
    [] OTHER                 -> {}

ConnectionNext(from) ==
  CASE from = "disconnected" -> {"connecting"}
    [] from = "connecting"   -> {"connected", "disconnected"}
    [] from = "connected"    -> {"spawned", "disconnected"}
    [] from = "spawned"      -> {"disconnected"}

TaskNext(from) ==
  CASE from = "idle"      -> {"preparing"}
    [] from = "preparing" -> {"running", "failed", "stopped"}
    [] from = "running"   -> {"paused", "completed", "failed", "stopped"}
    [] from = "paused"    -> {"running", "failed", "stopped"}
    [] OTHER              -> {}

----------------------------------------------------------------------------
(* What the commands do to the minecraft part, m, ...                      *)

\* Seeded fault: the readings of the lost connection are kept.
ConnectionKeepingVitals(m, to) ==
  IF to = "disconnected" /\ m.connection # to
  THEN [NoConnection EXCEPT !.other = m.other, !.health = m.health]
  ELSE [m EXCEPT !.connection = to]

\* A lost connection takes everything with it but the detected player.
Connection(m, to) ==
  IF to = "disconnected" /\ m.connection # to
  THEN [NoConnection EXCEPT !.other = m.other]
  ELSE [m EXCEPT !.connection = to]

Spawn(m, completed) ==
  IF completed THEN [m EXCEPT !.spawned = TRUE, !.connection = "spawned"] ELSE m

Updated(old, new) == IF new = NoValue THEN old ELSE new

Report(m, t) ==
  [m EXCEPT !.telemetry = "valid",
            !.place  = Updated(m.place, t.place),
            !.health = Updated(m.health, t.health),
            !.hunger = Updated(m.hunger, t.hunger)]

Invalidate(m) ==
  [m EXCEPT !.telemetry = "invalid",
            !.place = NoValue, !.health = NoValue, !.hunger = NoValue]

(* ... and to the task part, t.                                            *)

Prepare(id) == [state |-> "preparing", id |-> id, progress |-> 0,
                started |-> FALSE, finished |-> FALSE]

Transition(t, to) ==
  [t EXCEPT !.state = to,
            !.started = t.started \/ to = "running",
            !.finished = t.finished \/ to \in TerminalTask]

----------------------------------------------------------------------------
(* The commands.  Accepts says that dispatch does not throw, After is the  *)
(* snapshot of the dispatch; equal snapshots mean that there is no event.  *)

Detection(s) ==
  IF s.minecraft.other THEN s
  ELSE [s EXCEPT !.runtime = "stopping",
                 !.stopReason = "other_player_detected",
                 !.minecraft = [s.minecraft EXCEPT !.other = TRUE]]

MinecraftAfter(m, c) ==
  CASE c.type = "minecraft.connection.transition" -> Connection(m, c.to)
    [] c.type = "minecraft.spawn.update"          -> Spawn(m, c.completed)
    [] c.type = "minecraft.telemetry.update"      -> Report(m, c.telemetry)
    [] c.type = "minecraft.telemetry.invalidate"  -> Invalidate(m)

TaskAfter(t, c) ==
  CASE c.type = "task.prepare"         -> Prepare(c.id)
    [] c.type = "task.transition"      -> Transition(t, c.to)
    [] c.type = "task.progress.update" -> [t EXCEPT !.progress = c.progress]
    [] c.type = "task.reset"           -> IdleTask

MinecraftCommand == {"minecraft.connection.transition", "minecraft.spawn.update",
                     "minecraft.telemetry.update", "minecraft.telemetry.invalidate"}
TaskCommand      == {"task.prepare", "task.transition", "task.progress.update",
                     "task.reset"}

After(s, c) ==
  CASE c.type \in MinecraftCommand ->
         [s EXCEPT !.minecraft = MinecraftAfter(s.minecraft, c)]
    [] c.type \in TaskCommand -> [s EXCEPT !.task = TaskAfter(s.task, c)]
    [] c.type = "schedule.intent.record"       -> [s EXCEPT !.schedule = c.entry]
    [] c.type = "runtime.transition"           -> [s EXCEPT !.runtime = c.to]
    [] c.type = "safety.other_player_detected" -> Detection(s)
    [] c.type = "runtime.stop_reason.record"   -> [s EXCEPT !.stopReason = c.reason]
    [] c.type = "runtime.error.record"         -> [s EXCEPT !.lastError = c.code]

AcceptsRuntime(s, to) ==
  \/ s.runtime = to
  \/ /\ to \in RuntimeNext(s.runtime)
     /\ ~(s.minecraft.other /\ to \in {"connecting", "ready", "reconnecting"})

AcceptsConnection(m, to) ==
  m.connection = to \/ to \in ConnectionNext(m.connection)

AcceptsSpawn(m, completed) ==
  m.spawned = completed \/ (completed /\ m.connection = "connected")

AcceptsProgress(t, p) == t.state \in {"running", "paused"} /\ p \in 0..100

AcceptsDetection(s) ==
  s.minecraft.other \/ s.runtime \in {"connecting", "ready"}

Accepts(s, c) ==
  CASE c.type = "runtime.transition"           -> AcceptsRuntime(s, c.to)
    [] c.type = "minecraft.connection.transition" ->
         AcceptsConnection(s.minecraft, c.to)
    [] c.type = "minecraft.spawn.update"       -> AcceptsSpawn(s.minecraft, c.completed)
    [] c.type = "safety.other_player_detected" -> AcceptsDetection(s)
    [] c.type = "task.prepare"                 -> "preparing" \in TaskNext(s.task.state)
    [] c.type = "task.transition"              -> c.to \in TaskNext(s.task.state)
    [] c.type = "task.progress.update"         -> AcceptsProgress(s.task, c.progress)
    [] c.type = "task.reset"                   -> s.task.state \in TerminalTask
    [] OTHER                                   -> TRUE

\* Is there an event, and a new revision?  A reported error is always one.
Changes(s, c) == After(s, c) # s \/ c.type = "runtime.error.record"
=============================================================================
