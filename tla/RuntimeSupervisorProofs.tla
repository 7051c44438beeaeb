----------------------- MODULE RuntimeSupervisorProofs -----------------------
(***************************************************************************)
(* The safety of the runtime: of the supervisor, and of what is announced  *)
(* of it, for any number of players, retries and reports; of the lock file *)
(* for any number of processes; and of the controller for any clock and    *)
(* any sessions.                                                           *)
(***************************************************************************)
EXTENDS Announcements, ScheduledRuntime, InstanceLock, StateCommandsProofs,
        FiniteSetTheorems, SequenceTheorems

----------------------------------------------------------------------------
(* What the supervisor's dispatches do to the parts of the snapshot that    *)
(* the invariant speaks of.                                                *)

LEMMA TriedConsistent ==
  ASSUME NEW s, Consistent(s), NEW c \in Dispatched
  PROVE  Consistent(Tried(s, c))
  BY CommandsKeepConsistent DEF Tried

LEMMA RuntimeToFacts ==
  ASSUME NEW s, Consistent(s), NEW to \in RuntimeState
  PROVE  /\ Consistent(RuntimeTo(s, to))
         /\ RuntimeTo(s, to).runtime = IF AcceptsRuntime(s, to) THEN to ELSE s.runtime
         /\ RuntimeTo(s, to).minecraft = s.minecraft
         /\ RuntimeTo(s, to).stopReason = s.stopReason
         /\ RuntimeTo(s, to).lastError = s.lastError
  <1> DEFINE c == [type |-> "runtime.transition", to |-> to]
  <1>1. c \in Dispatched /\ c.type = "runtime.transition" /\ c.to = to
    BY DEF Dispatched, Command
  <1>2. /\ Accepts(s, c) <=> AcceptsRuntime(s, to)
        /\ After(s, c) = [s EXCEPT !.runtime = to]
    BY <1>1 DEF Accepts, After, MinecraftCommand, TaskCommand
  <1>3. RuntimeTo(s, to) = Tried(s, c)
    BY DEF RuntimeTo
  <1> HIDE DEF c
  <1>4. Consistent(RuntimeTo(s, to))
    BY <1>1, <1>3, TriedConsistent
  <1> QED
    BY <1>2, <1>3, <1>4 DEF Tried, Consistent, Snapshot

LEMMA ConnectionToFacts ==
  ASSUME NEW s, Consistent(s), NEW to \in ConnectionState \ {"spawned"}
  PROVE  LET t == ConnectionTo(s, to) IN
         /\ Consistent(t)
         /\ t.runtime = s.runtime
         /\ t.stopReason = s.stopReason
         /\ t.lastError = s.lastError
         /\ t.minecraft.other = s.minecraft.other
         /\ t.minecraft.connection =
              IF to \in ConnectionNext(s.minecraft.connection) THEN to
              ELSE s.minecraft.connection
         /\ t.minecraft.telemetry =
              IF to = "disconnected" /\ s.minecraft.connection # "disconnected"
              THEN "unknown" ELSE s.minecraft.telemetry
  <1> DEFINE c == [type |-> "minecraft.connection.transition", to |-> to]
             m == s.minecraft
             t == ConnectionTo(s, to)
  <1>1. /\ c \in Dispatched /\ c.type = "minecraft.connection.transition"
        /\ c.to = to
    BY DEF Dispatched, Command
  <1>2. /\ Accepts(s, c) <=> AcceptsConnection(m, to)
        /\ After(s, c) = [s EXCEPT !.minecraft = Connection(m, to)]
    BY <1>1 DEF Accepts, After, MinecraftAfter, MinecraftCommand, TaskCommand
  <1>3. t = Tried(s, c)
    BY DEF ConnectionTo
  <1>4. m \in MinecraftState /\ s \in Snapshot
    BY DEF Consistent, Snapshot
  <1> HIDE DEF c, m, t
  <1>5. Consistent(t)
    BY <1>1, <1>3, TriedConsistent
  <1>6. /\ Connection(m, to).other = m.other
        /\ Connection(m, to).connection = to
        /\ Connection(m, to).telemetry =
             IF to = "disconnected" /\ m.connection # to THEN "unknown"
             ELSE m.telemetry
    BY <1>4 DEF Connection, NoConnection, MinecraftState
  <1>7. CASE Accepts(s, c)
    <2>1. /\ t.minecraft = Connection(m, to)
          /\ t.runtime = s.runtime /\ t.stopReason = s.stopReason
          /\ t.lastError = s.lastError
      BY <1>2, <1>3, <1>4, <1>7 DEF Tried, Snapshot
    <2>2. to \in ConnectionNext(m.connection) \/ m.connection = to
      BY <1>2, <1>7 DEF AcceptsConnection
    <2> QED
      BY <1>5, <1>6, <2>1, <2>2 DEF t, m
  <1>8. CASE ~Accepts(s, c)
    <2>1. t = s
      BY <1>3, <1>8 DEF Tried
    <2>2. /\ to \notin ConnectionNext(m.connection)
          /\ ~(to = "disconnected" /\ m.connection # "disconnected")
      BY <1>2, <1>4, <1>8 DEF AcceptsConnection, ConnectionNext, MinecraftState,
         ConnectionState
    <2> QED
      BY <1>5, <2>1, <2>2 DEF t, m
  <1> QED
    BY <1>7, <1>8

\* After #markMinecraftDisconnected nothing of the connection is left.
LEMMA DisconnectedFacts ==
  ASSUME NEW s, Consistent(s)
  PROVE  LET t == Disconnected(s) IN
         /\ Consistent(t)
         /\ t.runtime = s.runtime
         /\ t.stopReason = s.stopReason
         /\ t.lastError = s.lastError
         /\ t.minecraft.other = s.minecraft.other
         /\ t.minecraft.connection = "disconnected"
         /\ s.minecraft.connection # "disconnected" \/ s.minecraft.telemetry = "unknown"
              => t.minecraft.telemetry = "unknown"
  <1>1. "disconnected" \in ConnectionState \ {"spawned"}
    BY DEF ConnectionState
  <1>2. s.minecraft.connection \in ConnectionState
    BY DEF Consistent, Snapshot, MinecraftState
  <1>3. s.minecraft.connection # "disconnected" =>
          "disconnected" \in ConnectionNext(s.minecraft.connection)
    BY <1>2 DEF ConnectionState, ConnectionNext
  <1> QED
    BY <1>1, <1>3, ConnectionToFacts DEF Disconnected

LEMMA ReasonFacts ==
  ASSUME NEW s, Consistent(s), NEW reason \in RuntimeStopReason
  PROVE  LET t == Tried(s, [type |-> "runtime.stop_reason.record",
                            reason |-> reason])
         IN
         /\ Consistent(t)
         /\ t.stopReason = reason
         /\ t.runtime = s.runtime
         /\ t.minecraft = s.minecraft
         /\ t.lastError = s.lastError
  <1> DEFINE c == [type |-> "runtime.stop_reason.record", reason |-> reason]
  <1>1. /\ c \in Dispatched /\ c.type = "runtime.stop_reason.record"
        /\ c.reason = reason
    BY DEF Dispatched, Command
  <1>2. Accepts(s, c) /\ After(s, c) = [s EXCEPT !.stopReason = reason]
    BY <1>1 DEF Accepts, After, MinecraftCommand, TaskCommand
  <1> HIDE DEF c
  <1>3. Consistent(Tried(s, c))
    BY <1>1, TriedConsistent
  <1>4. Tried(s, c) = [s EXCEPT !.stopReason = reason] /\ s \in Snapshot
    BY <1>2 DEF Tried, Consistent
  <1>5. /\ Tried(s, c).stopReason = reason
        /\ Tried(s, c).runtime = s.runtime
        /\ Tried(s, c).minecraft = s.minecraft
        /\ Tried(s, c).lastError = s.lastError
    BY <1>4 DEF Snapshot
  <1> QED
    BY <1>3, <1>5 DEF c

LEMMA ErrorFacts ==
  ASSUME NEW s, Consistent(s), NEW code \in SanitizedErrorCode
  PROVE  LET t == Tried(s, [type |-> "runtime.error.record", code |-> code])
         IN
         /\ Consistent(t)
         /\ t.lastError = code
         /\ t.stopReason = s.stopReason
         /\ t.runtime = s.runtime
         /\ t.minecraft = s.minecraft
  <1> DEFINE c == [type |-> "runtime.error.record", code |-> code]
  <1>1. c \in Dispatched /\ c.type = "runtime.error.record" /\ c.code = code
    BY DEF Dispatched, Command
  <1>2. Accepts(s, c) /\ After(s, c) = [s EXCEPT !.lastError = code]
    BY <1>1 DEF Accepts, After, MinecraftCommand, TaskCommand
  <1> HIDE DEF c
  <1>3. Consistent(Tried(s, c))
    BY <1>1, TriedConsistent
  <1>4. Tried(s, c) = [s EXCEPT !.lastError = code] /\ s \in Snapshot
    BY <1>2 DEF Tried, Consistent
  <1>5. /\ Tried(s, c).lastError = code
        /\ Tried(s, c).stopReason = s.stopReason
        /\ Tried(s, c).runtime = s.runtime
        /\ Tried(s, c).minecraft = s.minecraft
    BY <1>4 DEF Snapshot
  <1> QED
    BY <1>3, <1>5 DEF c

LEMMA FailedFacts ==
  ASSUME NEW s, Consistent(s), NEW reason \in RuntimeStopReason,
         NEW code \in SanitizedErrorCode,
         s.runtime \in {"connecting", "ready", "reconnecting", "stopping"}
  PROVE  LET t == Failed(s, reason, code) IN
         /\ Consistent(t)
         /\ t.runtime = "failed"
         /\ t.stopReason = reason
         /\ t.lastError = code
         /\ t.minecraft = s.minecraft
  <1> DEFINE a == Tried(s, [type |-> "runtime.stop_reason.record", reason |-> reason])
             b == Tried(a, [type |-> "runtime.error.record", code |-> code])
  <1>1. /\ Consistent(a) /\ a.stopReason = reason
        /\ a.runtime = s.runtime /\ a.minecraft = s.minecraft
    BY ReasonFacts
  <1> HIDE DEF a
  <1>2. /\ Consistent(b) /\ b.lastError = code /\ b.stopReason = reason
        /\ b.runtime = s.runtime /\ b.minecraft = s.minecraft
    BY <1>1, ErrorFacts
  <1>3. Failed(s, reason, code) = RuntimeTo(b, "failed")
    BY DEF Failed, a, b
  <1> HIDE DEF b
  <1>4. AcceptsRuntime(b, "failed")
    BY <1>2 DEF AcceptsRuntime, RuntimeNext
  <1>5. "failed" \in RuntimeState
    BY DEF RuntimeState
  <1> QED
    BY <1>2, <1>3, <1>4, <1>5, RuntimeToFacts

\* The end of run(): the runtime is where the reason wants it.
LEMMA FinishedFacts ==
  ASSUME NEW s, Consistent(s), NEW reason,
         s.runtime = IF Normal(reason) THEN "stopping" ELSE "failed",
         s.minecraft.connection # "disconnected" \/ s.minecraft.telemetry = "unknown"
  PROVE  LET t == Finished(s, reason) IN
         /\ Consistent(t)
         /\ t.runtime = IF Normal(reason) THEN "stopped" ELSE "failed"
         /\ t.stopReason = s.stopReason
         /\ t.lastError = s.lastError
         /\ t.minecraft.connection = "disconnected"
         /\ t.minecraft.telemetry = "unknown"
  <1> DEFINE d == Disconnected(s)
  <1>1. /\ Consistent(d) /\ d.runtime = s.runtime
        /\ d.stopReason = s.stopReason /\ d.lastError = s.lastError
        /\ d.minecraft.connection = "disconnected"
        /\ d.minecraft.telemetry = "unknown"
    BY DisconnectedFacts
  <1>2. Finished(s, reason) =
          IF Normal(reason) THEN RuntimeTo(d, "stopped")
          ELSE IF d.runtime # "failed" THEN RuntimeTo(d, "failed") ELSE d
    BY DEF Finished
  <1> HIDE DEF d
  <1>3. Normal(reason) => AcceptsRuntime(d, "stopped")
    BY <1>1 DEF AcceptsRuntime, RuntimeNext
  <1>4. "stopped" \in RuntimeState
    BY DEF RuntimeState
  <1> QED
    BY <1>1, <1>2, <1>3, <1>4, RuntimeToFacts

LEMMA DetectedFacts ==
  ASSUME NEW s, Consistent(s), ~s.minecraft.other,
         s.runtime \in {"connecting", "ready"}
  PROVE  LET t == Detected(s) IN
         /\ Consistent(t)
         /\ t.runtime = "stopping"
         /\ t.stopReason = "other_player_detected"
         /\ t.lastError = s.lastError
         /\ t.minecraft.other
         /\ t.minecraft.connection = s.minecraft.connection
         /\ t.minecraft.telemetry = s.minecraft.telemetry
  <1> DEFINE c == [type |-> "safety.other_player_detected"]
  <1>1. c \in Dispatched /\ c.type = "safety.other_player_detected"
    BY DEF Dispatched, Command
  <1>2. Accepts(s, c) /\ After(s, c) = Detection(s)
    BY <1>1 DEF Accepts, After, AcceptsDetection, MinecraftCommand, TaskCommand
  <1>3. Detected(s) = Tried(s, c)
    BY DEF Detected
  <1> HIDE DEF c
  <1>4. Consistent(Detected(s))
    BY <1>1, <1>3, TriedConsistent
  <1>5. Detected(s) = Detection(s)
    BY <1>2, <1>3 DEF Tried
  <1>6. s \in Snapshot /\ s.minecraft \in MinecraftState
    BY DEF Consistent, Snapshot
  <1> DEFINE m == [s.minecraft EXCEPT !.other = TRUE]
  <1>7. /\ m.connection = s.minecraft.connection
        /\ m.telemetry = s.minecraft.telemetry
        /\ m.other
    BY <1>6 DEF MinecraftState
  <1>8. Detected(s) = [s EXCEPT !.runtime = "stopping",
                                !.stopReason = "other_player_detected",
                                !.minecraft = m]
    BY <1>5 DEF Detection
  <1> HIDE DEF m
  <1>9. /\ Detected(s).runtime = "stopping"
        /\ Detected(s).stopReason = "other_player_detected"
        /\ Detected(s).lastError = s.lastError
        /\ Detected(s).minecraft = m
    BY <1>6, <1>8 DEF Snapshot
  <1> QED
    BY <1>4, <1>7, <1>9

\* What a command on the connection's part does not touch.
SameRest(t, s) ==
  /\ t.runtime = s.runtime
  /\ t.stopReason = s.stopReason
  /\ t.lastError = s.lastError
  /\ t.minecraft.other = s.minecraft.other

LEMMA SpawnFacts ==
  ASSUME NEW s, Consistent(s), s.minecraft.connection = "connected"
  PROVE  LET t == Tried(s, [type |-> "minecraft.spawn.update", completed |-> TRUE])
         IN
         /\ Consistent(t)
         /\ SameRest(t, s)
         /\ t.minecraft.connection = "spawned"
         /\ t.minecraft.telemetry = s.minecraft.telemetry
  <1> DEFINE c == [type |-> "minecraft.spawn.update", completed |-> TRUE]
             m == Spawn(s.minecraft, TRUE)
  <1>1. c \in Dispatched /\ c.type = "minecraft.spawn.update" /\ c.completed
    BY DEF Dispatched, Command
  <1>2. Accepts(s, c) /\ After(s, c) = [s EXCEPT !.minecraft = m]
    BY <1>1 DEF Accepts, AcceptsSpawn, After, MinecraftAfter, MinecraftCommand,
       TaskCommand
  <1> HIDE DEF c
  <1>3. Consistent(Tried(s, c))
    BY <1>1, TriedConsistent
  <1>4. s \in Snapshot /\ s.minecraft \in MinecraftState
    BY DEF Consistent, Snapshot
  <1>5. /\ m.connection = "spawned" /\ m.telemetry = s.minecraft.telemetry
        /\ m.other = s.minecraft.other
    BY <1>4 DEF Spawn, MinecraftState
  <1> HIDE DEF m
  <1>6. Tried(s, c) = [s EXCEPT !.minecraft = m]
    BY <1>2 DEF Tried
  <1> QED
    BY <1>3, <1>4, <1>5, <1>6 DEF c, Snapshot, SameRest

LEMMA TelemetryFacts ==
  ASSUME NEW s, Consistent(s),
         NEW c \in Dispatched,
         c.type \in {"minecraft.telemetry.update", "minecraft.telemetry.invalidate"}
  PROVE  LET t == Tried(s, c) IN
         /\ Consistent(t)
         /\ SameRest(t, s)
         /\ t.minecraft.connection = s.minecraft.connection
  <1> DEFINE m == MinecraftAfter(s.minecraft, c)
  <1>1. Tried(s, c) = [s EXCEPT !.minecraft = m]
    BY DEF Accepts, After, MinecraftCommand, TaskCommand, Tried
  <1>2. s \in Snapshot /\ s.minecraft \in MinecraftState
    BY DEF Consistent, Snapshot
  <1>3. m.connection = s.minecraft.connection /\ m.other = s.minecraft.other
    BY <1>2 DEF MinecraftAfter, Report, Invalidate, MinecraftState
  <1> HIDE DEF m
  <1>4. Consistent(Tried(s, c))
    BY TriedConsistent
  <1> QED
    BY <1>1, <1>2, <1>3, <1>4 DEF Snapshot, SameRest

----------------------------------------------------------------------------
(* The invariant: what the snapshot says in every place where run() waits. *)

AttemptState ==
  /\ stopReason = NoValue
  /\ snapshot.stopReason = NoValue
  /\ snapshot.lastError = NoValue
  /\ ~snapshot.minecraft.other
  /\ spawned => joined
  /\ snapshot.runtime = IF spawned THEN "ready" ELSE "connecting"
  /\ snapshot.minecraft.connection =
       IF spawned THEN "spawned" ELSE IF joined THEN "connected" ELSE "connecting"
  /\ ~joined => snapshot.minecraft.telemetry = "unknown"

BetweenState ==
  /\ stopReason \in Optional(RequestedReason)
  /\ snapshot.stopReason = stopReason
  /\ snapshot.lastError = NoValue
  /\ ~snapshot.minecraft.other
  /\ snapshot.minecraft.connection = "disconnected"
  /\ snapshot.minecraft.telemetry = "unknown"
  /\ IF stopReason = NoValue THEN snapshot.runtime \in {"starting", "reconnecting"}
     ELSE snapshot.runtime = "stopping"

DoneState ==
  /\ stopReason \in RuntimeStopReason
  /\ snapshot.stopReason = stopReason
  /\ snapshot.lastError = NoValue <=> Normal(stopReason)
  /\ snapshot.runtime = IF Normal(stopReason) THEN "stopped" ELSE "failed"
  /\ snapshot.minecraft.connection = "disconnected"
  /\ snapshot.minecraft.telemetry = "unknown"

PlaceState ==
  /\ pc = "attempt" => AttemptState
  /\ pc \in {"loop", "waiting"} => BetweenState
  /\ pc = "done" => DoneState

SupervisorInv ==
  /\ TypeOK
  /\ Consistent(snapshot)
  /\ OneConnection
  /\ created <= retry + (IF pc \in {"loop", "waiting"} THEN 0 ELSE 1)
  /\ NeverWithStrangers
  /\ PlaceState

LEMMA InitInv ==
  ASSUME Init PROVE SupervisorInv
  <1>1. Consistent(snapshot)
    BY InitialConsistent DEF Init
  <1>2. {joined, spawned, named} \subseteq BOOLEAN
    BY DEF Init
  <1>3. retry \in 0..MaxRetries /\ created \in Nat /\ open \subseteq 1..created
    BY SupervisorAssumption DEF Init, SupervisorAssumption
  <1>4. TypeOK
    BY <1>1, <1>2, <1>3 DEF Init, TypeOK, Consistent, Optional
  <1>5. BetweenState
    BY DEF Init, BetweenState, InitialSnapshot, NoConnection, Optional
  <1> QED
    BY <1>1, <1>3, <1>4, <1>5 DEF Init, SupervisorInv, OneConnection,
       NeverWithStrangers, PlaceState

----------------------------------------------------------------------------
(* Leaving an attempt, or an iteration: to the end of run() or to a delay. *)

LEMMA EndFacts ==
  ASSUME NEW s, Consistent(s), NEW reason \in RuntimeStopReason,
         s.runtime = IF Normal(reason) THEN "stopping" ELSE "failed",
         s.minecraft.connection # "disconnected" \/ s.minecraft.telemetry = "unknown",
         s.stopReason = reason,
         s.lastError = NoValue <=> Normal(reason),
         End(s, reason)
  PROVE  /\ Consistent(snapshot')
         /\ pc' = "done"
         /\ retry' = retry
         /\ stopReason' = reason
         /\ PlaceState'
  <1>1. /\ Consistent(snapshot')
        /\ snapshot'.runtime = IF Normal(reason) THEN "stopped" ELSE "failed"
        /\ snapshot'.stopReason = reason
        /\ snapshot'.lastError = s.lastError
        /\ snapshot'.minecraft.connection = "disconnected"
        /\ snapshot'.minecraft.telemetry = "unknown"
    BY FinishedFacts DEF End
  <1>2. DoneState'
    BY <1>1 DEF DoneState, End, Normal, RequestedReason
  <1> QED
    BY <1>1, <1>2 DEF End, PlaceState

LEMMA ContinueFacts ==
  ASSUME NEW s, Consistent(s),
         s.runtime \in {"connecting", "ready"}, ~s.minecraft.other,
         s.stopReason = NoValue, s.lastError = NoValue,
         s.minecraft.connection # "disconnected" \/ s.minecraft.telemetry = "unknown",
         stopReason = NoValue,
         NEW outcome, Continue(s, outcome)
  PROVE  /\ Consistent(snapshot')
         /\ PlaceState'
         /\ stopReason' \in Optional(RuntimeStopReason)
         /\ \/ pc' = "done" /\ retry' = retry
            \/ pc' = "waiting" /\ retry' = retry + 1 /\ ~Exhausted
  <1> DEFINE gone == Disconnected(s)
  <1>1. /\ Consistent(gone)
        /\ gone.runtime = s.runtime
        /\ gone.stopReason = NoValue /\ gone.lastError = NoValue
        /\ ~gone.minecraft.other
        /\ gone.minecraft.connection = "disconnected"
        /\ gone.minecraft.telemetry = "unknown"
    BY DisconnectedFacts
  <1>2. \/ End(Failed(gone, "connection_error", "connection_error"),
               "connection_error")
        \/ End(Failed(gone, "reconnect_exhausted", "reconnect_exhausted"),
               "reconnect_exhausted")
        \/ /\ ~Exhausted /\ retry' = retry + 1
           /\ snapshot' = RuntimeTo(gone, "reconnecting")
           /\ pc' = "waiting" /\ stopReason' = stopReason
    BY DEF Continue
  <1> HIDE DEF gone
  <1>3. ASSUME NEW r \in {"connection_error", "reconnect_exhausted"},
               End(Failed(gone, r, r), r)
        PROVE  /\ Consistent(snapshot') /\ PlaceState'
               /\ stopReason' = r /\ pc' = "done" /\ retry' = retry
    <2>1. r \in RuntimeStopReason /\ r \in SanitizedErrorCode
      BY DEF RuntimeStopReason, SanitizedErrorCode
    <2>2. ~Normal(r)
      BY DEF Normal, RequestedReason
    <2> DEFINE t == Failed(gone, r, r)
    <2>3. /\ Consistent(t) /\ t.runtime = "failed" /\ t.stopReason = r
          /\ t.lastError = r /\ t.minecraft = gone.minecraft
      BY <1>1, <2>1, FailedFacts
    <2>4. r # NoValue
      BY <2>1, NoValueAssumption DEF NoValueAssumption
    <2> QED
      BY <1>1, <1>3, <2>1, <2>2, <2>3, <2>4, EndFacts
  <1>4. CASE /\ ~Exhausted /\ retry' = retry + 1
             /\ snapshot' = RuntimeTo(gone, "reconnecting")
             /\ pc' = "waiting" /\ stopReason' = stopReason
    <2>1. AcceptsRuntime(gone, "reconnecting") /\ "reconnecting" \in RuntimeState
      BY <1>1 DEF AcceptsRuntime, RuntimeNext, RuntimeState
    <2>2. /\ Consistent(snapshot') /\ snapshot'.runtime = "reconnecting"
          /\ snapshot'.minecraft = gone.minecraft
          /\ snapshot'.stopReason = NoValue /\ snapshot'.lastError = NoValue
      BY <1>1, <1>4, <2>1, RuntimeToFacts
    <2>3. BetweenState'
      BY <1>1, <1>4, <2>2 DEF BetweenState, Optional
    <2> QED
      BY <1>4, <2>2, <2>3 DEF PlaceState, Optional
  <1> QED
    BY <1>2, <1>3, <1>4 DEF Optional, RuntimeStopReason

\* What is left to show of a step that leaves the attempt with its connection
\* closed, or that did not open one.
LEMMA Closed ==
  ASSUME TypeOK, OneConnection,
         created <= retry + 1,
         Consistent(snapshot'), PlaceState',
         stopReason' \in Optional(RuntimeStopReason),
         \/ pc' = "done" /\ retry' = retry
         \/ pc' = "waiting" /\ retry' = retry + 1 /\ ~Exhausted,
         UNCHANGED <<attempt, created>>,
         \/ Settled
         \/ pc # "attempt" /\ UNCHANGED open
  PROVE  SupervisorInv'
  <1>1. open' = {}
    BY DEF OneConnection, Settled
  <1>2. TypeOK'
    BY <1>1, SupervisorAssumption DEF SupervisorAssumption, TypeOK, attempt,
       Consistent, Exhausted
  <1>3. created' <= retry' + (IF pc' \in {"loop", "waiting"} THEN 0 ELSE 1)
    BY DEF TypeOK
  <1>4. OneConnection' /\ NeverWithStrangers'
    BY <1>1 DEF OneConnection, NeverWithStrangers
  <1> QED
    BY <1>2, <1>3, <1>4 DEF SupervisorInv

----------------------------------------------------------------------------
(* The steps                                                               *)

\* What an iteration that finds no reason to stop begins with.
LEMMA ConnectingFacts ==
  ASSUME SupervisorInv, pc = "loop", stopReason = NoValue
  PROVE  /\ Consistent(Connecting)
         /\ Connecting.runtime = "connecting"
         /\ Connecting.stopReason = NoValue
         /\ Connecting.lastError = NoValue
         /\ ~Connecting.minecraft.other
         /\ Connecting.minecraft.connection = "connecting"
         /\ Connecting.minecraft.telemetry = "unknown"
  <1> DEFINE s == RuntimeTo(snapshot, "connecting")
  <1>1. BetweenState /\ Consistent(snapshot)
    BY DEF SupervisorInv, PlaceState
  <1>2. AcceptsRuntime(snapshot, "connecting") /\ "connecting" \in RuntimeState
    BY <1>1 DEF BetweenState, AcceptsRuntime, RuntimeNext, RuntimeState
  <1>3. /\ Consistent(s) /\ s.runtime = "connecting"
        /\ s.minecraft = snapshot.minecraft
        /\ s.stopReason = NoValue /\ s.lastError = NoValue
    BY <1>1, <1>2, RuntimeToFacts DEF BetweenState
  <1>4. Connecting = ConnectionTo(s, "connecting")
    BY DEF Connecting
  <1> HIDE DEF s
  <1>5. "connecting" \in ConnectionState \ {"spawned"}
    BY DEF ConnectionState
  <1>6. "connecting" \in ConnectionNext(s.minecraft.connection)
    BY <1>1, <1>3 DEF BetweenState, ConnectionNext
  <1> QED
    BY <1>1, <1>3, <1>4, <1>5, <1>6, ConnectionToFacts DEF BetweenState

LEMMA ConnectStep ==
  ASSUME SupervisorInv, Connect
  PROVE  SupervisorInv'
  <1>1. Consistent(snapshot') /\ AttemptState'
    BY ConnectingFacts DEF Connect, AttemptState
  <1>2. open' = {created'} /\ created' \in Nat \ {0}
    BY DEF Connect, SupervisorInv, OneConnection, TypeOK
  <1>3. {joined', spawned', named'} \subseteq BOOLEAN
    BY DEF Connect
  <1>4. TypeOK'
    BY <1>1, <1>2, <1>3 DEF Connect, SupervisorInv, TypeOK, Consistent
  <1>5. created' <= retry' + (IF pc' \in {"loop", "waiting"} THEN 0 ELSE 1)
    BY DEF Connect, SupervisorInv, TypeOK
  <1>6. OneConnection' /\ NeverWithStrangers' /\ PlaceState'
    BY <1>1, <1>2 DEF Connect, OneConnection, NeverWithStrangers, PlaceState
  <1> QED
    BY <1>1, <1>4, <1>5, <1>6 DEF SupervisorInv

LEMMA CreationFailsStep ==
  ASSUME SupervisorInv, CreationFails
  PROVE  SupervisorInv'
  <1>1. pc = "loop" /\ stopReason = NoValue /\ Continue(Connecting, "fatal")
    BY DEF CreationFails
  <1>2. /\ Consistent(snapshot') /\ PlaceState'
        /\ stopReason' \in Optional(RuntimeStopReason)
        /\ \/ pc' = "done" /\ retry' = retry
           \/ pc' = "waiting" /\ retry' = retry + 1 /\ ~Exhausted
    BY <1>1, ConnectingFacts, ContinueFacts
  <1>3. TypeOK /\ OneConnection /\ created <= retry + 1
    BY <1>1 DEF SupervisorInv, TypeOK
  <1>4. UNCHANGED <<attempt, open, created>>
    BY DEF CreationFails
  <1> QED
    BY <1>1, <1>2, <1>3, <1>4, Closed

LEMMA LeaveLoopStep ==
  ASSUME SupervisorInv, LeaveLoop
  PROVE  SupervisorInv'
  <1>1. BetweenState /\ Consistent(snapshot) /\ stopReason \in RequestedReason
    BY DEF SupervisorInv, PlaceState, LeaveLoop, BetweenState, Optional
  <1>2. stopReason \in RuntimeStopReason /\ Normal(stopReason)
    BY <1>1 DEF RequestedReason, RuntimeStopReason, Normal
  <1>3. /\ snapshot.runtime = "stopping" /\ snapshot.stopReason = stopReason
        /\ snapshot.lastError = NoValue
        /\ snapshot.minecraft.telemetry = "unknown"
    BY <1>1 DEF BetweenState, LeaveLoop
  <1>4. /\ Consistent(snapshot') /\ PlaceState' /\ pc' = "done"
        /\ retry' = retry /\ stopReason' = stopReason
    BY <1>1, <1>2, <1>3, EndFacts DEF LeaveLoop
  <1>5. TypeOK /\ OneConnection /\ created <= retry + 1
    BY DEF SupervisorInv, TypeOK, LeaveLoop
  <1> QED
    BY <1>2, <1>4, <1>5, Closed DEF LeaveLoop, Optional

\* What an attempt that goes on has to keep.
LEMMA AttemptGoesOn ==
  ASSUME SupervisorInv, pc = "attempt",
         UNCHANGED <<pc, retry, stopReason, open, created>>,
         Consistent(snapshot'), AttemptState', NeverWithStrangers',
         {joined', spawned', named'} \subseteq BOOLEAN, players' \subseteq Players
  PROVE  SupervisorInv'
  <1>1. TypeOK'
    BY DEF SupervisorInv, TypeOK, Consistent
  <1>2. OneConnection' /\ PlaceState'
    BY DEF SupervisorInv, OneConnection, PlaceState
  <1> QED
    BY <1>1, <1>2 DEF SupervisorInv

LEMMA AuthenticatedStep ==
  ASSUME SupervisorInv, Authenticated
  PROVE  SupervisorInv'
  <1>1. AttemptState' /\ ~spawned
    BY DEF Authenticated, SupervisorInv, PlaceState, AttemptState, TypeOK
  <1>2. {joined', spawned', named'} \subseteq BOOLEAN
    BY DEF Authenticated, SupervisorInv, TypeOK
  <1>3. Consistent(snapshot') /\ players' \subseteq Players
    BY DEF Authenticated, SupervisorInv, TypeOK
  <1>4. NeverWithStrangers'
    BY <1>1 DEF Authenticated, NeverWithStrangers
  <1> QED
    BY <1>1, <1>2, <1>3, <1>4, AttemptGoesOn DEF Authenticated

LEMMA JoinStep ==
  ASSUME SupervisorInv, Join
  PROVE  SupervisorInv'
  <1>1. AttemptState /\ Consistent(snapshot) /\ ~spawned /\ joined \in BOOLEAN
    BY DEF Join, SupervisorInv, PlaceState, AttemptState, TypeOK
  <1>2. "connected" \in ConnectionState \ {"spawned"}
    BY DEF ConnectionState
  <1>3. /\ snapshot.minecraft.connection = "connecting"
        /\ "connected" \in ConnectionNext(snapshot.minecraft.connection)
    BY <1>1 DEF AttemptState, ConnectionNext, Join
  <1>4. /\ Consistent(snapshot') /\ snapshot'.runtime = snapshot.runtime
        /\ snapshot'.stopReason = snapshot.stopReason
        /\ snapshot'.lastError = snapshot.lastError
        /\ snapshot'.minecraft.other = snapshot.minecraft.other
        /\ snapshot'.minecraft.connection = "connected"
    BY <1>1, <1>2, <1>3, ConnectionToFacts DEF Join
  <1>5. AttemptState'
    BY <1>1, <1>4 DEF AttemptState, Join
  <1>6. {joined', spawned', named'} \subseteq BOOLEAN
    BY DEF Join, SupervisorInv, TypeOK
  <1>7. NeverWithStrangers' /\ players' \subseteq Players
    BY <1>1 DEF Join, NeverWithStrangers, SupervisorInv, TypeOK
  <1> QED
    BY <1>4, <1>5, <1>6, <1>7, AttemptGoesOn DEF Join

\* A detected player ends run(), whether at the spawn or after it.
LEMMA DetectionStep ==
  ASSUME SupervisorInv, pc = "attempt", NEW s, Consistent(s),
         s.runtime \in {"connecting", "ready"}, ~s.minecraft.other,
         s.lastError = NoValue, s.minecraft.connection # "disconnected",
         Settled, End(Detected(s), "other_player_detected")
  PROVE  SupervisorInv'
  <1> DEFINE t == Detected(s)
             r == "other_player_detected"
  <1>1. /\ Consistent(t) /\ t.runtime = "stopping" /\ t.stopReason = r
        /\ t.lastError = NoValue
        /\ t.minecraft.connection # "disconnected"
    BY DetectedFacts
  <1>2. r \in RuntimeStopReason /\ Normal(r)
    BY DEF RuntimeStopReason, Normal
  <1>3. End(t, r)
    OBVIOUS
  <1> HIDE DEF t, r
  <1>4. /\ Consistent(snapshot') /\ PlaceState' /\ pc' = "done"
        /\ retry' = retry /\ stopReason' = r
    BY <1>1, <1>2, <1>3, EndFacts
  <1>5. TypeOK /\ OneConnection /\ created <= retry + 1
    BY DEF SupervisorInv, TypeOK
  <1> QED
    BY <1>2, <1>4, <1>5, Closed DEF Settled, Optional

LEMMA SpawnedStep ==
  ASSUME SupervisorInv, Spawned
  PROVE  SupervisorInv'
  <1> DEFINE u == Tried(snapshot, [type |-> "minecraft.spawn.update",
                                   completed |-> TRUE])
             s == RuntimeTo(u, "ready")
  <1>1. /\ AttemptState /\ Consistent(snapshot)
        /\ pc = "attempt" /\ joined /\ ~spawned
    BY DEF Spawned, SupervisorInv, PlaceState
  <1>2. snapshot.minecraft.connection = "connected"
    BY <1>1 DEF AttemptState
  <1>3. /\ Consistent(u) /\ SameRest(u, snapshot)
        /\ u.minecraft.connection = "spawned"
        /\ u.minecraft.telemetry = snapshot.minecraft.telemetry
    BY <1>1, <1>2, SpawnFacts
  <1> HIDE DEF u
  <1>4. AcceptsRuntime(u, "ready") /\ "ready" \in RuntimeState
    BY <1>1, <1>3 DEF AttemptState, SameRest, AcceptsRuntime, RuntimeNext,
       RuntimeState
  <1>5. /\ Consistent(s) /\ s.runtime = "ready" /\ s.minecraft = u.minecraft
        /\ s.stopReason = NoValue /\ s.lastError = NoValue
        /\ ~s.minecraft.other
    BY <1>1, <1>3, <1>4, RuntimeToFacts DEF SameRest, AttemptState
  <1>6. IF WaitingStrangers = {}
        THEN /\ snapshot' = s /\ spawned' = TRUE
             /\ UNCHANGED <<pc, retry, stopReason, joined, named, players, open,
                            created>>
        ELSE Settled /\ End(Detected(s), "other_player_detected")
    BY DEF Spawned, u
  <1> HIDE DEF s
  <1>7. CASE WaitingStrangers = {}
    <2>1. AttemptState'
      BY <1>1, <1>3, <1>5, <1>6, <1>7 DEF AttemptState
    <2>2. NeverWithStrangers'
      BY <1>6, <1>7 DEF NeverWithStrangers, WaitingStrangers, Stranger
    <2>3. {joined', spawned', named'} \subseteq BOOLEAN /\ players' \subseteq Players
      BY <1>6, <1>7 DEF SupervisorInv, TypeOK
    <2> QED
      BY <1>1, <1>5, <1>6, <1>7, <2>1, <2>2, <2>3, AttemptGoesOn
  <1>8. CASE WaitingStrangers # {}
    BY <1>1, <1>3, <1>5, <1>6, <1>8, DetectionStep
  <1> QED
    BY <1>7, <1>8

LEMMA PlayerJoinedStep ==
  ASSUME SupervisorInv, NEW p \in Players, PlayerJoined(p)
  PROVE  SupervisorInv'
  <1>1. /\ pc = "attempt" /\ AttemptState /\ Consistent(snapshot)
    BY DEF PlayerJoined, SupervisorInv, PlaceState
  <1>2. CASE spawned /\ Stranger(p)
    <2>1. Settled /\ End(Detected(snapshot), "other_player_detected")
      BY <1>2 DEF PlayerJoined
    <2>2. /\ snapshot.runtime \in {"connecting", "ready"}
          /\ ~snapshot.minecraft.other /\ snapshot.lastError = NoValue
          /\ snapshot.minecraft.connection # "disconnected"
      BY <1>1, <1>2 DEF AttemptState
    <2> QED
      BY <1>1, <2>1, <2>2, DetectionStep
  <1>3. CASE ~(spawned /\ Stranger(p))
    <2>1. /\ players' = players \cup {p}
          /\ UNCHANGED <<snapshot, pc, retry, stopReason, joined, spawned, named,
                         open, created>>
      BY <1>3 DEF PlayerJoined
    <2>2. NeverWithStrangers'
      BY <1>3, <2>1 DEF NeverWithStrangers, Stranger, SupervisorInv
    <2>3. AttemptState' /\ Consistent(snapshot')
      BY <1>1, <2>1 DEF AttemptState
    <2>4. {joined', spawned', named'} \subseteq BOOLEAN /\ players' \subseteq Players
      BY <2>1 DEF SupervisorInv, TypeOK
    <2> QED
      BY <1>1, <2>1, <2>2, <2>3, <2>4, AttemptGoesOn
  <1> QED
    BY <1>2, <1>3

LEMMA PlayerLeftStep ==
  ASSUME SupervisorInv, NEW p \in Players, PlayerLeft(p)
  PROVE  SupervisorInv'
  <1>1. /\ pc = "attempt" /\ players' = players \ {p}
        /\ UNCHANGED <<snapshot, pc, retry, stopReason, joined, spawned, named,
                       open, created>>
    BY DEF PlayerLeft
  <1>2. NeverWithStrangers'
    BY <1>1 DEF NeverWithStrangers, Stranger, SupervisorInv
  <1>3. AttemptState' /\ Consistent(snapshot')
    BY <1>1 DEF AttemptState, SupervisorInv, PlaceState
  <1>4. {joined', spawned', named'} \subseteq BOOLEAN /\ players' \subseteq Players
    BY <1>1 DEF SupervisorInv, TypeOK
  <1> QED
    BY <1>1, <1>2, <1>3, <1>4, AttemptGoesOn

LEMMA StateStep ==
  ASSUME SupervisorInv, State
  PROVE  SupervisorInv'
  <1>1. /\ pc = "attempt" /\ joined /\ AttemptState /\ Consistent(snapshot)
        /\ UNCHANGED <<pc, retry, stopReason, joined, spawned, named, players,
                       open, created>>
    BY DEF State, attempt, SupervisorInv, PlaceState
  <1>2. PICK c \in Dispatched :
          /\ c.type \in {"minecraft.telemetry.update",
                         "minecraft.telemetry.invalidate"}
          /\ snapshot' = Tried(snapshot, c)
    <2>1. ASSUME NEW r \in Reports, snapshot' = Telemetered(snapshot, r)
          PROVE  \E c \in Dispatched :
                   /\ c.type \in {"minecraft.telemetry.update",
                                  "minecraft.telemetry.invalidate"}
                   /\ snapshot' = Tried(snapshot, c)
      <3>1. r \in Telemetry
        BY SupervisorAssumption DEF SupervisorAssumption
      <3>2. [type |-> "minecraft.telemetry.update", telemetry |-> r] \in Dispatched
        BY <3>1 DEF Dispatched, Command
      <3> QED
        BY <2>1, <3>2 DEF Telemetered
    <2>2. [type |-> "minecraft.telemetry.invalidate"] \in Dispatched
      BY DEF Dispatched, Command
    <2> QED
      BY <2>1, <2>2 DEF State
  <1>3. /\ Consistent(snapshot') /\ SameRest(snapshot', snapshot)
        /\ snapshot'.minecraft.connection = snapshot.minecraft.connection
    BY <1>1, <1>2, TelemetryFacts
  <1>4. AttemptState'
    BY <1>1, <1>3 DEF AttemptState, SameRest
  <1>5. NeverWithStrangers'
    BY <1>1 DEF NeverWithStrangers, Stranger, SupervisorInv
  <1>6. {joined', spawned', named'} \subseteq BOOLEAN /\ players' \subseteq Players
    BY <1>1 DEF SupervisorInv, TypeOK
  <1> QED
    BY <1>1, <1>3, <1>4, <1>5, <1>6, AttemptGoesOn

LEMMA LostStep ==
  ASSUME SupervisorInv, ConnectTimeout \/ ConnectionError
  PROVE  SupervisorInv'
  <1>1. Settled /\ \E outcome \in {"retryable", "fatal"} : Continue(snapshot, outcome)
    BY DEF ConnectTimeout, ConnectionError
  <1>2. AttemptState /\ Consistent(snapshot)
    BY <1>1 DEF Settled, SupervisorInv, PlaceState
  <1>3. /\ snapshot.runtime \in {"connecting", "ready"}
        /\ snapshot.minecraft.connection # "disconnected"
    BY <1>2 DEF AttemptState
  <1>4. /\ Consistent(snapshot') /\ PlaceState'
        /\ stopReason' \in Optional(RuntimeStopReason)
        /\ \/ pc' = "done" /\ retry' = retry
           \/ pc' = "waiting" /\ retry' = retry + 1 /\ ~Exhausted
    BY <1>1, <1>2, <1>3, ContinueFacts DEF AttemptState
  <1>5. TypeOK /\ OneConnection /\ created <= retry + 1
    BY <1>1 DEF SupervisorInv, Settled
  <1> QED
    BY <1>1, <1>4, <1>5, Closed DEF Settled

LEMMA WaitEndsStep ==
  ASSUME SupervisorInv, WaitEnds
  PROVE  SupervisorInv'
  <1>1. TypeOK'
    BY DEF WaitEnds, attempt, SupervisorInv, TypeOK
  <1>2. Consistent(snapshot')
    BY DEF WaitEnds, SupervisorInv
  <1>3. OneConnection' /\ NeverWithStrangers'
    BY DEF WaitEnds, SupervisorInv, OneConnection, NeverWithStrangers
  <1>4. PlaceState'
    BY DEF WaitEnds, SupervisorInv, PlaceState, BetweenState
  <1>5. created' <= retry' + (IF pc' \in {"loop", "waiting"} THEN 0 ELSE 1)
    BY DEF WaitEnds, SupervisorInv
  <1> QED
    BY <1>1, <1>2, <1>3, <1>4, <1>5 DEF SupervisorInv

LEMMA RequestStopStep ==
  ASSUME SupervisorInv, NEW reason \in RequestedReason, RequestStop(reason)
  PROVE  SupervisorInv'
  <1> DEFINE u == Tried(snapshot, [type |-> "runtime.stop_reason.record",
                                   reason |-> reason])
             s == RuntimeTo(u, "stopping")
  <1>1. /\ reason \in RuntimeStopReason /\ Normal(reason)
        /\ reason # NoValue
    BY NoValueAssumption DEF NoValueAssumption, RequestedReason,
       RuntimeStopReason, Normal
  <1>2. stopReason = NoValue /\ pc # "done"
    BY NoValueAssumption DEF NoValueAssumption, RequestStop, MayStop,
       SupervisorInv, PlaceState, DoneState
  <1>3. /\ Consistent(snapshot) /\ snapshot.lastError = NoValue
        /\ ~snapshot.minecraft.other
        /\ snapshot.runtime \in {"starting", "reconnecting", "connecting", "ready"}
        /\ snapshot.minecraft.connection # "disconnected"
             \/ snapshot.minecraft.telemetry = "unknown"
    <2>1. pc \in {"loop", "waiting", "attempt"}
      BY <1>2 DEF SupervisorInv, TypeOK
    <2> QED
      BY <1>2, <2>1 DEF SupervisorInv, PlaceState, AttemptState, BetweenState
  <1>4. /\ Consistent(u) /\ u.stopReason = reason
        /\ u.runtime = snapshot.runtime /\ u.minecraft = snapshot.minecraft
        /\ u.lastError = NoValue
    BY <1>1, <1>3, ReasonFacts
  <1> HIDE DEF u
  <1>5. AcceptsRuntime(u, "stopping") /\ "stopping" \in RuntimeState
    BY <1>3, <1>4 DEF AcceptsRuntime, RuntimeNext, RuntimeState
  <1>6. /\ Consistent(s) /\ s.runtime = "stopping"
        /\ s.minecraft = snapshot.minecraft
        /\ s.stopReason = reason /\ s.lastError = NoValue
    BY <1>4, <1>5, RuntimeToFacts
  <1>7. IF StopsAttempt THEN Settled /\ End(s, reason)
        ELSE /\ snapshot' = s /\ stopReason' = reason
             /\ UNCHANGED <<pc, retry, attempt, open, created>>
    BY DEF RequestStop, u
  <1> HIDE DEF s
  <1>8. CASE StopsAttempt
    <2>1. /\ Consistent(snapshot') /\ PlaceState' /\ pc' = "done"
          /\ retry' = retry /\ stopReason' = reason
      BY <1>1, <1>3, <1>6, <1>7, <1>8, EndFacts
    <2>2. TypeOK /\ OneConnection /\ created <= retry + 1
      BY <1>8 DEF SupervisorInv, StopsAttempt
    <2> QED
      BY <1>1, <1>7, <1>8, <2>1, <2>2, Closed DEF Settled, Optional
  <1>9. CASE ~StopsAttempt
    <2>1. /\ snapshot' = s /\ stopReason' = reason
          /\ UNCHANGED <<pc, retry, joined, spawned, named, players, open, created>>
      BY <1>7, <1>9 DEF attempt
    <2>2. pc \in {"loop", "waiting"}
      BY <1>2, <1>9 DEF StopsAttempt, SupervisorInv, TypeOK
    <2>3. TypeOK'
      BY <1>1, <1>6, <2>1 DEF SupervisorInv, TypeOK, Consistent, Optional
    <2>4. BetweenState'
      BY <1>1, <1>3, <1>6, <2>1, <2>2 DEF SupervisorInv, PlaceState, BetweenState,
         Optional
    <2>5. OneConnection' /\ NeverWithStrangers' /\ PlaceState'
      BY <2>1, <2>2, <2>4 DEF SupervisorInv, OneConnection, NeverWithStrangers,
         PlaceState
    <2> QED
      BY <1>6, <2>1, <2>3, <2>5 DEF SupervisorInv
  <1> QED
    BY <1>8, <1>9

LEMMA StutterStep ==
  ASSUME SupervisorInv, UNCHANGED vars
  PROVE  SupervisorInv'
  <1>1. TypeOK' /\ Consistent(snapshot')
    BY DEF vars, SupervisorInv, TypeOK
  <1>2. OneConnection' /\ NeverWithStrangers'
    BY DEF vars, SupervisorInv, OneConnection, NeverWithStrangers, Stranger
  <1>3. PlaceState'
    BY DEF vars, SupervisorInv, PlaceState, AttemptState, BetweenState, DoneState
  <1> QED
    BY <1>1, <1>2, <1>3 DEF vars, SupervisorInv

LEMMA NextStep ==
  ASSUME SupervisorInv, [Next]_vars
  PROVE  SupervisorInv'
  <1>1. CASE Next
    <2>1. CASE Event
      BY <2>1, AuthenticatedStep, JoinStep, SpawnedStep, StateStep, LostStep,
         PlayerJoinedStep, PlayerLeftStep DEF Event
    <2>2. CASE \E reason \in RequestedReason : RequestStop(reason)
      BY <2>2, RequestStopStep
    <2> QED
      BY <1>1, <2>1, <2>2, ConnectStep, CreationFailsStep, LeaveLoopStep,
         LostStep, WaitEndsStep DEF Next
  <1>2. CASE UNCHANGED vars
    BY <1>2, StutterStep
  <1> QED
    BY <1>1, <1>2

----------------------------------------------------------------------------
(* The theorems                                                            *)

\* The invariant holds in every state of every behavior.
THEOREM Invariance == Spec => []SupervisorInv
  <1>1. Init => SupervisorInv
    BY InitInv
  <1>2. SupervisorInv /\ [Next]_vars => SupervisorInv'
    BY NextStep
  <1> QED
    BY <1>1, <1>2, PTL DEF Spec

\* The variables have their types.
THEOREM TypeCorrect == Spec => []TypeOK
  <1>1. SupervisorInv => TypeOK
    BY DEF SupervisorInv
  <1> QED
    BY <1>1, Invariance, PTL

\* Only the newest connection is open, and only during its attempt.
THEOREM OnlyOneConnection == Spec => []OneConnection
  <1>1. SupervisorInv => OneConnection
    BY DEF SupervisorInv
  <1> QED
    BY <1>1, Invariance, PTL

\* run() makes at most maxRetries + 1 connections.
THEOREM BoundedAttempts == Spec => []AttemptsBounded
  <1>1. SupervisorInv => AttemptsBounded
    BY SupervisorAssumption DEF SupervisorAssumption, SupervisorInv, TypeOK,
       AttemptsBounded
  <1> QED
    BY <1>1, Invariance, PTL

\* What run() returns is what the snapshot says.
THEOREM ResultAlwaysMatches == Spec => []ResultMatchesSnapshot
  <1>1. SupervisorInv => ResultMatchesSnapshot
    BY DEF SupervisorInv, PlaceState, DoneState, ResultMatchesSnapshot
  <1> QED
    BY <1>1, Invariance, PTL

\* A spawned BOT never stays with a player it knows of.
THEOREM AlwaysAlone == Spec => []NeverWithStrangers
  <1>1. SupervisorInv => NeverWithStrangers
    BY DEF SupervisorInv
  <1> QED
    BY <1>1, Invariance, PTL

\* Nothing the snapshot reports outlives the attempt that reported it.
THEOREM NothingOutlivesItsAttempt == Spec => []ReportedByThisAttempt
  <1>1. SupervisorInv => ReportedByThisAttempt
    <2> SUFFICES ASSUME SupervisorInv PROVE ReportedByThisAttempt
      OBVIOUS
    <2>1. /\ pc \in {"loop", "attempt", "waiting", "done"}
          /\ MinecraftOK(snapshot.minecraft)
      BY DEF SupervisorInv, TypeOK, Consistent
    <2>2. snapshot.minecraft.spawned <=> snapshot.minecraft.connection = "spawned"
      BY <2>1 DEF MinecraftOK
    <2>3. CASE pc = "attempt"
      BY <2>2, <2>3 DEF SupervisorInv, PlaceState, AttemptState,
         ReportedByThisAttempt
    <2>4. CASE pc \in {"loop", "waiting"}
      BY <2>2, <2>4 DEF SupervisorInv, PlaceState, BetweenState,
         ReportedByThisAttempt
    <2>5. CASE pc = "done"
      BY <2>2, <2>5 DEF SupervisorInv, PlaceState, DoneState,
         ReportedByThisAttempt
    <2> QED
      BY <2>1, <2>3, <2>4, <2>5
  <1> QED
    BY <1>1, Invariance, PTL

\* After the first reason to stop there is no other and no new connection.
THEOREM FirstReasonStays == Spec => FirstReasonKept
  <1>1. SupervisorInv /\ [Next]_vars =>
          [stopReason # NoValue => UNCHANGED <<stopReason, created>>]_vars
    <2> SUFFICES ASSUME SupervisorInv, Next, stopReason # NoValue
                 PROVE  UNCHANGED <<stopReason, created>>
      BY DEF vars
    <2>1. pc # "attempt"
      BY DEF SupervisorInv, PlaceState, AttemptState
    <2>2. ~Event /\ ~ConnectTimeout
      BY <2>1 DEF Event, ConnectTimeout, Authenticated, Join, Spawned,
         PlayerJoined, PlayerLeft, State, ConnectionError, Settled
    <2>3. LeaveLoop \/ WaitEnds
      BY <2>2 DEF Next, Connect, CreationFails, RequestStop, MayStop
    <2> QED
      BY <2>3 DEF LeaveLoop, End, WaitEnds
  <1> QED
    BY <1>1, Invariance, PTL DEF Spec, FirstReasonKept

----------------------------------------------------------------------------
(* run() ends                                                              *)

\* What is left of run(), counted in turns of its loop: an iteration is an
\* attempt, its end and a delay, and there are MaxRetries + 1 of them.
RunLeft ==
  LET retries == 3 * (MaxRetries - retry) IN
  IF pc = "done" THEN 0
  ELSE IF pc = "attempt" THEN retries + 2
  ELSE IF pc = "loop" THEN retries + 3
  ELSE retries + 4

\* What run() does by itself, or with the end of an attempt.
RunTurn ==
  Connect \/ CreationFails \/ LeaveLoop \/ ConnectTimeout \/ ConnectionError \/ WaitEnds

RunAdvances ==
  /\ RunTurn => RunLeft' < RunLeft
  /\ RunLeft' <= RunLeft

\* After a reason to stop no attempt is left, and what is left is the rest of a
\* delay and the way out of the loop.
StopLeft == IF pc = "done" THEN 0 ELSE IF pc = "loop" THEN 1 ELSE 2

StopAdvances ==
  stopReason # NoValue =>
    /\ pc # "attempt"
    /\ RunTurn => StopLeft' < StopLeft
    /\ StopLeft' <= StopLeft

\* How a step moves run().
Moves(from, to) == pc = from /\ pc' = to /\ retry' = retry

Retries == pc \in {"loop", "attempt"} /\ pc' = "waiting" /\ retry' = retry + 1

LEMMA RunTurns ==
  ASSUME SupervisorInv, [Next]_vars
  PROVE  /\ RunTurn => \/ Moves("loop", "attempt") \/ Moves("loop", "done")
                    \/ Moves("attempt", "done") \/ Moves("waiting", "loop")
                    \/ (pc = "attempt" /\ Retries)
         /\ \/ RunTurn
            \/ UNCHANGED <<pc, retry>>
            \/ Moves("attempt", "done")
  <1>1. ASSUME NEW s, NEW outcome \in {"retryable", "fatal"}, Continue(s, outcome),
               pc \in {"loop", "attempt"}
        PROVE  \/ Moves("loop", "done") \/ Moves("attempt", "done")
               \/ (outcome = "retryable" /\ Retries)
    BY <1>1 DEF Continue, End, Moves, Retries
  <1>2. Connect => Moves("loop", "attempt")
    BY DEF Connect, Moves
  <1>3. CreationFails => Moves("loop", "done")
    BY <1>1 DEF CreationFails, Moves
  <1>4. LeaveLoop => Moves("loop", "done")
    BY DEF LeaveLoop, End, Moves
  <1>5. ConnectTimeout \/ ConnectionError
          => Moves("attempt", "done") \/ (pc = "attempt" /\ Retries)
    BY <1>1 DEF ConnectTimeout, ConnectionError, Settled, Moves
  <1>6. WaitEnds => Moves("waiting", "loop")
    BY DEF WaitEnds, Moves
  <1>7. Authenticated \/ Join \/ State \/ UNCHANGED vars
          \/ (\E p \in Players : PlayerLeft(p))
        => UNCHANGED <<pc, retry>>
    BY DEF Authenticated, Join, State, PlayerLeft, vars
  <1>8. Spawned \/ (\E p \in Players : PlayerJoined(p))
        => UNCHANGED <<pc, retry>> \/ Moves("attempt", "done")
    BY DEF Spawned, PlayerJoined, End, Moves
  <1>9. (\E reason \in RequestedReason : RequestStop(reason))
        => UNCHANGED <<pc, retry>> \/ Moves("attempt", "done")
    BY DEF RequestStop, StopsAttempt, End, Moves
  <1>10. RunTurn => \/ Moves("loop", "attempt") \/ Moves("loop", "done")
                 \/ Moves("attempt", "done") \/ Moves("waiting", "loop")
                 \/ (pc = "attempt" /\ Retries)
    BY <1>2, <1>3, <1>4, <1>5, <1>6 DEF RunTurn
  <1>11. RunTurn \/ UNCHANGED <<pc, retry>> \/ Moves("attempt", "done")
    BY <1>7, <1>8, <1>9 DEF Next, Event, RunTurn
  <1> QED
    BY <1>10, <1>11

LEMMA RunOnlyAdvances ==
  ASSUME SupervisorInv, SupervisorInv', [Next]_vars
  PROVE  RunAdvances
  <1>1. /\ retry \in 0..MaxRetries /\ retry' \in 0..MaxRetries /\ MaxRetries \in Nat
        /\ pc \in {"loop", "attempt", "waiting", "done"}
        /\ pc' \in {"loop", "attempt", "waiting", "done"}
    BY SupervisorAssumption DEF SupervisorInv, TypeOK, SupervisorAssumption
  <1>2. RunLeft \in Int /\ RunLeft' \in Int
    BY <1>1 DEF RunLeft
  <1>3. ASSUME \/ Moves("loop", "attempt") \/ Moves("loop", "done")
               \/ Moves("attempt", "done") \/ Moves("waiting", "loop")
               \/ (pc = "attempt" /\ Retries)
        PROVE  RunLeft' < RunLeft
    <2>1. /\ pc = "loop" => RunLeft = 3 * (MaxRetries - retry) + 3
          /\ pc = "attempt" => RunLeft = 3 * (MaxRetries - retry) + 2
          /\ pc = "waiting" => RunLeft = 3 * (MaxRetries - retry) + 4
      BY DEF RunLeft
    <2>2. /\ pc' = "loop" => RunLeft' = 3 * (MaxRetries - retry') + 3
          /\ pc' = "attempt" => RunLeft' = 3 * (MaxRetries - retry') + 2
          /\ pc' = "waiting" => RunLeft' = 3 * (MaxRetries - retry') + 4
          /\ pc' = "done" => RunLeft' = 0
      BY DEF RunLeft
    <2> HIDE DEF RunLeft
    <2>3. CASE Moves("loop", "attempt")
      BY <1>1, <2>1, <2>2, <2>3 DEF Moves
    <2>4. CASE Moves("loop", "done") \/ Moves("attempt", "done")
      BY <1>1, <2>1, <2>2, <2>4 DEF Moves
    <2>5. CASE Moves("waiting", "loop")
      BY <1>1, <2>1, <2>2, <2>5 DEF Moves
    <2>6. CASE pc = "attempt" /\ Retries
      BY <1>1, <2>1, <2>2, <2>6 DEF Retries
    <2> QED
      BY <1>3, <2>3, <2>4, <2>5, <2>6
  <1>4. UNCHANGED <<pc, retry>> => RunLeft' = RunLeft
    BY DEF RunLeft
  <1>5. RunTurn => RunLeft' < RunLeft
    BY <1>3, RunTurns
  <1>6. RunLeft' <= RunLeft
    BY <1>2, <1>3, <1>4, <1>5, RunTurns
  <1> QED
    BY <1>5, <1>6 DEF RunAdvances

LEMMA StopOnlyAdvances ==
  ASSUME SupervisorInv, [Next]_vars
  PROVE  StopAdvances
  <1> SUFFICES ASSUME stopReason # NoValue
               PROVE  /\ pc # "attempt"
                      /\ RunTurn => StopLeft' < StopLeft
                      /\ StopLeft' <= StopLeft
    BY DEF StopAdvances
  <1>1. pc # "attempt"
    BY DEF SupervisorInv, PlaceState, AttemptState
  <1>2. ~Connect
    BY DEF Connect
  <1>3. RunTurn => Moves("loop", "done") \/ Moves("waiting", "loop")
    <2>1. Moves("loop", "attempt") => ~RunTurn
      BY <1>2 DEF Moves, RunTurn, CreationFails, Continue, End, LeaveLoop, ConnectTimeout,
         ConnectionError, Settled, WaitEnds
    <2> QED
      BY <1>1, <2>1, RunTurns DEF Moves
  <1>4. Moves("loop", "done") \/ Moves("waiting", "loop") => StopLeft' < StopLeft
    BY DEF Moves, StopLeft
  <1>5. UNCHANGED <<pc, retry>> => StopLeft' = StopLeft
    BY DEF StopLeft
  <1>6. StopLeft \in 0..2 /\ StopLeft' \in 0..2
    BY DEF StopLeft
  <1> QED
    BY <1>1, <1>3, <1>4, <1>5, <1>6, RunTurns DEF Moves

\* run() is over after 3 * MaxRetries + 3 turns of its loop at most: every turn
\* brings it nearer to its end, and no event, player or request takes it back.
THEOREM RunsAdvance == Spec => [][RunAdvances]_vars
  <1>1. SupervisorInv /\ SupervisorInv' /\ [Next]_vars => [RunAdvances]_vars
    BY RunOnlyAdvances
  <1> QED
    BY <1>1, Invariance, PTL DEF Spec

\* Whoever stops the runtime, a stop leaves no attempt under way and at most two
\* turns of the loop, whatever the retries that were still to come.
THEOREM StopsAdvance == Spec => [][StopAdvances]_vars
  <1>1. SupervisorInv /\ [Next]_vars => [StopAdvances]_vars
    BY StopOnlyAdvances
  <1> QED
    BY <1>1, Invariance, PTL DEF Spec

----------------------------------------------------------------------------
(* What a change of the snapshot is announced with                         *)

\* The first rule that applies gives the message.
LEMMA TemplateFirst ==
  ASSUME NEW b, NEW a, NEW i, i \in 1..11, Rules(b, a)[i].if,
         \A j \in 1..(i - 1) : ~Rules(b, a)[j].if
  PROVE  Template(b, a) = Rules(b, a)[i].type
  <1> DEFINE rules == Rules(b, a)
             First(k) == rules[k].if /\ \A j \in 1..(k - 1) : ~rules[j].if
  <1>1. DOMAIN rules = 1..11
    BY DEF Rules
  <1>2. Template(b, a) = rules[CHOOSE k \in DOMAIN rules : First(k)].type
    BY DEF Template
  <1>3. First(i) /\ rules = Rules(b, a)
    OBVIOUS
  <1> HIDE DEF rules
  <1>4. ASSUME NEW k \in 1..11, First(k) PROVE k = i
    <2>1. ~(k < i) /\ ~(i < k)
      BY <1>3, <1>4
    <2> QED
      BY <2>1
  <1>5. (CHOOSE k \in DOMAIN rules : First(k)) = i
    BY <1>1, <1>3, <1>4
  <1> QED
    BY <1>2, <1>3, <1>5

\* The rules, as the chain of conditions that they are.
LEMMA NewsChain ==
  ASSUME NEW b, NEW a
  PROVE  News(b, a) =
           IF ~b.minecraft.other /\ a.minecraft.other THEN <<"other_player_safety_stop">>
           ELSE IF Erred(b, a) /\ a.lastError = "reconnect_exhausted"
             THEN <<"reconnect_exhausted">>
           ELSE IF Erred(b, a) THEN <<"runtime_failed">>
           ELSE IF b.stopReason # a.stopReason /\ a.stopReason \in RequestedReason
             THEN <<"stop_requested">>
           ELSE IF Became(b.runtime, a.runtime, "reconnecting")
             THEN <<"reconnect_started">>
           ELSE IF /\ b.minecraft.connection = "disconnected"
                   /\ a.minecraft.connection = "connecting"
             THEN <<"minecraft_connecting">>
           ELSE IF /\ b.minecraft.connection = "connecting"
                   /\ a.minecraft.connection = "connected"
             THEN <<"minecraft_connected">>
           ELSE IF ~b.minecraft.spawned /\ a.minecraft.spawned
             THEN <<"minecraft_spawned">>
           ELSE IF Lost(b, a) THEN <<"minecraft_disconnected">>
           ELSE IF Stopped(b, a) THEN <<"runtime_stopped">>
           ELSE <<>>
  <1> DEFINE If(i)   == Rules(b, a)[i].if
             Type(i) == Rules(b, a)[i].type
  <1>1. ASSUME NEW i, i \in 1..11, If(i), \A j \in 1..(i - 1) : ~If(j)
        PROVE  Template(b, a) = Type(i)
    BY <1>1, TemplateFirst
  <1>2. /\ If(1) <=> ~b.minecraft.other /\ a.minecraft.other
        /\ If(2) <=> Erred(b, a) /\ a.lastError = "reconnect_exhausted"
        /\ If(3) <=> Erred(b, a)
        /\ If(4) <=> b.stopReason # a.stopReason /\ a.stopReason \in RequestedReason
        /\ If(5) <=> Became(b.runtime, a.runtime, "reconnecting")
        /\ If(6) <=> /\ b.minecraft.connection = "disconnected"
                     /\ a.minecraft.connection = "connecting"
        /\ If(7) <=> /\ b.minecraft.connection = "connecting"
                     /\ a.minecraft.connection = "connected"
        /\ If(8) <=> ~b.minecraft.spawned /\ a.minecraft.spawned
        /\ If(9) <=> Lost(b, a)
        /\ If(10) <=> Stopped(b, a)
        /\ If(11)
    BY DEF Rules
  <1>3. /\ Type(1) = "other_player_safety_stop"
        /\ Type(2) = "reconnect_exhausted"
        /\ Type(3) = "runtime_failed"
        /\ Type(4) = "stop_requested"
        /\ Type(5) = "reconnect_started"
        /\ Type(6) = "minecraft_connecting"
        /\ Type(7) = "minecraft_connected"
        /\ Type(8) = "minecraft_spawned"
        /\ Type(9) = "minecraft_disconnected"
        /\ Type(10) = "runtime_stopped"
        /\ Type(11) = NoValue
    BY DEF Rules
  <1>4. News(b, a) = IF Template(b, a) = NoValue THEN <<>> ELSE <<Template(b, a)>>
    BY DEF News
  <1> HIDE DEF If, Type
  <1>5. ASSUME NEW i, i \in 1..10, If(i), \A j \in 1..(i - 1) : ~If(j)
        PROVE  News(b, a) = <<Type(i)>>
    <2>1. i \in {1, 2, 3, 4, 5, 6, 7, 8, 9, 10}
      BY <1>5
    <2>2. Type(i) \in NotificationType
      BY <1>3, <2>1 DEF NotificationType
    <2> QED
      BY <1>1, <1>4, <1>5, <2>2, AnnouncementsAssumption DEF AnnouncementsAssumption
  <1>6. (\A j \in 1..10 : ~If(j)) => News(b, a) = <<>>
    BY <1>1, <1>2, <1>3, <1>4
  <1>7. CASE \E i \in 1..5 : If(i)
    <2>1. News(b, a) =
            IF If(1) THEN <<Type(1)>> ELSE IF If(2) THEN <<Type(2)>>
            ELSE IF If(3) THEN <<Type(3)>> ELSE IF If(4) THEN <<Type(4)>>
            ELSE <<Type(5)>>
      BY <1>5, <1>7
    <2>2. If(1) \/ If(2) \/ If(3) \/ If(4) \/ If(5)
      BY <1>7
    <2> QED
      BY <1>2, <1>3, <2>1, <2>2
  <1>8. CASE \A i \in 1..5 : ~If(i)
    <2>1. News(b, a) =
            IF If(6) THEN <<Type(6)>> ELSE IF If(7) THEN <<Type(7)>>
            ELSE IF If(8) THEN <<Type(8)>> ELSE IF If(9) THEN <<Type(9)>>
            ELSE IF If(10) THEN <<Type(10)>> ELSE <<>>
      BY <1>5, <1>6, <1>8
    <2>2. ~If(1) /\ ~If(2) /\ ~If(3) /\ ~If(4) /\ ~If(5)
      BY <1>8
    <2> QED
      BY <1>2, <1>3, <2>1, <2>2
  <1> QED
    BY <1>7, <1>8

\* Nothing is said of a dispatch that changes nothing, or only the runtime's way.
LEMMA RuntimeNews ==
  ASSUME NEW b, NEW a, a.minecraft = b.minecraft, a.stopReason = b.stopReason,
         a.lastError = b.lastError, a.runtime # "stopped",
         b.runtime = "reconnecting" \/ a.runtime # "reconnecting"
  PROVE  News(b, a) = <<>>
  <1>1. ~Erred(b, a) /\ ~Became(b.runtime, a.runtime, "reconnecting")
    BY DEF Erred, Became
  <1>2. ~Lost(b, a) /\ ~Stopped(b, a)
    BY DEF Lost, Stopped, Became
  <1>3. ~(~b.minecraft.other /\ a.minecraft.other)
    OBVIOUS
  <1>4. ~(~b.minecraft.spawned /\ a.minecraft.spawned)
    OBVIOUS
  <1> QED
    BY <1>1, <1>2, <1>3, <1>4, NewsChain

LEMMA ReconnectNews ==
  ASSUME NEW b, NEW a, a.minecraft = b.minecraft, a.stopReason = b.stopReason,
         a.lastError = b.lastError, b.runtime # "reconnecting",
         a.runtime = "reconnecting"
  PROVE  News(b, a) = <<"reconnect_started">>
  <1>1. ~Erred(b, a) /\ Became(b.runtime, a.runtime, "reconnecting")
    BY DEF Erred, Became
  <1>2. ~(~b.minecraft.other /\ a.minecraft.other)
    OBVIOUS
  <1> QED
    BY <1>1, <1>2, NewsChain

LEMMA StoppedNews ==
  ASSUME NEW b, NEW a, a.minecraft = b.minecraft, a.stopReason = b.stopReason,
         a.lastError = b.lastError, b.runtime # "stopped", a.runtime = "stopped"
  PROVE  News(b, a) = IF a.stopReason = "other_player_detected" THEN <<>>
                      ELSE <<"runtime_stopped">>
  <1>1. ~Erred(b, a) /\ ~Became(b.runtime, a.runtime, "reconnecting")
    BY DEF Erred, Became
  <1>2. ~Lost(b, a) /\ (Stopped(b, a) <=> a.stopReason # "other_player_detected")
    BY DEF Lost, Stopped, Became
  <1>3. ~(~b.minecraft.other /\ a.minecraft.other)
    OBVIOUS
  <1>4. ~(~b.minecraft.spawned /\ a.minecraft.spawned)
    OBVIOUS
  <1> QED
    BY <1>1, <1>2, <1>3, <1>4, NewsChain

\* A change of the connection that is no spawn.
LEMMA ConnectionNews ==
  ASSUME NEW b, NEW a, a.runtime = b.runtime, a.stopReason = b.stopReason,
         a.lastError = b.lastError, a.minecraft.other = b.minecraft.other,
         ~a.minecraft.spawned
  PROVE  LET from == b.minecraft.connection
             to   == a.minecraft.connection
         IN
         News(b, a) =
           IF from = "disconnected" /\ to = "connecting" THEN <<"minecraft_connecting">>
           ELSE IF from = "connecting" /\ to = "connected" THEN <<"minecraft_connected">>
           ELSE IF /\ from # "disconnected" /\ to = "disconnected"
                   /\ a.runtime \in {"connecting", "ready"}
             THEN <<"minecraft_disconnected">>
           ELSE <<>>
  <1>1. ~Erred(b, a) /\ ~Became(b.runtime, a.runtime, "reconnecting")
    BY DEF Erred, Became
  <1>2. /\ ~Stopped(b, a)
        /\ Lost(b, a) <=> /\ b.minecraft.connection # "disconnected"
                          /\ a.minecraft.connection = "disconnected"
                          /\ a.runtime \in {"connecting", "ready"}
    BY DEF Lost, Stopped, Became
  <1>3. ~(~b.minecraft.other /\ a.minecraft.other)
    OBVIOUS
  <1> QED
    BY <1>1, <1>2, <1>3, NewsChain

LEMMA SpawnNews ==
  ASSUME NEW b, NEW a, a.runtime = b.runtime, a.stopReason = b.stopReason,
         a.lastError = b.lastError, a.minecraft.other = b.minecraft.other,
         ~b.minecraft.spawned, a.minecraft.spawned,
         a.minecraft.connection = "spawned"
  PROVE  News(b, a) = <<"minecraft_spawned">>
  <1>1. ~Erred(b, a) /\ ~Became(b.runtime, a.runtime, "reconnecting")
    BY DEF Erred, Became
  <1>2. ~(~b.minecraft.other /\ a.minecraft.other)
    OBVIOUS
  <1> QED
    BY <1>1, <1>2, NewsChain

LEMMA ReasonNews ==
  ASSUME NEW b, NEW a, a.minecraft = b.minecraft, a.runtime = b.runtime,
         a.lastError = b.lastError
  PROVE  News(b, a) =
           IF b.stopReason # a.stopReason /\ a.stopReason \in RequestedReason
           THEN <<"stop_requested">> ELSE <<>>
  <1>1. ~Erred(b, a) /\ ~Became(b.runtime, a.runtime, "reconnecting")
    BY DEF Erred, Became
  <1>2. ~Lost(b, a) /\ ~Stopped(b, a)
    BY DEF Lost, Stopped, Became
  <1>3. ~(~b.minecraft.other /\ a.minecraft.other)
    OBVIOUS
  <1>4. ~(~b.minecraft.spawned /\ a.minecraft.spawned)
    OBVIOUS
  <1> QED
    BY <1>1, <1>2, <1>3, <1>4, NewsChain

LEMMA ErrorNews ==
  ASSUME NEW b, NEW a, a.minecraft = b.minecraft,
         b.lastError = NoValue, a.lastError \in SanitizedErrorCode
  PROVE  News(b, a) = IF a.lastError = "reconnect_exhausted"
                      THEN <<"reconnect_exhausted">> ELSE <<"runtime_failed">>
  <1>1. Erred(b, a)
    BY NoValueAssumption DEF NoValueAssumption, Erred
  <1>2. ~(~b.minecraft.other /\ a.minecraft.other)
    OBVIOUS
  <1> QED
    BY <1>1, <1>2, NewsChain

LEMMA DetectionNews ==
  ASSUME NEW b, NEW a, ~b.minecraft.other, a.minecraft.other
  PROVE  News(b, a) = <<"other_player_safety_stop">>
  BY NewsChain

LEMMA TwoMessages ==
  ASSUME NEW x, NEW y PROVE <<x>> \o <<y>> = <<x, y>>
  <1> DEFINE s == <<x>> \o <<y>>
             t == <<x, y>>
  <1>1. s \in Seq({x, y}) /\ t \in Seq({x, y})
    OBVIOUS
  <1>2. Len(s) = 2 /\ Len(t) = 2
    OBVIOUS
  <1>3. s[1] = x /\ s[2] = y /\ t[1] = x /\ t[2] = y
    OBVIOUS
  <1> HIDE DEF s, t
  <1>4. \A i \in 1..Len(s) : s[i] = t[i]
    BY <1>2, <1>3
  <1>5. s = t
    BY <1>1, <1>2, <1>4, SeqEqual
  <1> QED
    BY <1>5 DEF s, t

LEMMA ThreeMessages ==
  ASSUME NEW x, NEW y, NEW z PROVE <<x>> \o <<y, z>> = <<x, y, z>>
  <1> DEFINE s == <<x>> \o <<y, z>>
             t == <<x, y, z>>
  <1>1. s \in Seq({x, y, z}) /\ t \in Seq({x, y, z})
    OBVIOUS
  <1>2. Len(s) = 3 /\ Len(t) = 3
    OBVIOUS
  <1>3. /\ s[1] = x /\ s[2] = y /\ s[3] = z
        /\ t[1] = x /\ t[2] = y /\ t[3] = z
    OBVIOUS
  <1> HIDE DEF s, t
  <1>4. \A i \in 1..Len(s) : s[i] = t[i]
    BY <1>2, <1>3
  <1>5. s = t
    BY <1>1, <1>2, <1>4, SeqEqual
  <1> QED
    BY <1>5 DEF s, t

LEMMA DisconnectedNews ==
  ASSUME NEW s, Consistent(s)
  PROVE  News(s, Disconnected(s)) =
           IF /\ s.minecraft.connection # "disconnected"
              /\ s.runtime \in {"connecting", "ready"}
           THEN <<"minecraft_disconnected">> ELSE <<>>
  <1> DEFINE t == Disconnected(s)
  <1>1. /\ Consistent(t) /\ t.runtime = s.runtime /\ t.stopReason = s.stopReason
        /\ t.lastError = s.lastError
        /\ t.minecraft.other = s.minecraft.other
        /\ t.minecraft.connection = "disconnected"
    BY DisconnectedFacts
  <1> HIDE DEF t
  <1>2. ~t.minecraft.spawned
    BY <1>1 DEF Consistent, MinecraftOK
  <1>3. News(s, t) = IF /\ s.minecraft.connection # "disconnected"
                        /\ s.runtime \in {"connecting", "ready"}
                     THEN <<"minecraft_disconnected">> ELSE <<>>
    BY <1>1, <1>2, ConnectionNews
  <1> QED
    BY <1>3 DEF t

\* The finally block and #finish add nothing but the normal end.
LEMMA EndedNews ==
  ASSUME NEW s, Consistent(s), NEW reason, s.stopReason = reason,
         s.runtime = IF Normal(reason) THEN "stopping" ELSE "failed"
  PROVE  EndedBy(s, reason) =
           IF Normal(reason) /\ reason # "other_player_detected"
           THEN <<"runtime_stopped">> ELSE <<>>
  <1> DEFINE d == Disconnected(s)
             t == Finished(s, reason)
  <1>1. News(s, d) = <<>>
    BY DisconnectedNews
  <1>2. /\ Consistent(d) /\ d.runtime = s.runtime /\ d.stopReason = reason
    BY DisconnectedFacts
  <1>3. t = IF Normal(reason) THEN RuntimeTo(d, "stopped")
            ELSE IF d.runtime # "failed" THEN RuntimeTo(d, "failed") ELSE d
    BY DEF Finished
  <1>4. EndedBy(s, reason) = News(s, d) \o News(d, t)
    BY DEF EndedBy
  <1> HIDE DEF d, t
  <1>5. News(d, t) = IF Normal(reason) /\ reason # "other_player_detected"
                     THEN <<"runtime_stopped">> ELSE <<>>
    <2>1. CASE Normal(reason)
      <3>1. AcceptsRuntime(d, "stopped") /\ "stopped" \in RuntimeState
        BY <1>2, <2>1 DEF AcceptsRuntime, RuntimeNext, RuntimeState
      <3>2. /\ t.runtime = "stopped" /\ t.minecraft = d.minecraft
            /\ t.stopReason = d.stopReason /\ t.lastError = d.lastError
        BY <1>2, <1>3, <2>1, <3>1, RuntimeToFacts
      <3>3. d.runtime # "stopped"
        BY <1>2, <2>1
      <3> QED
        BY <1>2, <2>1, <3>2, <3>3, StoppedNews
    <2>2. CASE ~Normal(reason)
      <3>1. t = d /\ d.runtime = "failed"
        BY <1>2, <1>3, <2>2
      <3> QED
        BY <2>2, <3>1, RuntimeNews
    <2> QED
      BY <2>1, <2>2
  <1> QED
    BY <1>1, <1>4, <1>5

\* A failure is announced as its error, and as nothing else.
LEMMA FailsNews ==
  ASSUME NEW s, Consistent(s), s.runtime \in {"connecting", "ready"},
         s.lastError = NoValue,
         NEW r, r \in {"connection_error", "reconnect_exhausted"}
  PROVE  FailsBy(s, r) = IF r = "connection_error" THEN <<"runtime_failed">>
                         ELSE <<"reconnect_exhausted">>
  <1> DEFINE a == Tried(s, [type |-> "runtime.stop_reason.record", reason |-> r])
             b == Tried(a, [type |-> "runtime.error.record", code |-> r])
             t == RuntimeTo(b, "failed")
             message == IF r = "connection_error" THEN <<"runtime_failed">>
                        ELSE <<"reconnect_exhausted">>
  <1>1. r \in RuntimeStopReason /\ r \in SanitizedErrorCode
    BY DEF RuntimeStopReason, SanitizedErrorCode
  <1>2. ~Normal(r) /\ r \notin RequestedReason
    BY DEF Normal, RequestedReason
  <1>3. /\ Consistent(a) /\ a.stopReason = r /\ a.runtime = s.runtime
        /\ a.minecraft = s.minecraft /\ a.lastError = NoValue
    BY <1>1, ReasonFacts
  <1>4. /\ FailsBy(s, r) = News(s, a) \o News(a, b) \o News(b, t) \o EndedBy(t, r)
    BY DEF FailsBy, FailedBy, Failed
  <1> HIDE DEF a
  <1>5. /\ Consistent(b) /\ b.lastError = r /\ b.stopReason = r
        /\ b.runtime = s.runtime /\ b.minecraft = a.minecraft
    BY <1>1, <1>3, ErrorFacts
  <1> HIDE DEF b
  <1>6. AcceptsRuntime(b, "failed") /\ "failed" \in RuntimeState
    BY <1>5 DEF AcceptsRuntime, RuntimeNext, RuntimeState
  <1>7. /\ Consistent(t) /\ t.runtime = "failed" /\ t.minecraft = b.minecraft
        /\ t.stopReason = r /\ t.lastError = r
    BY <1>5, <1>6, RuntimeToFacts
  <1> HIDE DEF t, message
  <1>8. News(s, a) = <<>>
    BY <1>2, <1>3, ReasonNews
  <1>9. News(a, b) = message
    BY <1>1, <1>3, <1>5, ErrorNews DEF message
  <1>10. News(b, t) = <<>>
    BY <1>5, <1>7, RuntimeNews
  <1>11. EndedBy(t, r) = <<>>
    BY <1>2, <1>7, EndedNews
  <1> QED
    BY <1>4, <1>8, <1>9, <1>10, <1>11 DEF message

\* A lost connection, and what the loop makes of it.
LEMMA ContinuedNews ==
  ASSUME NEW s, Consistent(s), s.runtime \in {"connecting", "ready"},
         s.minecraft.connection # "disconnected", s.lastError = NoValue,
         ~s.minecraft.other,
         NEW outcome
  PROVE  ContinuedBy(s, outcome) =
           CASE outcome = "fatal" -> <<"minecraft_disconnected", "runtime_failed">>
             [] outcome = "retryable" /\ Exhausted ->
                  <<"minecraft_disconnected", "reconnect_exhausted">>
             [] OTHER -> <<"minecraft_disconnected", "reconnect_started">>
  <1> DEFINE gone == Disconnected(s)
             rest == CASE outcome = "fatal" -> FailsBy(gone, "connection_error")
                       [] outcome = "retryable" /\ Exhausted ->
                            FailsBy(gone, "reconnect_exhausted")
                       [] OTHER -> News(gone, RuntimeTo(gone, "reconnecting"))
  <1>1. /\ Consistent(gone) /\ gone.runtime = s.runtime /\ gone.lastError = NoValue
        /\ ~gone.minecraft.other
    BY DisconnectedFacts
  <1>2. ContinuedBy(s, outcome) = News(s, gone) \o rest
    BY DEF ContinuedBy
  <1>3. News(s, gone) = <<"minecraft_disconnected">>
    BY DisconnectedNews
  <1> HIDE DEF gone
  <1>4. /\ FailsBy(gone, "connection_error") = <<"runtime_failed">>
        /\ FailsBy(gone, "reconnect_exhausted") = <<"reconnect_exhausted">>
    BY <1>1, FailsNews
  <1>5. News(gone, RuntimeTo(gone, "reconnecting")) = <<"reconnect_started">>
    <2> DEFINE t == RuntimeTo(gone, "reconnecting")
    <2>1. AcceptsRuntime(gone, "reconnecting") /\ "reconnecting" \in RuntimeState
      BY <1>1 DEF AcceptsRuntime, RuntimeNext, RuntimeState
    <2>2. /\ t.runtime = "reconnecting" /\ t.minecraft = gone.minecraft
          /\ t.stopReason = gone.stopReason /\ t.lastError = gone.lastError
      BY <1>1, <2>1, RuntimeToFacts
    <2>3. gone.runtime # "reconnecting"
      BY <1>1
    <2> HIDE DEF t
    <2>4. News(gone, t) = <<"reconnect_started">>
      BY <2>2, <2>3, ReconnectNews
    <2> QED
      BY <2>4 DEF t
  <1>6. rest = CASE outcome = "fatal" -> <<"runtime_failed">>
                 [] outcome = "retryable" /\ Exhausted -> <<"reconnect_exhausted">>
                 [] OTHER -> <<"reconnect_started">>
    BY <1>4, <1>5
  <1> HIDE DEF rest
  <1> QED
    BY <1>2, <1>3, <1>6, TwoMessages

LEMMA DetectedNews ==
  ASSUME NEW s, Consistent(s), ~s.minecraft.other,
         s.runtime \in {"connecting", "ready"}
  PROVE  DetectedBy(s) = <<"other_player_safety_stop">>
  <1> DEFINE t == Detected(s)
  <1>1. /\ Consistent(t) /\ t.runtime = "stopping" /\ t.minecraft.other
        /\ t.stopReason = "other_player_detected"
    BY DetectedFacts
  <1>2. DetectedBy(s) = News(s, t) \o EndedBy(t, "other_player_detected")
    BY DEF DetectedBy
  <1> HIDE DEF t
  <1>3. News(s, t) = <<"other_player_safety_stop">>
    BY <1>1, DetectionNews
  <1>4. EndedBy(t, "other_player_detected") = <<>>
    BY <1>1, EndedNews DEF Normal
  <1>5. <<"other_player_safety_stop">> \o <<>> = <<"other_player_safety_stop">>
    OBVIOUS
  <1> QED
    BY <1>2, <1>3, <1>4, <1>5

----------------------------------------------------------------------------
(* What a step announces: its last message is the situation after it, and  *)
(* an end is announced by the step that ends the run, as its last message. *)

Tells(messages) ==
  /\ messages \in Seq(NotificationType)
  /\ IF messages = <<>> THEN Situation' = Situation
     ELSE messages[Len(messages)] = Situation'
  /\ \A e \in Ending :
       Count(messages, e) = IF pc' = "done" /\ e = EndMessage' THEN 1 ELSE 0

LEMMA CountFacts ==
  ASSUME NEW messages, NEW m
  PROVE  /\ (\A i \in DOMAIN messages : messages[i] # m) => Count(messages, m) = 0
         /\ \A k \in DOMAIN messages :
              (\A i \in DOMAIN messages : messages[i] = m <=> i = k)
                => Count(messages, m) = 1
  <1> DEFINE S == {i \in DOMAIN messages : messages[i] = m}
  <1>1. Count(messages, m) = Cardinality(S)
    BY DEF Count
  <1>2. ASSUME \A i \in DOMAIN messages : messages[i] # m
        PROVE  Count(messages, m) = 0
    <2>1. S = {}
      BY <1>2
    <2> QED
      BY <1>1, <2>1, FS_EmptySet
  <1>3. ASSUME NEW k \in DOMAIN messages,
               \A i \in DOMAIN messages : messages[i] = m <=> i = k
        PROVE  Count(messages, m) = 1
    <2>1. S = {k}
      BY <1>3
    <2> QED
      BY <1>1, <2>1, FS_Singleton
  <1> QED
    BY <1>2, <1>3

\* The channel should say last that the run has ended exactly when it has.
LEMMA NextSituation ==
  /\ Situation' \in Ending <=> pc' = "done"
  /\ pc' = "done" => Situation' = EndMessage'
  /\ EndMessage' \in Ending
  <1>1. NoValue \notin Ending
    BY AnnouncementsAssumption DEF AnnouncementsAssumption, Ending, NotificationType
  <1>2. EndMessage' \in Ending
    BY DEF EndMessage, Ending
  <1>3. pc' = "done" => Situation' = EndMessage'
    BY DEF Situation
  <1>4. pc' # "done" =>
          Situation' \in {"stop_requested", "minecraft_spawned", "minecraft_connected",
                          "minecraft_connecting", "reconnect_started", NoValue}
    BY DEF Situation
  <1> QED
    BY <1>1, <1>2, <1>3, <1>4 DEF Ending

LEMMA TellsLast ==
  ASSUME NEW messages \in Seq(NotificationType), messages # <<>>,
         messages[Len(messages)] = Situation',
         \A i \in 1..(Len(messages) - 1) : messages[i] \notin Ending
  PROVE  Tells(messages)
  <1> DEFINE n == Len(messages)
  <1>1. n \in Nat \ {0} /\ DOMAIN messages = 1..n /\ n \in DOMAIN messages
    OBVIOUS
  <1>2. ASSUME NEW e \in Ending
        PROVE  Count(messages, e) = IF pc' = "done" /\ e = EndMessage' THEN 1 ELSE 0
    <2>1. CASE pc' = "done" /\ e = EndMessage'
      <3>1. \A i \in DOMAIN messages : messages[i] = e <=> i = n
        BY <1>1, <2>1, NextSituation
      <3> QED
        BY <1>1, <2>1, <3>1, CountFacts
    <2>2. CASE ~(pc' = "done" /\ e = EndMessage')
      <3>1. \A i \in DOMAIN messages : messages[i] # e
        BY <1>1, <2>2, NextSituation
      <3> QED
        BY <2>2, <3>1, CountFacts
    <2> QED
      BY <2>1, <2>2
  <1> QED
    BY <1>2 DEF Tells

LEMMA TellsOne ==
  ASSUME NEW m \in NotificationType, m = Situation'
  PROVE  Tells(<<m>>)
  <1> DEFINE messages == <<m>>
  <1>1. /\ messages \in Seq(NotificationType) /\ messages # <<>>
        /\ Len(messages) = 1 /\ messages[1] = Situation'
    OBVIOUS
  <1> HIDE DEF messages
  <1>2. Tells(messages)
    BY <1>1, TellsLast
  <1> QED
    BY <1>2 DEF messages

LEMMA TellsTwo ==
  ASSUME NEW k \in NotificationType \ Ending, NEW m \in NotificationType,
         m = Situation'
  PROVE  Tells(<<k, m>>)
  <1> DEFINE messages == <<k, m>>
  <1>1. /\ messages \in Seq(NotificationType) /\ messages # <<>>
        /\ Len(messages) = 2 /\ messages[2] = Situation' /\ messages[1] \notin Ending
    OBVIOUS
  <1> HIDE DEF messages
  <1>2. Tells(messages)
    BY <1>1, TellsLast
  <1> QED
    BY <1>2 DEF messages

LEMMA TellsThree ==
  ASSUME NEW j \in NotificationType \ Ending, NEW k \in NotificationType \ Ending,
         NEW m \in NotificationType, m = Situation'
  PROVE  Tells(<<j, k, m>>)
  <1> DEFINE messages == <<j, k, m>>
  <1>1. /\ messages \in Seq(NotificationType) /\ messages # <<>>
        /\ Len(messages) = 3 /\ messages[3] = Situation'
        /\ messages[1] \notin Ending /\ messages[2] \notin Ending
    OBVIOUS
  <1> HIDE DEF messages
  <1>2. Tells(messages)
    BY <1>1, TellsLast
  <1> QED
    BY <1>2 DEF messages

LEMMA TellsNothing ==
  ASSUME Situation' = Situation, pc' # "done"
  PROVE  Tells(<<>>)
  <1>1. \A e \in Ending : Count(<<>>, e) = 0
    BY CountFacts
  <1> QED
    BY <1>1 DEF Tells

----------------------------------------------------------------------------
(* The steps of the supervisor                                             *)

LEMMA ConnectedNews ==
  ASSUME SupervisorInv, pc = "loop", stopReason = NoValue
  PROVE  ConnectedBy = <<"minecraft_connecting">>
  <1> DEFINE s == RuntimeTo(snapshot, "connecting")
             t == ConnectionTo(s, "connecting")
  <1>1. BetweenState /\ Consistent(snapshot)
    BY DEF SupervisorInv, PlaceState
  <1>2. AcceptsRuntime(snapshot, "connecting") /\ "connecting" \in RuntimeState
    BY <1>1 DEF BetweenState, AcceptsRuntime, RuntimeNext, RuntimeState
  <1>3. /\ Consistent(s) /\ s.runtime = "connecting"
        /\ s.minecraft = snapshot.minecraft
        /\ s.stopReason = snapshot.stopReason /\ s.lastError = snapshot.lastError
    BY <1>1, <1>2, RuntimeToFacts
  <1>4. ConnectedBy = News(snapshot, s) \o News(s, t)
    BY DEF ConnectedBy, Connecting
  <1> HIDE DEF s
  <1>5. /\ "connecting" \in ConnectionState \ {"spawned"}
        /\ s.minecraft.connection = "disconnected"
        /\ "connecting" \in ConnectionNext(s.minecraft.connection)
    BY <1>1, <1>3 DEF BetweenState, ConnectionState, ConnectionNext
  <1>6. /\ Consistent(t) /\ t.runtime = s.runtime /\ t.stopReason = s.stopReason
        /\ t.lastError = s.lastError /\ t.minecraft.other = s.minecraft.other
        /\ t.minecraft.connection = "connecting"
    BY <1>3, <1>5, ConnectionToFacts
  <1> HIDE DEF t
  <1>7. ~t.minecraft.spawned
    BY <1>6 DEF Consistent, MinecraftOK
  <1>8. News(s, t) = <<"minecraft_connecting">>
    BY <1>5, <1>6, <1>7, ConnectionNews
  <1>9. News(snapshot, s) = <<>>
    BY <1>3, RuntimeNews
  <1>10. <<>> \o <<"minecraft_connecting">> = <<"minecraft_connecting">>
    OBVIOUS
  <1> QED
    BY <1>4, <1>8, <1>9, <1>10

LEMMA ConnectTells ==
  ASSUME SupervisorInv, Connect
  PROVE  Tells(ConnectedBy)
  <1>1. ConnectedBy = <<"minecraft_connecting">>
    BY ConnectedNews DEF Connect
  <1>2. Situation' = "minecraft_connecting"
    BY DEF Connect, Situation
  <1> QED
    BY <1>1, <1>2, TellsOne DEF NotificationType

\* The loop after an attempt, or after a connection that could not be created.
LEMMA ContinueSituation ==
  ASSUME TypeOK, stopReason = NoValue, NEW s,
         NEW outcome, outcome \in {"fatal", "retryable"}, Continue(s, outcome)
  PROVE  /\ outcome = "fatal" => Situation' = "runtime_failed"
         /\ outcome = "retryable" /\ Exhausted => Situation' = "reconnect_exhausted"
         /\ outcome = "retryable" /\ ~Exhausted => Situation' = "reconnect_started"
         /\ outcome = "fatal" <=> stopReason' = "connection_error"
  <1>1. CASE outcome = "fatal"
    <2>1. pc' = "done" /\ stopReason' = "connection_error"
      BY <1>1 DEF Continue, End
    <2> QED
      BY <1>1, <2>1 DEF Situation, EndMessage, RequestedReason
  <1>2. CASE outcome = "retryable" /\ Exhausted
    <2>1. pc' = "done" /\ stopReason' = "reconnect_exhausted"
      BY <1>2 DEF Continue, End
    <2> QED
      BY <1>2, <2>1 DEF Situation, EndMessage, RequestedReason
  <1>3. CASE outcome = "retryable" /\ ~Exhausted
    <2>1. pc' = "waiting" /\ stopReason' = NoValue /\ retry' > 0
      BY <1>3 DEF Continue, TypeOK
    <2>2. NoValue # "connection_error"
      BY NoValueAssumption DEF NoValueAssumption, RuntimeStopReason
    <2> QED
      BY <1>3, <2>1, <2>2 DEF Situation
  <1> QED
    BY <1>1, <1>2, <1>3

LEMMA CreationFailsTells ==
  ASSUME SupervisorInv, CreationFails
  PROVE  Tells(ConnectedBy \o ContinuedBy(Connecting, "fatal"))
  <1>1. /\ pc = "loop" /\ stopReason = NoValue /\ Continue(Connecting, "fatal")
        /\ TypeOK
    BY DEF CreationFails, SupervisorInv
  <1>2. ConnectedBy = <<"minecraft_connecting">>
    BY <1>1, ConnectedNews
  <1>3. /\ Consistent(Connecting) /\ Connecting.runtime = "connecting"
        /\ Connecting.lastError = NoValue /\ ~Connecting.minecraft.other
        /\ Connecting.minecraft.connection = "connecting"
    BY <1>1, ConnectingFacts
  <1>4. ContinuedBy(Connecting, "fatal") = <<"minecraft_disconnected", "runtime_failed">>
    BY <1>3, ContinuedNews
  <1>5. Situation' = "runtime_failed"
    BY <1>1, ContinueSituation
  <1>6. ConnectedBy \o ContinuedBy(Connecting, "fatal") =
          <<"minecraft_connecting", "minecraft_disconnected", "runtime_failed">>
    BY <1>2, <1>4, ThreeMessages
  <1> QED
    BY <1>5, <1>6, TellsThree DEF NotificationType, Ending

LEMMA LostTells ==
  ASSUME SupervisorInv, pc = "attempt", NEW outcome \in {"fatal", "retryable"},
         Continue(snapshot, outcome)
  PROVE  Tells(ContinuedBy(snapshot, outcome))
  <1>1. AttemptState /\ Consistent(snapshot) /\ TypeOK
    BY DEF SupervisorInv, PlaceState
  <1>2. /\ snapshot.runtime \in {"connecting", "ready"} /\ stopReason = NoValue
        /\ snapshot.minecraft.connection # "disconnected"
        /\ snapshot.lastError = NoValue /\ ~snapshot.minecraft.other
    BY <1>1 DEF AttemptState
  <1>3. ContinuedBy(snapshot, outcome) =
          CASE outcome = "fatal" -> <<"minecraft_disconnected", "runtime_failed">>
            [] outcome = "retryable" /\ Exhausted ->
                 <<"minecraft_disconnected", "reconnect_exhausted">>
            [] OTHER -> <<"minecraft_disconnected", "reconnect_started">>
    BY <1>1, <1>2, ContinuedNews
  <1>4. ContinuedBy(snapshot, outcome) = <<"minecraft_disconnected", Situation'>>
    BY <1>1, <1>2, <1>3, ContinueSituation
  <1>5. Situation' \in NotificationType
    BY <1>1, <1>2, ContinueSituation DEF NotificationType
  <1> QED
    BY <1>4, <1>5, TellsTwo DEF NotificationType, Ending

LEMMA LeaveLoopTells ==
  ASSUME SupervisorInv, LeaveLoop
  PROVE  Tells(EndedBy(snapshot, stopReason))
  <1>1. BetweenState /\ Consistent(snapshot) /\ stopReason \in RequestedReason
    BY DEF SupervisorInv, PlaceState, LeaveLoop, BetweenState, Optional
  <1>2. Normal(stopReason) /\ stopReason # "other_player_detected"
    BY <1>1 DEF RequestedReason, Normal
  <1>3. snapshot.runtime = "stopping" /\ snapshot.stopReason = stopReason
    BY <1>1 DEF BetweenState, LeaveLoop
  <1>4. EndedBy(snapshot, stopReason) = <<"runtime_stopped">>
    BY <1>1, <1>2, <1>3, EndedNews
  <1>5. Situation' = "runtime_stopped"
    <2>1. pc' = "done" /\ stopReason' = stopReason
      BY DEF LeaveLoop, End
    <2> QED
      BY <1>1, <2>1 DEF Situation, EndMessage, RequestedReason
  <1> QED
    BY <1>4, <1>5, TellsOne DEF NotificationType

LEMMA JoinTells ==
  ASSUME SupervisorInv, Join
  PROVE  Tells(News(snapshot, snapshot'))
  <1>1. AttemptState /\ Consistent(snapshot) /\ ~spawned
    BY DEF Join, SupervisorInv, PlaceState, AttemptState
  <1>2. "connected" \in ConnectionState \ {"spawned"}
    BY DEF ConnectionState
  <1>3. /\ snapshot.minecraft.connection = "connecting"
        /\ "connected" \in ConnectionNext(snapshot.minecraft.connection)
    BY <1>1 DEF AttemptState, ConnectionNext, Join
  <1>4. /\ Consistent(snapshot') /\ snapshot'.runtime = snapshot.runtime
        /\ snapshot'.stopReason = snapshot.stopReason
        /\ snapshot'.lastError = snapshot.lastError
        /\ snapshot'.minecraft.other = snapshot.minecraft.other
        /\ snapshot'.minecraft.connection = "connected"
    BY <1>1, <1>2, <1>3, ConnectionToFacts DEF Join
  <1>5. ~snapshot'.minecraft.spawned
    BY <1>4 DEF Consistent, MinecraftOK
  <1>6. News(snapshot, snapshot') = <<"minecraft_connected">>
    BY <1>3, <1>4, <1>5, ConnectionNews
  <1>7. Situation' = "minecraft_connected"
    BY <1>1 DEF Join, AttemptState, Situation
  <1> QED
    BY <1>6, <1>7, TellsOne DEF NotificationType

\* A detected player ends the run with its own announcement.
LEMMA DetectionSituation ==
  ASSUME NEW s, End(s, "other_player_detected")
  PROVE  pc' = "done" /\ Situation' = "other_player_safety_stop"
  <1>1. pc' = "done" /\ stopReason' = "other_player_detected"
    BY DEF End
  <1> QED
    BY <1>1 DEF Situation, EndMessage, RequestedReason

LEMMA SpawnedTells ==
  ASSUME SupervisorInv, Spawned
  PROVE  Tells(SpawnedBy)
  <1> DEFINE u == Tried(snapshot, [type |-> "minecraft.spawn.update",
                                   completed |-> TRUE])
             s == RuntimeTo(u, "ready")
  <1>1. /\ AttemptState /\ Consistent(snapshot)
        /\ pc = "attempt" /\ joined /\ ~spawned
    BY DEF Spawned, SupervisorInv, PlaceState
  <1>2. snapshot.minecraft.connection = "connected" /\ ~snapshot.minecraft.spawned
    BY <1>1 DEF AttemptState, Consistent, MinecraftOK
  <1>3. /\ Consistent(u) /\ SameRest(u, snapshot)
        /\ u.minecraft.connection = "spawned"
    BY <1>1, <1>2, SpawnFacts
  <1>4. SpawnedBy = News(snapshot, u) \o News(u, s) \o
                    (IF pc' = "done" THEN DetectedBy(s) ELSE <<>>)
    BY DEF SpawnedBy
  <1>5. IF WaitingStrangers = {}
        THEN spawned' = TRUE /\ UNCHANGED <<pc, stopReason>>
        ELSE End(Detected(s), "other_player_detected")
    BY DEF Spawned
  <1> HIDE DEF u
  <1>6. u.minecraft.spawned
    BY <1>3 DEF Consistent, MinecraftOK
  <1>7. News(snapshot, u) = <<"minecraft_spawned">>
    BY <1>2, <1>3, <1>6, SpawnNews DEF SameRest
  <1>8. AcceptsRuntime(u, "ready") /\ "ready" \in RuntimeState
    BY <1>1, <1>3 DEF AttemptState, SameRest, AcceptsRuntime, RuntimeNext,
       RuntimeState
  <1>9. /\ Consistent(s) /\ s.runtime = "ready" /\ s.minecraft = u.minecraft
        /\ s.stopReason = u.stopReason /\ s.lastError = u.lastError
        /\ ~s.minecraft.other
    BY <1>1, <1>3, <1>8, RuntimeToFacts DEF SameRest, AttemptState
  <1> HIDE DEF s
  <1>10. News(u, s) = <<>>
    BY <1>9, RuntimeNews
  <1>11. CASE WaitingStrangers = {}
    <2>1. SpawnedBy = <<"minecraft_spawned">>
      BY <1>1, <1>4, <1>5, <1>7, <1>10, <1>11
    <2>2. Situation' = "minecraft_spawned"
      BY <1>1, <1>5, <1>11 DEF Situation, AttemptState
    <2> QED
      BY <2>1, <2>2, TellsOne DEF NotificationType
  <1>12. CASE WaitingStrangers # {}
    <2>1. pc' = "done" /\ Situation' = "other_player_safety_stop"
      BY <1>5, <1>12, DetectionSituation
    <2>2. DetectedBy(s) = <<"other_player_safety_stop">>
      BY <1>9, DetectedNews
    <2>3. SpawnedBy = <<"minecraft_spawned", "other_player_safety_stop">>
      BY <1>4, <1>7, <1>10, <2>1, <2>2, TwoMessages
    <2> QED
      BY <2>1, <2>3, TellsTwo DEF NotificationType, Ending
  <1> QED
    BY <1>11, <1>12

LEMMA PlayerJoinedTells ==
  ASSUME SupervisorInv, NEW p \in Players, PlayerJoined(p)
  PROVE  Tells(IF pc' = "done" THEN DetectedBy(snapshot) ELSE <<>>)
  <1>1. pc = "attempt" /\ AttemptState /\ Consistent(snapshot)
    BY DEF PlayerJoined, SupervisorInv, PlaceState
  <1>2. CASE spawned /\ Stranger(p)
    <2>1. pc' = "done" /\ Situation' = "other_player_safety_stop"
      BY <1>2, DetectionSituation DEF PlayerJoined
    <2>2. snapshot.runtime \in {"connecting", "ready"} /\ ~snapshot.minecraft.other
      BY <1>1 DEF AttemptState
    <2>3. DetectedBy(snapshot) = <<"other_player_safety_stop">>
      BY <1>1, <2>2, DetectedNews
    <2> QED
      BY <2>1, <2>3, TellsOne DEF NotificationType
  <1>3. CASE ~(spawned /\ Stranger(p))
    <2>1. UNCHANGED <<pc, retry, stopReason, joined, spawned>>
      BY <1>3 DEF PlayerJoined
    <2>2. Situation' = Situation /\ pc' # "done"
      BY <1>1, <2>1 DEF Situation
    <2> QED
      BY <2>2, TellsNothing
  <1> QED
    BY <1>2, <1>3

LEMMA RequestStopTells ==
  ASSUME SupervisorInv, NEW reason \in RequestedReason, RequestStop(reason)
  PROVE  Tells(StoppedBy(reason))
  <1> DEFINE u == Tried(snapshot, [type |-> "runtime.stop_reason.record",
                                   reason |-> reason])
             s == RuntimeTo(u, "stopping")
  <1>1. /\ reason \in RuntimeStopReason /\ Normal(reason)
        /\ reason # NoValue /\ reason # "other_player_detected"
    BY NoValueAssumption DEF NoValueAssumption, RequestedReason,
       RuntimeStopReason, Normal
  <1>2. /\ stopReason = NoValue /\ pc \in {"loop", "waiting", "attempt"}
        /\ Consistent(snapshot)
    BY NoValueAssumption DEF NoValueAssumption, RequestStop, MayStop,
       SupervisorInv, TypeOK, PlaceState, DoneState
  <1>3. /\ snapshot.stopReason = NoValue
        /\ ~snapshot.minecraft.other
        /\ snapshot.runtime \in {"starting", "reconnecting", "connecting", "ready"}
    BY <1>2 DEF SupervisorInv, PlaceState, AttemptState, BetweenState
  <1>4. /\ Consistent(u) /\ u.stopReason = reason
        /\ u.runtime = snapshot.runtime /\ u.minecraft = snapshot.minecraft
        /\ u.lastError = snapshot.lastError
    BY <1>1, <1>2, ReasonFacts
  <1>5. StoppedBy(reason) = News(snapshot, u) \o News(u, s) \o
                            (IF pc' = "done" THEN EndedBy(s, reason) ELSE <<>>)
    BY DEF StoppedBy
  <1>6. /\ stopReason' = reason
        /\ IF pc = "attempt" THEN pc' = "done" ELSE pc' = pc
    BY DEF RequestStop, StopsAttempt, End
  <1> HIDE DEF u
  <1>7. News(snapshot, u) = <<"stop_requested">>
    BY <1>1, <1>3, <1>4, ReasonNews
  <1>8. AcceptsRuntime(u, "stopping") /\ "stopping" \in RuntimeState
    BY <1>3, <1>4 DEF AcceptsRuntime, RuntimeNext, RuntimeState
  <1>9. /\ Consistent(s) /\ s.runtime = "stopping"
        /\ s.minecraft = u.minecraft
        /\ s.stopReason = u.stopReason /\ s.lastError = u.lastError
    BY <1>4, <1>8, RuntimeToFacts
  <1> HIDE DEF s
  <1>10. News(u, s) = <<>>
    BY <1>9, RuntimeNews
  <1>11. CASE pc = "attempt"
    <2>1. EndedBy(s, reason) = <<"runtime_stopped">>
      BY <1>1, <1>4, <1>9, EndedNews
    <2>2. StoppedBy(reason) = <<"stop_requested", "runtime_stopped">>
      BY <1>5, <1>6, <1>7, <1>10, <1>11, <2>1, TwoMessages
    <2>3. Situation' = "runtime_stopped"
      BY <1>6, <1>11 DEF Situation, EndMessage, RequestedReason
    <2> QED
      BY <2>2, <2>3, TellsTwo DEF NotificationType, Ending
  <1>12. CASE pc # "attempt"
    <2>1. pc' # "done" /\ stopReason' # NoValue
      BY <1>1, <1>2, <1>6, <1>12
    <2>2. StoppedBy(reason) = <<"stop_requested">>
      BY <1>5, <1>7, <1>10, <2>1
    <2>3. Situation' = "stop_requested"
      BY <2>1 DEF Situation
    <2> QED
      BY <2>2, <2>3, TellsOne DEF NotificationType
  <1> QED
    BY <1>11, <1>12

----------------------------------------------------------------------------
(* The channel                                                             *)

DeliveryInv ==
  /\ SupervisorInv
  /\ DeliveryTypeOK
  /\ queue # <<>> => queue[Len(queue)] = Situation
  /\ ReaderKnows
  /\ EndAnnouncedOnce

LEMMA ObservedStep ==
  ASSUME DeliveryInv, SupervisorInv', pc # "done",
         NEW messages, Tells(messages), Observed(messages)
  PROVE  DeliveryInv'
  <1>1. /\ queue' = queue \o messages /\ UNCHANGED <<session, shown, lost>>
        /\ queue \in Seq(NotificationType) /\ messages \in Seq(NotificationType)
    BY DEF Observed, DeliveryInv, DeliveryTypeOK, Tells
  <1>2. EndAnnouncedOnce' /\ endings' \in [Ending -> Nat]
    <2>1. endings = [e \in Ending |-> 0]
      BY DEF DeliveryInv, EndAnnouncedOnce
    <2>2. endings' = [e \in Ending |-> endings[e] + Count(messages, e)]
      BY DEF Observed
    <2>3. \A e \in Ending : endings[e] + Count(messages, e) =
                              IF pc' = "done" /\ e = EndMessage' THEN 1 ELSE 0
      BY <2>1 DEF Tells
    <2>4. endings' = [e \in Ending |-> IF pc' = "done" /\ e = EndMessage' THEN 1 ELSE 0]
      BY <2>2, <2>3
    <2> QED
      BY <2>4 DEF EndAnnouncedOnce
  <1>3. queue' \in Seq(NotificationType)
    BY <1>1
  <1>4. DeliveryTypeOK'
    BY <1>1, <1>2, <1>3 DEF DeliveryTypeOK, DeliveryInv
  <1>5. CASE messages = <<>>
    <2>1. queue' = queue /\ Situation' = Situation
      BY <1>1, <1>5 DEF Tells
    <2>2. (queue # <<>> => queue[Len(queue)] = Situation)'
      BY <2>1 DEF DeliveryInv
    <2>3. ReaderKnows'
      BY <1>1, <2>1 DEF DeliveryInv, ReaderKnows
    <2> QED
      BY <1>2, <1>4, <2>2, <2>3 DEF DeliveryInv
  <1>6. CASE messages # <<>>
    <2>1. queue' # <<>> /\ queue'[Len(queue')] = messages[Len(messages)]
      BY <1>1, <1>6
    <2>2. messages[Len(messages)] = Situation'
      BY <1>6 DEF Tells
    <2> QED
      BY <1>2, <1>4, <2>1, <2>2 DEF DeliveryInv, ReaderKnows
  <1> QED
    BY <1>5, <1>6

LEMMA SupervisedStep ==
  ASSUME DeliveryInv, Supervised
  PROVE  DeliveryInv'
  <1>1. SupervisorInv
    BY DEF DeliveryInv
  <1>2. Next /\ SupervisorInv'
    <2>1. Next
      BY DEF Supervised, Next, Event
    <2> QED
      BY <1>1, <2>1, NextStep
  <1>3. pc # "done"
    <2>1. pc = "done" => stopReason # NoValue
      BY <1>1, NoValueAssumption DEF NoValueAssumption, SupervisorInv, PlaceState,
         DoneState
    <2> QED
      BY <2>1 DEF Supervised, Connect, CreationFails, LeaveLoop, Join, Spawned,
         PlayerJoined, ConnectTimeout, ConnectionError, Settled, RequestStop, MayStop
  <1>4. \E messages : Tells(messages) /\ Observed(messages)
    <2>1. CASE Connect /\ Observed(ConnectedBy)
      BY <1>1, <2>1, ConnectTells
    <2>2. CASE /\ CreationFails
               /\ Observed(ConnectedBy \o ContinuedBy(Connecting, "fatal"))
      BY <1>1, <2>2, CreationFailsTells
    <2>3. CASE LeaveLoop /\ Observed(EndedBy(snapshot, stopReason))
      BY <1>1, <2>3, LeaveLoopTells
    <2>4. CASE Join /\ Observed(News(snapshot, snapshot'))
      BY <1>1, <2>4, JoinTells
    <2>5. CASE Spawned /\ Observed(SpawnedBy)
      BY <1>1, <2>5, SpawnedTells
    <2>6. ASSUME NEW p \in Players, PlayerJoined(p),
                 Observed(IF pc' = "done" THEN DetectedBy(snapshot) ELSE <<>>)
          PROVE  \E messages : Tells(messages) /\ Observed(messages)
      BY <1>1, <2>6, PlayerJoinedTells
    <2>7. CASE ConnectTimeout /\ Observed(ContinuedBy(snapshot, "retryable"))
      BY <1>1, <2>7, LostTells DEF ConnectTimeout, Settled
    <2>8. CASE /\ ConnectionError
               /\ Observed(ContinuedBy(snapshot,
                    IF stopReason' = "connection_error" THEN "fatal" ELSE "retryable"))
      <3>1. PICK outcome \in {"fatal", "retryable"} : Continue(snapshot, outcome)
        BY <2>8 DEF ConnectionError
      <3>2. pc = "attempt" /\ stopReason = NoValue /\ TypeOK
        BY <1>1, <2>8 DEF ConnectionError, Settled, SupervisorInv, PlaceState,
           AttemptState
      <3>3. outcome = IF stopReason' = "connection_error" THEN "fatal" ELSE "retryable"
        BY <3>1, <3>2, ContinueSituation
      <3>4. Observed(ContinuedBy(snapshot, outcome))
        BY <2>8, <3>3
      <3> QED
        BY <1>1, <3>1, <3>2, <3>4, LostTells
    <2>9. ASSUME NEW reason \in RequestedReason, RequestStop(reason),
                 Observed(StoppedBy(reason))
          PROVE  \E messages : Tells(messages) /\ Observed(messages)
      BY <1>1, <2>9, RequestStopTells
    <2> QED
      BY <2>1, <2>2, <2>3, <2>4, <2>5, <2>6, <2>7, <2>8, <2>9 DEF Supervised
  <1> QED
    BY <1>2, <1>3, <1>4, ObservedStep

LEMMA UnannouncedStep ==
  ASSUME DeliveryInv, Unannounced
  PROVE  DeliveryInv'
  <1>1. SupervisorInv /\ SupervisorInv'
    <2>1. Next
      BY DEF Unannounced, Next, Event
    <2> QED
      BY <2>1, NextStep DEF DeliveryInv
  <1>2. /\ UNCHANGED <<retry, stopReason, joined, spawned>>
        /\ pc # "done" /\ pc' # "done" /\ (pc = "attempt" <=> pc' = "attempt")
    BY DEF Unannounced, Authenticated, State, WaitEnds, PlayerLeft, attempt
  <1>3. Situation' = Situation
    BY <1>2 DEF Situation
  <1>4. UNCHANGED <<queue, session, shown, lost, endings>>
    BY DEF Unannounced, deliveryVars
  <1>5. DeliveryTypeOK' /\ ReaderKnows'
    BY <1>3, <1>4 DEF DeliveryInv, DeliveryTypeOK, ReaderKnows
  <1>6. EndAnnouncedOnce'
    BY <1>2, <1>4 DEF DeliveryInv, EndAnnouncedOnce
  <1> QED
    BY <1>1, <1>3, <1>4, <1>5, <1>6 DEF DeliveryInv

\* A message, or all of them, leave the queue.
LEMMA DeliveryStep ==
  ASSUME DeliveryInv,
         Sent \/ SendFails \/ CloseSubscriber \/ CloseBinding \/ UNCHANGED allVars
  PROVE  DeliveryInv'
  <1>1. UNCHANGED vars /\ UNCHANGED endings
    BY DEF Sent, SendFails, CloseSubscriber, CloseBinding, allVars
  <1>2. SupervisorInv'
    BY <1>1, StutterStep DEF DeliveryInv
  <1>3. Situation' = Situation /\ EndAnnouncedOnce'
    BY <1>1 DEF DeliveryInv, vars, Situation, EndMessage, EndAnnouncedOnce
  <1>4. /\ queue \in Seq(NotificationType) /\ shown \in Optional(NotificationType)
        /\ lost \in BOOLEAN
        /\ queue # <<>> => queue[Len(queue)] = Situation
        /\ queue = <<>> /\ ~lost => shown = Situation
    BY DEF DeliveryInv, DeliveryTypeOK, ReaderKnows
  <1>5. /\ DeliveryTypeOK'
        /\ (queue # <<>> => queue[Len(queue)] = Situation)'
        /\ ReaderKnows'
    <2>1. CASE Sent \/ SendFails
      <3>1. /\ queue # <<>> /\ queue' = Tail(queue) /\ session' = session
            /\ \/ shown' = Head(queue) /\ lost' \in BOOLEAN /\ ~lost'
               \/ lost' \in BOOLEAN /\ lost' /\ shown' = shown
        BY <2>1 DEF Sent, SendFails
      <3>2. Head(queue) = queue[1] /\ Head(queue) \in NotificationType
        BY <1>4, <3>1
      <3>3. /\ queue' \in Seq(NotificationType)
            /\ queue' = <<>> => Head(queue) = Situation
            /\ queue' # <<>> => queue'[Len(queue')] = Situation
        <4>1. /\ Tail(queue) \in Seq(NotificationType)
              /\ Len(queue) \in Nat \ {0} /\ Len(Tail(queue)) = Len(queue) - 1
              /\ \A i \in 1..Len(Tail(queue)) : Tail(queue)[i] = queue[i + 1]
          BY <1>4, <3>1, HeadTailProperties
        <4>2. CASE Len(queue) = 1
          BY <1>4, <3>1, <3>2, <4>1, <4>2
        <4>3. CASE Len(queue) # 1
          <5> DEFINE n == Len(queue) - 1
          <5>1. n \in 1..Len(Tail(queue)) /\ n + 1 = Len(queue)
            BY <4>1, <4>3
          <5>2. Tail(queue)[n] = queue[n + 1]
            BY <4>1, <5>1
          <5>3. queue' # <<>> => queue'[Len(queue')] = Situation
            BY <1>4, <3>1, <4>1, <5>1, <5>2
          <5>4. Len(queue') # 0
            BY <3>1, <4>1, <4>3
          <5> QED
            BY <3>1, <4>1, <5>3, <5>4
        <4> QED
          BY <4>2, <4>3
      <3>4. DeliveryTypeOK'
        BY <1>1, <1>4, <3>1, <3>2, <3>3 DEF DeliveryTypeOK, DeliveryInv, Optional
      <3> QED
        BY <1>3, <3>1, <3>3, <3>4 DEF ReaderKnows
    <2>2. CASE CloseSubscriber
      <3>1. UNCHANGED <<queue, shown, lost>> /\ session' = "closing"
        BY <2>2 DEF CloseSubscriber
      <3> QED
        BY <1>1, <1>3, <1>4, <3>1 DEF DeliveryTypeOK, DeliveryInv, ReaderKnows
    <2>3. CASE CloseBinding
      <3>1. queue' = <<>> /\ session' = "closed"
        BY <2>3 DEF CloseBinding
      <3>2. /\ lost' \in BOOLEAN /\ shown' \in Optional(NotificationType)
            /\ ~lost' => shown' = Situation
        <4>1. CASE queue # <<>> /\ shown' = Head(queue) /\ lost' = (Len(queue) > 1)
          <5>1. Head(queue) = queue[1] /\ Head(queue) \in NotificationType
            BY <1>4, <4>1
          <5>2. Len(queue) \in Nat /\ Len(queue) # 0
            BY <1>4, <4>1
          <5>3. ~lost' => ~(Len(queue) > 1)
            BY <4>1
          <5>4. Len(queue) > 1 \/ Len(queue) = 1
            BY <5>2
          <5>5. ~lost' => Len(queue) = 1
            BY <5>3, <5>4
          <5>6. lost' \in BOOLEAN
            BY <4>1
          <5> QED
            BY <1>4, <4>1, <5>1, <5>5, <5>6 DEF Optional
        <4>2. CASE lost' = (queue # <<>> \/ lost) /\ UNCHANGED shown
          BY <1>4, <4>2
        <4> QED
          BY <2>3, <4>1, <4>2 DEF CloseBinding
      <3> QED
        BY <1>1, <1>3, <3>1, <3>2 DEF DeliveryTypeOK, DeliveryInv, ReaderKnows
    <2>4. CASE UNCHANGED allVars
      BY <1>3, <1>4, <2>4 DEF allVars, deliveryVars, DeliveryTypeOK, DeliveryInv,
         ReaderKnows
    <2> QED
      BY <2>1, <2>2, <2>3, <2>4
  <1> QED
    BY <1>2, <1>3, <1>5 DEF DeliveryInv

LEMMA AnnouncementsInitInv ==
  ASSUME AnnouncementsInit PROVE DeliveryInv
  <1>1. SupervisorInv
    BY InitInv DEF AnnouncementsInit
  <1>2. pc = "loop" /\ stopReason = NoValue /\ retry = 0
    BY DEF AnnouncementsInit, Init
  <1>3. Situation = NoValue
    BY <1>2 DEF Situation
  <1>4. EndAnnouncedOnce /\ endings \in [Ending -> Nat]
    BY <1>2 DEF AnnouncementsInit, EndAnnouncedOnce
  <1>5. queue \in Seq(NotificationType) /\ queue = <<>> /\ shown = NoValue
    BY DEF AnnouncementsInit
  <1>6. lost \in BOOLEAN /\ session = "open"
    BY DEF AnnouncementsInit
  <1>7. DeliveryTypeOK
    BY <1>4, <1>5, <1>6 DEF DeliveryTypeOK, Optional
  <1> QED
    BY <1>1, <1>3, <1>4, <1>5, <1>7 DEF DeliveryInv, ReaderKnows

\* Whatever is lost or late, the last message under way, or in the channel, is the
\* situation, and an end was announced if and only if there was one.
THEOREM DeliveryInvariance == AnnouncementsSpec => []DeliveryInv
  <1>1. DeliveryInv /\ [AnnouncementsNext]_allVars => DeliveryInv'
    BY SupervisedStep, UnannouncedStep, DeliveryStep DEF AnnouncementsNext
  <1> QED
    BY <1>1, AnnouncementsInitInv, PTL DEF AnnouncementsSpec

\* A run's end is announced once, by the message that says why, for any number of
\* retries and players, and not before the end.
THEOREM EndIsAnnouncedOnce == AnnouncementsSpec => []EndAnnouncedOnce
  <1>1. DeliveryInv => EndAnnouncedOnce
    BY DEF DeliveryInv
  <1> QED
    BY <1>1, DeliveryInvariance, PTL

\* With nothing under way and nothing lost, the channel's last message is right.
THEOREM ReaderAlwaysKnows == AnnouncementsSpec => []ReaderKnows
  <1>1. DeliveryInv => ReaderKnows
    BY DEF DeliveryInv
  <1> QED
    BY <1>1, DeliveryInvariance, PTL

\* Announcing changes nothing of the run: what holds of the supervisor holds here.
THEOREM AnnouncedRunsAreRuns == AnnouncementsSpec => Spec
  <1>1. AnnouncementsInit => Init
    BY DEF AnnouncementsInit
  <1>2. [AnnouncementsNext]_allVars => [Next]_vars
    <2>1. Supervised \/ Unannounced => Next
      BY DEF Supervised, Unannounced, Next, Event
    <2>2. Sent \/ SendFails \/ CloseSubscriber \/ CloseBinding \/ UNCHANGED allVars
            => UNCHANGED vars
      BY DEF Sent, SendFails, CloseSubscriber, CloseBinding, allVars
    <2> QED
      BY <2>1, <2>2 DEF AnnouncementsNext
  <1> QED
    BY <1>1, <1>2, PTL DEF AnnouncementsSpec, Spec

----------------------------------------------------------------------------
(* InstanceLock: who holds the lock while operations on it do not overlap. *)

\* A file is open for writing from #create or a heartbeat until it is written.
HandlesMatch ==
  \A o \in Owners :
    /\ handle[o] # NoFile =>
         stage[o] \in {"filling", "held", "leaving", "unlinking", "released"}
    /\ stage[o] = "filling" => handle[o] # NoFile

\* Where an owner takes the lock or leaves it, nobody else holds it.
Claiming == {"held", "filling", "renaming", "recreating", "leaving", "unlinking"}

Alone ==
  \A o, p \in Owners : stage[o] = "held" /\ stage[p] \in Claiming => o = p

\* The holder has its own lock, refreshed within a tick; or it is writing it.
HoldersLock ==
  \A o \in Owners :
    /\ stage[o] = "held" /\ handle[o] = NoFile =>
         /\ IsOwn(o)
         /\ Content.heartbeat >= IF o \in beaten THEN now ELSE now - 1
    /\ stage[o] \in {"filling", "held"} /\ handle[o] # NoFile => handle[o] = file
    /\ stage[o] = "released" => handle[o] = NoFile /\ ~IsOwn(o)

LockInv ==
  /\ LockTypeOK
  /\ HandlesMatch
  /\ ~raced => ~Overlapping /\ Alone /\ HoldersLock

Stage == {"idle", "reading", "renaming", "recreating", "filling", "held",
          "leaving", "unlinking", "released", "refused", "crashed"}

\* What a file may hold at the time n.
Contents(n) == [owner : Owners, heartbeat : 0..n] \cup {NoRecord}

LEMMA RecordFacts ==
  ASSUME LockTypeOK, NEW o \in Owners
  PROVE  /\ Record(o) \in Contents(now) /\ Record(o) # NoRecord
         /\ Record(o).owner = o /\ Record(o).heartbeat = now
         /\ now \in Nat
  <1>1. now \in Nat /\ now \in 0..now
    BY LockAssumption DEF LockTypeOK, LockAssumption
  <1>2. Record(o) \in [owner : Owners, heartbeat : Nat]
    BY <1>1 DEF Record
  <1> QED
    BY <1>1, <1>2, LockAssumption DEF LockAssumption, Record, Contents

\* What can be read under the lock's name.
LEMMA ContentFacts ==
  ASSUME LockTypeOK
  PROVE  Content \in Contents(now)
  BY DEF LockTypeOK, Content, Contents, NoFile

\* The history variable: what is not raced has not been, and does not overlap.
LEMMA WatchedFacts ==
  ASSUME LockInv, Watched
  PROVE  /\ raced' \in BOOLEAN
         /\ ~raced' => /\ ~Overlapping /\ ~Overlapping' /\ Alone /\ HoldersLock
  <1>1. raced \in BOOLEAN /\ Overlapping' \in BOOLEAN
    BY DEF LockInv, LockTypeOK, Overlapping
  <1>2. raced' = (raced \/ Overlapping')
    BY DEF Watched
  <1> QED
    BY <1>1, <1>2 DEF LockInv

LEMMA OpensNewFacts ==
  ASSUME LockTypeOK, NEW o \in Owners, OpensNew(o)
  PROVE  /\ files' \in Seq(Contents(now)) /\ file' \in 1..Len(files')
         /\ Len(files') = Len(files) + 1
         /\ handle' = [handle EXCEPT ![o] = file']
         /\ handle' \in [Owners -> 0..Len(files')]
         /\ Content' = NoRecord
  <1>1. files \in Seq(Contents(now)) /\ NoRecord \in Contents(now)
    BY DEF LockTypeOK, Contents
  <1>2. files' = Append(files, NoRecord) /\ file' = Len(files) + 1
    BY DEF OpensNew
  <1>3. /\ files' \in Seq(Contents(now)) /\ Len(files') = Len(files) + 1
        /\ files'[Len(files) + 1] = NoRecord /\ Len(files) \in Nat
    BY <1>1, <1>2
  <1> QED
    BY <1>2, <1>3 DEF OpensNew, LockTypeOK, Content, NoFile

LEMMA OpensOldFacts ==
  ASSUME LockTypeOK, NEW o \in Owners, file # NoFile, OpensOld(o)
  PROVE  /\ files' \in Seq(Contents(now)) /\ Len(files') = Len(files)
         /\ handle' = [handle EXCEPT ![o] = file']
         /\ handle' \in [Owners -> 0..Len(files')]
         /\ file' = file
         /\ Content' = NoRecord
  <1>1. /\ files \in Seq(Contents(now)) /\ NoRecord \in Contents(now)
        /\ file \in 1..Len(files)
    BY DEF LockTypeOK, Contents, NoFile
  <1>2. files' = [files EXCEPT ![file] = NoRecord] /\ file' = file
    BY DEF OpensOld
  <1>3. /\ files' \in Seq(Contents(now)) /\ Len(files') = Len(files)
        /\ files'[file] = NoRecord
    BY <1>1, <1>2
  <1> QED
    BY <1>1, <1>2, <1>3 DEF OpensOld, LockTypeOK, Content, NoFile

LEMMA InitLock == LockInit => LockInv
  <1> SUFFICES ASSUME LockInit PROVE LockInv
    OBVIOUS
  <1>1. now = 0 /\ now \in 0..MaxTime /\ files = <<>> /\ file = 0
    BY LockAssumption DEF LockInit, LockAssumption, NoFile
  <1>2. files \in Seq(Contents(now)) /\ Len(files) = 0
    BY <1>1
  <1>3. LockTypeOK
    <2>1. file \in 0..Len(files) /\ handle \in [Owners -> 0..Len(files)]
      BY <1>1, <1>2 DEF LockInit, NoFile
    <2>2. /\ stage \in [Owners -> Stage] /\ beaten \subseteq Owners
          /\ raced \in BOOLEAN
      BY DEF LockInit, Stage
    <2> QED
      BY <1>1, <1>2, <2>1, <2>2 DEF LockTypeOK, Contents, Stage
  <1> QED
    BY <1>3 DEF LockInit, LockInv, HandlesMatch, Overlapping, Busy, Ended, Alone,
       Claiming, HoldersLock, NoFile

----------------------------------------------------------------------------

\* An owner goes on without a file to write, and without taking the lock.
LEMMA GoesStep ==
  ASSUME LockInv, NEW o \in Owners,
         NEW to \in {"reading", "renaming", "recreating", "leaving", "unlinking",
                     "released", "refused"},
         Goes(o, to), Watched,
         UNCHANGED <<now, files, handle, beaten>>,
         handle[o] # NoFile => to \in {"leaving", "unlinking", "released"},
         \/ file' = file
         \/ file' = NoFile /\ stage[o] \in {"renaming", "unlinking"},
         to = "renaming" => ~Fresh(Content) /\ stage[o] = "reading",
         to = "recreating" => stage[o] = "renaming",
         to = "leaving" => stage[o] = "held",
         to = "unlinking" => stage[o] = "leaving",
         to = "released" => stage[o] \in {"leaving", "unlinking"} /\ ~IsOwn(o)',
         to \in {"reading", "refused"} => stage[o] # "released"
  PROVE  LockInv'
  <1>1. /\ stage' = [stage EXCEPT ![o] = to] /\ stage \in [Owners -> Stage]
        /\ stage'[o] = to
        /\ \A p \in Owners \ {o} : stage'[p] = stage[p]
    BY DEF Goes, LockInv, LockTypeOK, Stage
  <1>2. /\ raced' \in BOOLEAN
        /\ ~raced' => ~Overlapping /\ ~Overlapping' /\ Alone /\ HoldersLock
    BY WatchedFacts
  <1>3. LockTypeOK'
    BY <1>1, <1>2 DEF LockInv, LockTypeOK, Stage, NoFile
  <1>4. HandlesMatch'
    BY <1>1 DEF LockInv, HandlesMatch
  <1>5. Content' = Content \/ Content' = NoRecord
    BY DEF Content
  <1>6. Content' = Content \/ stage[o] \in {"renaming", "unlinking"}
    BY DEF Content
  <1>7. ASSUME ~raced', NEW p \in Owners, NEW q \in Owners,
               stage'[p] = "held", stage'[q] \in Claiming, p # q
        PROVE  FALSE
    <2>1. p # o /\ stage[p] = "held"
      BY <1>1, <1>7
    <2>2. q = o /\ stage[o] \notin Claiming
      BY <1>1, <1>2, <1>7, <2>1 DEF Alone
    <2>3. to = "renaming" /\ ~Fresh(Content)
      BY <1>1, <1>7, <2>2 DEF Claiming
    <2>4. handle[p] = NoFile
      BY <1>1, <1>2, <1>7, <2>1, <2>2, <2>3 DEF Overlapping, Busy, Ended
    <2>5. /\ IsOwn(p)
          /\ Content.heartbeat >= IF p \in beaten THEN now ELSE now - 1
      BY <1>2, <1>7, <2>1, <2>4 DEF HoldersLock
    <2>6. Content \in Contents(now) /\ Content # NoRecord /\ now \in Nat
      BY <2>5, ContentFacts, RecordFacts DEF LockInv, IsOwn
    <2>7. Content.heartbeat \in 0..now /\ Content.heartbeat >= now - 1
      BY <2>5, <2>6 DEF Contents
    <2>8. now - Content.heartbeat < StaleAfter
      BY <2>6, <2>7, LockAssumption DEF LockAssumption
    <2> QED
      BY <2>3, <2>6, <2>8 DEF Fresh
  <1>8. ASSUME ~raced' PROVE HoldersLock'
    <2>1. ASSUME NEW p \in Owners, stage'[p] = "held", handle'[p] = NoFile
          PROVE  /\ IsOwn(p)'
                 /\ Content'.heartbeat >= IF p \in beaten' THEN now' ELSE now' - 1
      <3>1. p # o /\ stage[p] = "held" /\ handle[p] = NoFile
        BY <1>1, <2>1
      <3>2. Content' = Content
        BY <1>2, <1>6, <1>8, <3>1 DEF Alone, Claiming
      <3> QED
        BY <1>2, <1>8, <3>1, <3>2 DEF HoldersLock, IsOwn
    <2>2. ASSUME NEW p \in Owners, stage'[p] \in {"filling", "held"},
                 handle'[p] # NoFile
          PROVE  handle'[p] = file'
      <3>1. p # o /\ stage[p] = stage'[p] /\ handle[p] # NoFile
        BY <1>1, <2>2
      <3>2. file' = file
        BY <1>2, <1>8, <3>1 DEF Overlapping, Busy, Ended
      <3> QED
        BY <1>2, <1>8, <2>2, <3>1, <3>2 DEF HoldersLock
    <2>3. ASSUME NEW p \in Owners, stage'[p] = "released"
          PROVE  handle'[p] = NoFile /\ ~IsOwn(p)'
      <3>1. CASE p = o
        BY <1>1, <1>2, <1>8, <2>3, <3>1 DEF Overlapping
      <3>2. CASE p # o
        BY <1>1, <1>2, <1>5, <1>8, <2>3, <3>2 DEF HoldersLock, IsOwn
      <3> QED
        BY <3>1, <3>2
    <2> QED
      BY <2>1, <2>2, <2>3 DEF HoldersLock
  <1> QED
    BY <1>2, <1>3, <1>4, <1>7, <1>8 DEF LockInv, Alone

\* An owner opens the file under the lock's name: a new one, or its own.
LEMMA OpensStep ==
  ASSUME LockInv, NEW o \in Owners, Watched,
         \/ OpensNew(o)
         \/ file # NoFile /\ OpensOld(o),
         UNCHANGED <<now, beaten>>,
         \/ /\ Goes(o, "filling") /\ file = NoFile
            /\ stage[o] \in {"idle", "recreating"}
         \/ stage[o] = "held" /\ UNCHANGED stage
  PROVE  LockInv'
  <1>1. /\ files' \in Seq(Contents(now)) /\ file' \in 1..Len(files')
        /\ handle' = [handle EXCEPT ![o] = file']
        /\ handle' \in [Owners -> 0..Len(files')]
        /\ handle \in [Owners -> 0..Len(files)]
        /\ Content' = NoRecord
    <2>1. file # NoFile => file \in 1..Len(files)
      BY DEF LockInv, LockTypeOK, NoFile
    <2> QED
      BY <2>1, OpensNewFacts, OpensOldFacts DEF LockInv, LockTypeOK
  <1>2. /\ handle'[o] = file' /\ file' # NoFile
        /\ \A p \in Owners \ {o} : handle'[p] = handle[p]
    BY <1>1 DEF NoFile
  <1>3. /\ stage' \in [Owners -> Stage] /\ stage \in [Owners -> Stage]
        /\ stage'[o] \in {"filling", "held"}
        /\ stage'[o] = "held" => stage[o] = "held"
        /\ \A p \in Owners \ {o} : stage'[p] = stage[p]
    BY DEF Goes, LockInv, LockTypeOK, Stage
  <1>4. /\ raced' \in BOOLEAN
        /\ ~raced' => ~Overlapping /\ ~Overlapping' /\ Alone /\ HoldersLock
    BY WatchedFacts
  <1>5. LockTypeOK'
    BY <1>1, <1>3, <1>4 DEF LockInv, LockTypeOK, Stage, Contents
  <1>6. HandlesMatch'
    BY <1>2, <1>3 DEF LockInv, HandlesMatch
  <1>7. Busy(o)'
    BY <1>2 DEF Busy
  \* A holder would have its lock, and the file would be there.
  <1>8. ASSUME ~raced', NEW p \in Owners, stage[p] = "held", p # o
        PROVE  FALSE
    <2>1. handle[p] = NoFile
      BY <1>2, <1>4, <1>7, <1>8 DEF Overlapping, Busy
    <2>2. IsOwn(p) /\ file # NoFile
      BY <1>4, <1>8, <2>1 DEF HoldersLock, IsOwn, Content
    <2>3. stage[o] = "held"
      BY <2>2
    <2> QED
      BY <1>4, <1>8, <2>3 DEF Alone, Claiming
  <1>9. ASSUME ~raced', NEW p \in Owners, NEW q \in Owners,
               stage'[p] = "held", stage'[q] \in Claiming, p # q
        PROVE  FALSE
    <2>1. p = o
      BY <1>3, <1>8, <1>9
    <2>2. stage[p] = "held" /\ stage[q] \in Claiming
      BY <1>3, <1>9, <2>1
    <2> QED
      BY <1>4, <1>9, <2>2 DEF Alone
  <1>10. ASSUME ~raced' PROVE HoldersLock'
    <2>1. ASSUME NEW p \in Owners, stage'[p] \in {"filling", "held"}
          PROVE  handle'[p] # NoFile /\ handle'[p] = file'
      <3>1. CASE p = o
        BY <1>2, <3>1
      <3>2. CASE p # o
        BY <1>3, <1>4, <1>7, <1>8, <1>10, <2>1, <3>2
           DEF Overlapping, Busy, Ended
      <3> QED
        BY <3>1, <3>2
    <2>2. ASSUME NEW p \in Owners, stage'[p] = "released"
          PROVE  handle'[p] = NoFile /\ ~IsOwn(p)'
      BY <1>1, <1>2, <1>3, <1>4, <1>10, <2>2 DEF HoldersLock, IsOwn
    <2> QED
      BY <2>1, <2>2 DEF HoldersLock
  <1> QED
    BY <1>4, <1>5, <1>6, <1>9, <1>10 DEF LockInv, Alone

LEMMA WriteStep ==
  ASSUME LockInv, NEW o \in Owners, Write(o)
  PROVE  LockInv'
  <1>1. /\ handle[o] # NoFile /\ handle[o] \in 1..Len(files)
        /\ files \in Seq(Contents(now))
        /\ files' = [files EXCEPT ![handle[o]] = Record(o)]
        /\ handle' = [handle EXCEPT ![o] = NoFile]
        /\ beaten' = beaten \cup {o}
        /\ UNCHANGED <<now, file>>
        /\ Watched
    BY DEF Write, LockInv, LockTypeOK, NoFile, Contents
  <1>2. /\ Record(o) \in Contents(now) /\ Record(o) # NoRecord
        /\ Record(o).owner = o /\ Record(o).heartbeat = now
        /\ now \in Nat
    BY RecordFacts DEF LockInv
  <1>3. /\ files' \in Seq(Contents(now)) /\ Len(files') = Len(files)
        /\ Content' = IF handle[o] = file THEN Record(o) ELSE Content
    <2>1. /\ files' \in Seq(Contents(now)) /\ Len(files') = Len(files)
          /\ \A i \in 1..Len(files) :
               files'[i] = IF i = handle[o] THEN Record(o) ELSE files[i]
      BY <1>1, <1>2
    <2>2. file = NoFile \/ file \in 1..Len(files)
      BY DEF LockInv, LockTypeOK, NoFile
    <2> QED
      BY <1>1, <2>1, <2>2 DEF Content
  <1>4. /\ stage \in [Owners -> Stage] /\ stage' \in [Owners -> Stage]
        /\ \A p \in Owners \ {o} : stage'[p] = stage[p]
        /\ stage'[o] = IF stage[o] = "filling" THEN "held" ELSE stage[o]
    BY DEF Write, Goes, LockInv, LockTypeOK, Stage
  <1>5. /\ handle' \in [Owners -> 0..Len(files)] /\ handle'[o] = NoFile
        /\ \A p \in Owners \ {o} : handle'[p] = handle[p]
    BY <1>1 DEF LockInv, LockTypeOK, NoFile
  <1>6. /\ raced' \in BOOLEAN
        /\ ~raced' => ~Overlapping /\ ~Overlapping' /\ Alone /\ HoldersLock
    BY <1>1, WatchedFacts
  <1>7. LockTypeOK'
    BY <1>1, <1>3, <1>4, <1>5, <1>6 DEF LockInv, LockTypeOK, Stage, Contents
  <1>8. HandlesMatch'
    BY <1>4, <1>5 DEF LockInv, HandlesMatch
  <1>9. Busy(o)
    BY <1>1 DEF Busy
  <1>10. ASSUME ~raced', NEW p \in Owners, NEW q \in Owners,
                stage'[p] = "held", stage'[q] \in Claiming, p # q
         PROVE  FALSE
    <2>1. stage[p] \in {"held", "filling"} /\ stage[q] \in Claiming
      BY <1>4, <1>10 DEF Claiming
    <2>2. CASE stage[p] = "held"
      BY <1>6, <1>10, <2>1, <2>2 DEF Alone
    <2>3. CASE stage[p] = "filling"
      <3>1. p = o /\ Busy(p) /\ stage[q] # "held"
        BY <1>4, <1>6, <1>10, <2>3 DEF Busy, Ended, Alone, Claiming
      <3>2. Busy(q)
        BY <2>1, <3>1 DEF Claiming, Busy, Ended
      <3> QED
        BY <1>6, <1>10, <3>1, <3>2 DEF Overlapping
    <2> QED
      BY <2>1, <2>2, <2>3
  <1>11. ASSUME ~raced' PROVE HoldersLock'
    <2>1. stage[o] \in {"filling", "held"}
      BY <1>1, <1>6, <1>11 DEF LockInv, HandlesMatch, Overlapping, HoldersLock
    <2>2. Content' = Record(o)
      BY <1>1, <1>3, <1>6, <1>11, <2>1 DEF HoldersLock
    <2>3. ASSUME NEW p \in Owners, p # o
          PROVE  stage'[p] \notin {"filling", "held"}
      <3>1. stage[p] # "filling"
        BY <1>6, <1>9, <1>11, <2>3 DEF Overlapping, Busy, Ended
      <3>2. stage[p] # "held"
        BY <1>6, <1>11, <2>1, <2>3 DEF Alone, Claiming
      <3> QED
        BY <1>4, <2>3, <3>1, <3>2
    <2>4. ASSUME NEW p \in Owners, stage'[p] \in {"filling", "held"}
          PROVE  /\ handle'[p] = NoFile /\ IsOwn(p)'
                 /\ p \in beaten' /\ Content'.heartbeat = now'
      BY <1>1, <1>2, <1>5, <2>2, <2>3, <2>4 DEF IsOwn
    <2>5. ASSUME NEW p \in Owners, stage'[p] = "released"
          PROVE  handle'[p] = NoFile /\ ~IsOwn(p)'
      <3>1. p # o /\ stage[p] = "released"
        BY <1>4, <2>1, <2>5
      <3> QED
        BY <1>2, <1>5, <1>6, <1>11, <2>2, <3>1 DEF HoldersLock, IsOwn
    <2> QED
      BY <1>1, <1>2, <2>4, <2>5 DEF HoldersLock
  <1> QED
    BY <1>6, <1>7, <1>8, <1>10, <1>11 DEF LockInv, Alone

LEMMA CreateStep ==
  ASSUME LockInv, NEW o \in Owners, Create(o)
  PROVE  LockInv'
  <1>1. CASE file = NoFile /\ OpensNew(o) /\ Goes(o, "filling")
    <2>1. /\ stage[o] \in {"idle", "recreating"}
          /\ UNCHANGED <<now, beaten>> /\ Watched
      BY DEF Create
    <2> QED
      BY <1>1, <2>1, OpensStep
  <1>2. CASE /\ file # NoFile
             /\ Goes(o, IF stage[o] = "idle" THEN "reading" ELSE "refused")
             /\ UNCHANGED <<files, file, handle>>
    <2>1. stage[o] \in {"idle", "recreating"} /\ handle[o] = NoFile
      BY DEF Create, LockInv, HandlesMatch
    <2>2. CASE stage[o] = "idle"
      BY <1>2, <2>1, <2>2, GoesStep DEF Create
    <2>3. CASE stage[o] # "idle"
      BY <1>2, <2>1, <2>3, GoesStep DEF Create
    <2> QED
      BY <2>2, <2>3
  <1> QED
    BY <1>1, <1>2 DEF Create

LEMMA ReadStep ==
  ASSUME LockInv, NEW o \in Owners, Read(o)
  PROVE  LockInv'
  <1>1. /\ stage[o] = "reading" /\ handle[o] = NoFile
        /\ UNCHANGED <<now, files, file, handle, beaten>> /\ Watched
    BY DEF Read, LockInv, HandlesMatch
  <1>2. CASE Fresh(Content)
    BY <1>1, <1>2, GoesStep DEF Read
  <1>3. CASE ~Fresh(Content)
    BY <1>1, <1>3, GoesStep DEF Read
  <1> QED
    BY <1>2, <1>3

LEMMA RenameStep ==
  ASSUME LockInv, NEW o \in Owners, Rename(o)
  PROVE  LockInv'
  <1>1. /\ stage[o] = "renaming" /\ handle[o] = NoFile /\ file' = NoFile
        /\ UNCHANGED <<now, files, handle, beaten>> /\ Watched
    BY DEF Rename, LockInv, HandlesMatch
  <1>2. CASE file = NoFile
    BY <1>1, <1>2, GoesStep DEF Rename
  <1>3. CASE file # NoFile
    BY <1>1, <1>3, GoesStep DEF Rename
  <1> QED
    BY <1>2, <1>3

LEMMA BeatStep ==
  ASSUME LockInv, NEW o \in Owners, Beat(o)
  PROVE  LockInv'
  <1>1. /\ stage[o] = "held" /\ UNCHANGED stage
        /\ UNCHANGED <<now, beaten>> /\ Watched
        /\ \/ OpensNew(o)
           \/ file # NoFile /\ OpensOld(o)
    BY DEF Beat
  <1> QED
    BY <1>1, OpensStep

LEMMA ReleaseStep ==
  ASSUME LockInv, NEW o \in Owners, Release(o)
  PROVE  LockInv'
  BY GoesStep DEF Release

LEMMA ReadOwnStep ==
  ASSUME LockInv, NEW o \in Owners, ReadOwn(o)
  PROVE  LockInv'
  <1>1. /\ stage[o] = "leaving"
        /\ UNCHANGED <<now, files, file, handle, beaten>> /\ Watched
    BY DEF ReadOwn
  <1>2. CASE IsOwn(o)
    BY <1>1, <1>2, GoesStep DEF ReadOwn
  <1>3. CASE ~IsOwn(o)
    <2>1. ~IsOwn(o)'
      BY <1>1, <1>3 DEF IsOwn, Content
    <2> QED
      BY <1>1, <1>3, <2>1, GoesStep DEF ReadOwn
  <1> QED
    BY <1>2, <1>3

LEMMA UnlinkStep ==
  ASSUME LockInv, NEW o \in Owners, Unlink(o)
  PROVE  LockInv'
  <1>1. /\ stage[o] = "unlinking" /\ Goes(o, "released") /\ file' = NoFile
        /\ UNCHANGED <<now, files, handle, beaten>> /\ Watched
    BY DEF Unlink
  <1>2. ~IsOwn(o)'
    BY <1>1 DEF IsOwn, Content
  <1> QED
    BY <1>1, <1>2, GoesStep

LEMMA LockCrashStep ==
  ASSUME LockInv, NEW o \in Owners, Crash(o)
  PROVE  LockInv'
  <1>1. /\ stage' = [stage EXCEPT ![o] = "crashed"]
        /\ handle' = [handle EXCEPT ![o] = NoFile]
        /\ UNCHANGED <<now, files, file, beaten>>
        /\ Watched
    BY DEF Crash, Goes
  <1>2. /\ raced' \in BOOLEAN
        /\ ~raced' => ~Overlapping /\ ~Overlapping' /\ Alone /\ HoldersLock
    BY <1>1, WatchedFacts
  <1>3. /\ stage \in [Owners -> Stage] /\ stage' \in [Owners -> Stage]
        /\ stage'[o] = "crashed" /\ handle'[o] = NoFile
        /\ \A p \in Owners \ {o} : stage'[p] = stage[p] /\ handle'[p] = handle[p]
    BY <1>1 DEF LockInv, LockTypeOK, Stage
  <1>4. LockTypeOK' /\ HandlesMatch'
    BY <1>1, <1>2, <1>3 DEF LockInv, LockTypeOK, Stage, NoFile, HandlesMatch
  <1>5. ~raced' => Alone' /\ HoldersLock'
    BY <1>1, <1>2, <1>3 DEF Alone, Claiming, HoldersLock, IsOwn, Content
  <1> QED
    BY <1>2, <1>4, <1>5 DEF LockInv

LEMMA LockTickStep ==
  ASSUME LockInv, Tick
  PROVE  LockInv'
  <1>1. /\ now' = now + 1 /\ now' \in 0..MaxTime /\ now \in Nat
        /\ beaten' = {}
        /\ \A o \in Owners : handle[o] = NoFile /\ (stage[o] = "held" => o \in beaten)
        /\ UNCHANGED <<files, file, stage, handle>>
        /\ Watched
    BY LockAssumption DEF Tick, LockInv, LockTypeOK, LockAssumption
  <1>2. /\ raced' \in BOOLEAN
        /\ ~raced' => ~Overlapping /\ ~Overlapping' /\ Alone /\ HoldersLock
    BY <1>1, WatchedFacts
  <1>3. files \in Seq(Contents(now'))
    <2>1. files \in Seq(Contents(now))
      BY DEF LockInv, LockTypeOK, Contents
    <2>2. Contents(now) \subseteq Contents(now')
      BY <1>1 DEF Contents
    <2> QED
      BY <2>1, <2>2
  <1>4. LockTypeOK' /\ HandlesMatch'
    BY <1>1, <1>2, <1>3 DEF LockInv, LockTypeOK, Contents, HandlesMatch
  <1>5. Content \in Contents(now) /\ Content' = Content
    BY <1>1, ContentFacts DEF LockInv, Content
  <1>6. ASSUME ~raced', NEW o \in Owners, stage[o] = "held"
        PROVE  IsOwn(o)' /\ Content'.heartbeat >= now' - 1
    <2>1. IsOwn(o) /\ Content.heartbeat >= now
      BY <1>1, <1>2, <1>6 DEF HoldersLock
    <2> QED
      BY <1>1, <1>5, <2>1 DEF IsOwn
  <1>7. ~raced' => Alone' /\ HoldersLock'
    BY <1>1, <1>2, <1>5, <1>6 DEF Alone, HoldersLock, IsOwn
  <1> QED
    BY <1>2, <1>4, <1>7 DEF LockInv

LEMMA NextLock == LockInv /\ [LockNext]_lockVars => LockInv'
  <1> SUFFICES ASSUME LockInv, [LockNext]_lockVars PROVE LockInv'
    OBVIOUS
  <1>1. ASSUME NEW o \in Owners, Own(o) \/ Release(o) \/ Crash(o)
        PROVE  LockInv'
    BY <1>1, CreateStep, ReadStep, RenameStep, WriteStep, BeatStep, ReadOwnStep,
       UnlinkStep, ReleaseStep, LockCrashStep DEF Own
  <1>2. CASE Tick
    BY <1>2, LockTickStep
  <1>3. CASE UNCHANGED lockVars
    BY <1>3 DEF lockVars, LockInv, LockTypeOK, HandlesMatch, Overlapping, Busy,
       Ended, Alone, HoldersLock, IsOwn, Content
  <1> QED
    BY <1>1, <1>2, <1>3 DEF LockNext

\* While operations on the lock file do not overlap, taking and leaving the lock
\* exclude a holder, and what is under the lock's name is the holder's, not older
\* than its last heartbeat.
THEOREM LockInvariance == LockSpec => []LockInv
  BY InitLock, NextLock, PTL DEF LockSpec

\* One process works for an account, and the others can see it, for any number of
\* processes, crashes and ticks, as long as no two operations on the lock file
\* overlap.
THEOREM HolderIsVisible == LockSpec => []OneVisibleHolder
  <1>1. ASSUME LockInv PROVE OneVisibleHolder
    <2>1. ASSUME ~raced, NEW o \in Owners, stage[o] = "held", handle[o] = NoFile
          PROVE  now - Content.heartbeat < StaleAfter
      <3>1. /\ Content \in Contents(now) /\ Content # NoRecord /\ now \in Nat
            /\ Content.heartbeat >= IF o \in beaten THEN now ELSE now - 1
        BY <1>1, <2>1, ContentFacts, RecordFacts DEF LockInv, HoldersLock, IsOwn
      <3>2. Content.heartbeat \in 0..now
        BY <3>1 DEF Contents
      <3> QED
        BY <3>1, <3>2, LockAssumption DEF LockAssumption
    <2> QED
      BY <1>1, <2>1 DEF LockInv, Alone, Claiming, HoldersLock, OneVisibleHolder,
         OneHolder
  <1> QED
    BY <1>1, LockInvariance, PTL

----------------------------------------------------------------------------
(* ScheduledRuntime: the sessions of the scheduled runtime.                *)

\* The clock has shown the window w by the time `last`.
Shown(w, last) == \E t \in Instants : t <= last /\ WindowAt(t) = w

\* Every session belongs to a window of its own, one that was shown.
History(ss, last) ==
  /\ ss \in Seq(Session)
  /\ \A i \in 1..Len(ss) : Shown(ss[i].window, last)
  /\ \A i, j \in 1..Len(ss) : ss[i].window = ss[j].window => i = j

Served(ss, w) == \E i \in 1..Len(ss) : ss[i].window = w

\* All sessions but the last, at most, are over.
OthersOver(ss) ==
  \A j \in 1..Len(ss) :
    ss[j].state \in {"starting", "running", "closing"} => j = Len(ss)

\* The active session is there, and it is the only one.
Owned(ss, i) ==
  /\ OthersOver(ss)
  /\ IF i = NoSession
     THEN \A j \in 1..Len(ss) : ss[j].state \in {"failed", "closed"}
     ELSE i = Len(ss) /\ ss[i].state \in {"running", "closing"}

\* The last session is in the state given and is not the active one yet, or
\* never will be.
Pending(state) ==
  /\ active = NoSession /\ sessions # <<>>
  /\ OthersOver(sessions)
  /\ sessions[Newest].state = state

AtPlace ==
  /\ place = "waiting" =>
       /\ ~closed
       /\ Owned(sessions, active)
       /\ active # NoSession => sessions[active].window = activeWindow
       /\ activeWindow # NoWindow => Served(sessions, activeWindow)
  /\ place = "creating" =>
       Pending("starting") /\ sessions[Newest].window = activeWindow
  /\ place = "discarding" => Pending("closing") /\ closed
  /\ place \in {"stopping", "finishing"} =>
       Owned(sessions, active) /\ active # NoSession /\ sessions[active].asked
  /\ place = "stopping" =>
       /\ pending = activeWindow
       /\ pending # NoWindow => ~Served(sessions, pending)
  /\ place = "finishing" => closed
  /\ place = "done" => Owned(sessions, active) /\ active = NoSession /\ closed

ControllerInv ==
  /\ ControllerTypeOK
  /\ activeWindow = IF lastTime = -1 THEN NoWindow ELSE WindowAt(lastTime)
  /\ History(sessions, lastTime)
  /\ AtPlace

LEMMA DayFacts ==
  ASSUME NEW t \in Int
  PROVE  Day(t) \in Int /\ MinuteOfDay(t) \in Int
  BY DEF Day, MinuteOfDay, DAY, JST_OFFSET

\* Between two times of a day it is that day, and a time between theirs.
LEMMA SameDay ==
  ASSUME NEW a \in Int, NEW b \in Int, NEW c \in Int, a <= b, b <= c,
         Day(a) = Day(c)
  PROVE  /\ Day(b) = Day(c)
         /\ MinuteOfDay(a) <= MinuteOfDay(b) /\ MinuteOfDay(b) <= MinuteOfDay(c)
  <1>1. ASSUME NEW d \in Int, NEW e \in Int, NEW m \in Int, NEW n \in Int,
               NEW o \in Int,
               0 <= m, m < 1440, 0 <= n, n < 1440, 0 <= o, o < 1440,
               a + 540 = 1440 * d + m, b + 540 = 1440 * e + n,
               c + 540 = 1440 * d + o
        PROVE  e = d /\ m <= n /\ n <= o
    BY <1>1
  <1>2. DAY = 1440 /\ JST_OFFSET = 540
    BY DEF DAY, JST_OFFSET
  <1>3. /\ Day(a) \in Int /\ MinuteOfDay(a) \in Int
        /\ 0 <= MinuteOfDay(a) /\ MinuteOfDay(a) < 1440
        /\ a + 540 = 1440 * Day(a) + MinuteOfDay(a)
    BY <1>2 DEF Day, MinuteOfDay
  <1>4. /\ Day(b) \in Int /\ MinuteOfDay(b) \in Int
        /\ 0 <= MinuteOfDay(b) /\ MinuteOfDay(b) < 1440
        /\ b + 540 = 1440 * Day(b) + MinuteOfDay(b)
    BY <1>2 DEF Day, MinuteOfDay
  <1>5. /\ Day(c) \in Int /\ MinuteOfDay(c) \in Int
        /\ 0 <= MinuteOfDay(c) /\ MinuteOfDay(c) < 1440
        /\ c + 540 = 1440 * Day(c) + MinuteOfDay(c)
    BY <1>2 DEF Day, MinuteOfDay
  <1> DEFINE d == Day(a)
             e == Day(b)
             m == MinuteOfDay(a)
             n == MinuteOfDay(b)
             o == MinuteOfDay(c)
  <1>6. /\ d \in Int /\ e \in Int /\ m \in Int /\ n \in Int /\ o \in Int
        /\ 0 <= m /\ m < 1440 /\ 0 <= n /\ n < 1440 /\ 0 <= o /\ o < 1440
        /\ a + 540 = 1440 * d + m /\ b + 540 = 1440 * e + n
        /\ c + 540 = 1440 * d + o
    BY <1>3, <1>4, <1>5
  <1> HIDE DEF d, e, m, n, o
  <1>7. e = d /\ m <= n /\ n <= o
    BY <1>1, <1>6
  <1> QED
    BY <1>7 DEF d, e, m, n, o

LEMMA WindowFacts ==
  ASSUME NEW t \in Int
  PROVE  /\ WindowAt(t) \in Window \cup {NoWindow}
         /\ NoWindow \notin Window
  <1>1. Day(t) \in Int
    BY DayFacts
  <1> QED
    BY <1>1, NoWindowAssumption DEF WindowAt, Window, NoWindowAssumption

\* The same window before and after is the window of the time between, too.
LEMMA WindowsAreConvex ==
  ASSUME NEW a \in Int, NEW b \in Int, NEW c \in Int, a <= b, b <= c,
         WindowAt(a) = WindowAt(c), WindowAt(c) # NoWindow
  PROVE  WindowAt(b) = WindowAt(c)
  <1> DEFINE slot(m) ==
        IF m \in MORNING_START_MINUTE .. MORNING_END_MINUTE - 1 THEN "morning"
        ELSE IF m \in AFTERNOON_START_MINUTE .. AFTERNOON_END_MINUTE - 1
        THEN "afternoon" ELSE "none"
  <1>1. \A t \in Int :
          WindowAt(t) = IF Weekday(t) \in {0, 6} \/ slot(MinuteOfDay(t)) = "none"
                        THEN NoWindow
                        ELSE [day |-> Day(t), slot |-> slot(MinuteOfDay(t))]
    BY DEF WindowAt
  <1>2. \A t \in Int : [day |-> Day(t), slot |-> slot(MinuteOfDay(t))] \in
                         [day : Int, slot : {"morning", "afternoon", "none"}]
    BY DayFacts
  <1>3. /\ Day(a) = Day(c) /\ slot(MinuteOfDay(a)) = slot(MinuteOfDay(c))
        /\ slot(MinuteOfDay(a)) # "none" /\ Weekday(c) \notin {0, 6}
    <2> HIDE DEF slot
    <2> QED
      BY <1>1
  <1>5. /\ Day(b) = Day(c)
        /\ MinuteOfDay(a) <= MinuteOfDay(b) /\ MinuteOfDay(b) <= MinuteOfDay(c)
    BY <1>3, SameDay
  <1>6. slot(MinuteOfDay(b)) = slot(MinuteOfDay(c))
    <2>1. slot(MinuteOfDay(a)) = slot(MinuteOfDay(c)) /\ slot(MinuteOfDay(a)) # "none"
      BY <1>3
    <2>2. \A m \in Int :
            slot(m) = IF m \in 540..718 THEN "morning"
                      ELSE IF m \in 720..1019 THEN "afternoon" ELSE "none"
      BY DEF MORNING_START_MINUTE, MORNING_END_MINUTE, AFTERNOON_START_MINUTE,
         AFTERNOON_END_MINUTE
    <2> HIDE DEF slot
    <2>3. /\ MinuteOfDay(a) \in Int /\ MinuteOfDay(b) \in Int
          /\ MinuteOfDay(c) \in Int
      BY DayFacts
    <2>4. \A m, n, o \in Int :
            m <= n /\ n <= o /\ slot(m) = slot(o) /\ slot(m) # "none" =>
              slot(n) = slot(o)
      BY <2>2
    <2> QED
      BY <1>5, <2>1, <2>3, <2>4
  <1>7. Weekday(b) = Weekday(c)
    BY <1>5 DEF Weekday
  <1> HIDE DEF slot
  <1> QED
    BY <1>1, <1>3, <1>5, <1>6, <1>7

\* A window that opens now was not shown before.
LEMMA OpensAnew ==
  ASSUME ControllerInv, NEW t \in Instants, ~Outdated(t),
         WindowAt(t) # activeWindow, WindowAt(t) # NoWindow
  PROVE  ~Shown(WindowAt(t), lastTime)
  <1> SUFFICES ASSUME NEW s \in Instants, s <= lastTime, WindowAt(s) = WindowAt(t)
               PROVE  FALSE
    BY DEF Shown
  <1>1. /\ t \in Int /\ s \in Int /\ s >= 0 /\ lastTime \in Int
        /\ lastTime # -1 => lastTime \in Instants
    BY ControllerAssumption DEF ControllerAssumption, ControllerInv, ControllerTypeOK
  <1>2. lastTime # -1 /\ lastTime <= t
    BY <1>1 DEF Outdated
  <1>3. WindowAt(lastTime) = WindowAt(t)
    BY <1>1, <1>2, WindowsAreConvex
  <1> QED
    BY <1>2, <1>3 DEF ControllerInv

----------------------------------------------------------------------------

LEMMA ToldFacts ==
  ASSUME NEW ss \in Seq(Session), NEW i \in 0..Len(ss), NEW last
  PROVE  /\ Told(ss, i) \in Seq(Session) /\ Len(Told(ss, i)) = Len(ss)
         /\ i # NoSession => Told(ss, i)[i].asked
         /\ \A j \in 1..Len(ss) : /\ Told(ss, i)[j].window = ss[j].window
                                  /\ Told(ss, i)[j].state = ss[j].state
  <1>1. CASE i = NoSession
    BY <1>1 DEF Told
  <1>2. CASE i # NoSession
    <2>1. i \in 1..Len(ss) /\ ss[i] \in Session
      BY <1>2 DEF NoSession
    <2> DEFINE s == [ss[i] EXCEPT !.asked = TRUE]
    <2>2. s \in Session /\ s.asked /\ s.window = ss[i].window /\ s.state = ss[i].state
      BY <2>1 DEF Session
    <2>3. Told(ss, i) = [ss EXCEPT ![i] = s]
      BY <1>2 DEF Told
    <2> HIDE DEF s
    <2> QED
      BY <2>1, <2>2, <2>3
  <1> QED
    BY <1>1, <1>2

LEMMA ToFacts ==
  ASSUME ControllerInv, NEW i \in 1..Newest,
         NEW state \in {"failed", "running", "closing", "closed"}
  PROVE  /\ To(i, state) \in Seq(Session) /\ Len(To(i, state)) = Newest
         /\ To(i, state)[i].state = state
         /\ \A j \in 1..Newest : /\ To(i, state)[j].window = sessions[j].window
                                 /\ To(i, state)[j].asked = sessions[j].asked
                                 /\ j # i => To(i, state)[j] = sessions[j]
         /\ History(To(i, state), lastTime)
  <1>1. sessions \in Seq(Session) /\ sessions[i] \in Session /\ i \in 1..Len(sessions)
    BY DEF ControllerInv, ControllerTypeOK, Newest
  <1> DEFINE s == [sessions[i] EXCEPT !.state = state]
  <1>2. /\ s \in Session /\ s.state = state /\ s.window = sessions[i].window
        /\ s.asked = sessions[i].asked
    BY <1>1 DEF Session
  <1>3. To(i, state) = [sessions EXCEPT ![i] = s]
    BY DEF To
  <1> HIDE DEF s
  <1>4. /\ To(i, state) \in Seq(Session) /\ Len(To(i, state)) = Newest
        /\ To(i, state)[i].state = state
        /\ \A j \in 1..Newest : /\ To(i, state)[j].window = sessions[j].window
                                /\ To(i, state)[j].asked = sessions[j].asked
                                /\ j # i => To(i, state)[j] = sessions[j]
    BY <1>1, <1>2, <1>3 DEF Newest
  <1> QED
    BY <1>4 DEF ControllerInv, History, Newest

\* The windows of the history stay what they are.
LEMMA SameWindows ==
  ASSUME NEW ss \in Seq(Session), NEW tt \in Seq(Session), Len(tt) = Len(ss),
         \A j \in 1..Len(ss) : tt[j].window = ss[j].window
  PROVE  /\ \A last : History(ss, last) => History(tt, last)
         /\ \A w : Served(ss, w) <=> Served(tt, w)
  BY DEF History, Served

LEMMA ControllerInitInv == ControllerInit => ControllerInv
  <1> SUFFICES ASSUME ControllerInit PROVE ControllerInv
    OBVIOUS
  <1>1. sessions \in Seq(Session) /\ Len(sessions) = 0 /\ Newest = 0
    BY DEF ControllerInit, Newest
  <1>2. ControllerTypeOK
    <2>1. active = 0 /\ active \in 0..Newest
      BY <1>1 DEF ControllerInit, NoSession
    <2> QED
      BY <1>1, <2>1 DEF ControllerInit, ControllerTypeOK, NoSession
  <1>3. History(sessions, lastTime)
    BY <1>1 DEF History
  <1>4. AtPlace
    BY <1>1 DEF ControllerInit, AtPlace, Owned, OthersOver, NoSession
  <1> QED
    BY <1>2, <1>3, <1>4 DEF ControllerInit, ControllerInv

----------------------------------------------------------------------------

Clock ==
  /\ lastTime \in Instants \cup {-1}
  /\ activeWindow \in Window \cup {NoWindow}
  /\ activeWindow = IF lastTime = -1 THEN NoWindow ELSE WindowAt(lastTime)

LEMMA ClockFacts == ControllerInv => Clock
  BY DEF ControllerInv, ControllerTypeOK, Clock

\* The end of run(), with the session i of ss to be stopped first.
LEMMA FinishStep ==
  ASSUME NEW ss \in Seq(Session), NEW i \in 0..Len(ss),
         Owned(ss, i), Finish(ss, i),
         Clock', History(ss, lastTime'), active' = i, closed' = TRUE
  PROVE  ControllerInv'
  <1>1. CASE i = NoSession
    <2>1. place' = "done" /\ pending' = NoWindow /\ sessions' = ss
      BY <1>1 DEF Finish, GoesTo
    <2>2. ControllerTypeOK'
      BY <1>1, <2>1 DEF Clock, ControllerTypeOK, Newest
    <2>3. AtPlace'
      BY <1>1, <2>1 DEF AtPlace
    <2> QED
      BY <2>1, <2>2, <2>3 DEF ControllerInv, Clock
  <1>2. CASE i # NoSession
    <2>1. place' = "finishing" /\ pending' = NoWindow /\ sessions' = Told(ss, i)
      BY <1>2 DEF Finish, GoesTo
    <2>2. /\ Told(ss, i) \in Seq(Session) /\ Len(Told(ss, i)) = Len(ss)
          /\ Told(ss, i)[i].asked
          /\ \A j \in 1..Len(ss) : /\ Told(ss, i)[j].window = ss[j].window
                                   /\ Told(ss, i)[j].state = ss[j].state
      BY <1>2, ToldFacts
    <2> DEFINE tt == Told(ss, i)
    <2> HIDE DEF tt
    <2>3. History(tt, lastTime') /\ i \in 1..Len(ss)
      BY <1>2, <2>2, SameWindows DEF tt, NoSession
    <2>4. Owned(tt, i) /\ tt[i].state \in {"running", "closing"}
      BY <1>2, <2>2, <2>3 DEF Owned, OthersOver, tt
    <2>5. ControllerTypeOK'
      BY <1>2, <2>1, <2>2, <2>3, <2>4 DEF Clock, ControllerTypeOK, Newest, tt
    <2>6. AtPlace'
      BY <1>2, <2>1, <2>2, <2>4 DEF AtPlace, tt
    <2> QED
      BY <2>1, <2>3, <2>5, <2>6 DEF ControllerInv, Clock, tt
  <1> QED
    BY <1>1, <1>2

\* The end of an iteration that leaves the session i of ss, if any.
LEMMA TurnStep ==
  ASSUME NEW ss \in Seq(Session), NEW i \in 0..Len(ss),
         Owned(ss, i), Turn(ss, i), closed \in BOOLEAN,
         Clock', History(ss, lastTime'), active' = i, closed' = closed,
         ~closed => /\ i # NoSession => ss[i].window = activeWindow'
                    /\ activeWindow' # NoWindow => Served(ss, activeWindow')
  PROVE  ControllerInv'
  <1>1. CASE closed
    BY <1>1, FinishStep DEF Turn
  <1>2. CASE ~closed
    <2>1. place' = "waiting" /\ pending' = NoWindow /\ sessions' = ss
      BY <1>2 DEF Turn, GoesTo
    <2>2. ControllerTypeOK'
      BY <2>1 DEF Clock, ControllerTypeOK, Newest, Owned
    <2>3. AtPlace'
      BY <1>2, <2>1 DEF AtPlace
    <2> QED
      BY <2>1, <2>2, <2>3 DEF ControllerInv, Clock
  <1> QED
    BY <1>1, <1>2

\* The start intent for the open window, when no session is there.
LEMMA StartStep ==
  ASSUME NEW ss \in Seq(Session), NEW w,
         Owned(ss, NoSession), Start(w, ss, NoSession), closed \in BOOLEAN,
         Clock', History(ss, lastTime'), active' = NoSession, closed' = closed,
         w = activeWindow', w # NoWindow => ~Served(ss, w)
  PROVE  ControllerInv'
  <1>1. NoSession \in 0..Len(ss)
    BY DEF NoSession
  <1>2. CASE w = NoWindow \/ closed
    <2>1. Turn(ss, NoSession)
      BY <1>2 DEF Start
    <2> QED
      BY <1>1, <1>2, <2>1, TurnStep
  <1>3. CASE w # NoWindow /\ ~closed
    <2> DEFINE s  == [window |-> w, state |-> "starting", asked |-> FALSE]
               tt == Append(ss, s)
    <2>1. place' = "creating" /\ pending' = NoWindow /\ sessions' = tt
      BY <1>3 DEF Start, GoesTo
    <2>2. s \in Session /\ s.window = w /\ s.state = "starting"
      BY <1>3 DEF Clock, Session
    <2> HIDE DEF s
    <2>3. /\ tt \in Seq(Session) /\ Len(tt) = Len(ss) + 1 /\ Len(ss) \in Nat
          /\ tt[Len(ss) + 1] = s
          /\ \A j \in 1..Len(ss) : tt[j] = ss[j]
      BY <2>2
    <2> HIDE DEF tt
    <2>4. Shown(w, lastTime')
      <3>1. lastTime' # -1 /\ w = WindowAt(lastTime')
        BY <1>3 DEF Clock
      <3>2. lastTime' \in Instants /\ lastTime' <= lastTime'
        BY <3>1, ControllerAssumption DEF Clock, ControllerAssumption
      <3> QED
        BY <3>1, <3>2 DEF Shown
    <2>5. History(tt, lastTime')
      <3>1. \A j \in 1..Len(tt) : j \in 1..Len(ss) \/ j = Len(ss) + 1
        BY <2>3
      <3>2. \A j \in 1..Len(ss) : ss[j].window # w
        BY <1>3 DEF Served
      <3>3. \A j \in 1..Len(tt) : Shown(tt[j].window, lastTime')
        BY <2>2, <2>3, <2>4, <3>1 DEF History
      <3>4. \A i, j \in 1..Len(tt) : tt[i].window = tt[j].window => i = j
        BY <2>2, <2>3, <3>1, <3>2 DEF History
      <3> QED
        BY <2>3, <3>3, <3>4 DEF History
    <2>6. OthersOver(tt)
      BY <2>3 DEF Owned, OthersOver, NoSession
    <2>7. ControllerTypeOK'
      BY <1>3, <2>1, <2>3 DEF Clock, ControllerTypeOK, Newest, NoSession
    <2>8. AtPlace'
      BY <2>1, <2>2, <2>3, <2>6 DEF AtPlace, Pending, Newest
    <2> QED
      BY <2>1, <2>5, <2>7, <2>8 DEF ControllerInv, Clock
  <1> QED
    BY <1>2, <1>3

----------------------------------------------------------------------------

LEMMA ControllerPollStep ==
  ASSUME ControllerInv, NEW t \in Instants, Poll(t)
  PROVE  ControllerInv'
  <1>1. /\ place = "waiting" /\ ~closed /\ closed \in BOOLEAN
        /\ sessions \in Seq(Session) /\ active \in 0..Len(sessions)
        /\ Owned(sessions, active)
        /\ active # NoSession => sessions[active].window = activeWindow
        /\ activeWindow # NoWindow => Served(sessions, activeWindow)
        /\ UNCHANGED <<closed, active>>
        /\ Evaluated(t)
    BY DEF Poll, ControllerInv, ControllerTypeOK, AtPlace, Newest
  <1>2. t \in Int /\ lastTime \in Int /\ t >= 0
    BY ControllerAssumption DEF ControllerAssumption, ControllerInv, ControllerTypeOK
  <1>3. CASE Outdated(t) \/ activeWindow = WindowAt(t)
    <2>1. StopIntent(t) = NoWindow /\ StartIntent(t) = NoWindow
      BY <1>3 DEF StopIntent, StartIntent
    <2>2. Turn(sessions, active)
      BY <2>1 DEF Poll, Start
    <2>3. Clock' /\ activeWindow' = activeWindow
      BY <1>1, <1>2, <1>3, ClockFacts DEF Evaluated, Clock
    <2>4. History(sessions, lastTime')
      <3>1. lastTime' \in Int /\ lastTime <= lastTime'
        BY <1>1, <1>2 DEF Evaluated, Outdated
      <3>2. \A s \in Instants : s <= lastTime => s <= lastTime'
        BY <1>2, <3>1, ControllerAssumption DEF ControllerAssumption
      <3> QED
        BY <3>2 DEF ControllerInv, History, Shown
    <2> QED
      BY <1>1, <2>2, <2>3, <2>4, TurnStep
  <1>4. CASE ~(Outdated(t) \/ activeWindow = WindowAt(t))
    <2> DEFINE w == WindowAt(t)
    <2>1. /\ lastTime' = t /\ activeWindow' = w
          /\ StopIntent(t) = activeWindow /\ StartIntent(t) = w
          /\ ~Outdated(t) /\ w # activeWindow
      BY <1>1, <1>4 DEF Evaluated, StopIntent, StartIntent
    <2>2. Clock' /\ w \in Window \cup {NoWindow}
      BY <1>2, <2>1, WindowFacts DEF Clock
    <2>3. History(sessions, lastTime')
      <3>1. \A s \in Instants : s <= lastTime => s <= t
        BY <1>2, <2>1, ControllerAssumption DEF ControllerAssumption, Outdated
      <3> QED
        BY <2>1, <3>1 DEF ControllerInv, History, Shown
    <2>4. w # NoWindow => ~Served(sessions, w)
      BY <2>1, OpensAnew DEF ControllerInv, History, Served
    <2> HIDE DEF w
    <2>5. CASE active = NoSession
      <3>1. Start(w, sessions, NoSession)
        BY <2>1, <2>5 DEF Poll
      <3> QED
        BY <1>1, <2>1, <2>2, <2>3, <2>4, <2>5, <3>1, StartStep
    <2>6. CASE active # NoSession
      <3>1. active \in 1..Len(sessions) /\ sessions[active] \in Session
        BY <1>1, <2>6 DEF NoSession
      <3>2. activeWindow # NoWindow
        BY <1>1, <2>6, <3>1, WindowFacts, <1>2 DEF Session
      <3>3. /\ place' = "stopping" /\ sessions' = Told(sessions, active)
            /\ pending' = w
        BY <1>1, <2>1, <2>6, <3>2 DEF Poll
      <3> DEFINE tt == Told(sessions, active)
      <3>4. /\ tt \in Seq(Session) /\ Len(tt) = Len(sessions) /\ tt[active].asked
            /\ \A j \in 1..Len(sessions) : /\ tt[j].window = sessions[j].window
                                           /\ tt[j].state = sessions[j].state
        BY <1>1, <2>6, ToldFacts
      <3> HIDE DEF tt
      <3>5. History(tt, lastTime') /\ (Served(tt, w) => Served(sessions, w))
        BY <1>1, <2>3, <3>4, SameWindows
      <3>6. Owned(tt, active) /\ tt[active].state \in {"running", "closing"}
        BY <1>1, <2>6, <3>1, <3>4 DEF Owned, OthersOver
      <3>7. ControllerTypeOK'
        BY <1>1, <2>2, <3>1, <3>3, <3>4, <3>6
           DEF Clock, ControllerTypeOK, Newest, tt
      <3>8. AtPlace'
        BY <1>1, <2>1, <2>4, <2>6, <3>3, <3>4, <3>5, <3>6 DEF AtPlace, tt
      <3> QED
        BY <2>2, <3>3, <3>5, <3>7, <3>8 DEF ControllerInv, Clock, tt
    <2> QED
      BY <2>5, <2>6
  <1> QED
    BY <1>3, <1>4

LEMMA CreatedStep ==
  ASSUME ControllerInv, Created
  PROVE  ControllerInv'
  <1>1. /\ place = "creating" /\ active = NoSession /\ closed \in BOOLEAN
        /\ Newest \in 1..Newest /\ Newest = Len(sessions)
        /\ OthersOver(sessions) /\ sessions[Newest].window = activeWindow
        /\ UNCHANGED <<lastTime, activeWindow, closed>>
    BY DEF Created, ControllerInv, ControllerTypeOK, AtPlace, Pending, Newest
  <1>2. Clock' /\ ControllerTypeOK
    BY <1>1, ClockFacts DEF Clock, ControllerInv
  <1>3. CASE closed
    <2> DEFINE tt == To(Newest, "closing")
    <2>1. /\ place' = "discarding" /\ pending' = NoWindow /\ sessions' = tt
          /\ active' = NoSession
      BY <1>1, <1>3 DEF Created, Discarded, GoesTo
    <2>2. /\ tt \in Seq(Session) /\ Len(tt) = Newest /\ tt[Newest].state = "closing"
          /\ \A j \in 1..Newest : j # Newest => tt[j] = sessions[j]
          /\ History(tt, lastTime)
      BY <1>1, ToFacts
    <2> HIDE DEF tt
    <2>3. OthersOver(tt) /\ tt # <<>>
      BY <1>1, <2>2 DEF OthersOver
    <2>4. ControllerTypeOK' /\ AtPlace'
      BY <1>1, <1>2, <1>3, <2>1, <2>2, <2>3
         DEF Clock, ControllerTypeOK, Newest, NoSession, AtPlace, Pending
    <2> QED
      BY <1>1, <1>2, <2>1, <2>2, <2>4 DEF ControllerInv, Clock
  <1>4. CASE ~closed
    <2> DEFINE tt == To(Newest, "running")
    <2>1. active' = Newest /\ Turn(tt, Newest)
      BY <1>1, <1>4 DEF Created, Discarded
    <2>2. /\ tt \in Seq(Session) /\ Len(tt) = Newest /\ tt[Newest].state = "running"
          /\ tt[Newest].window = activeWindow
          /\ \A j \in 1..Newest : j # Newest => tt[j] = sessions[j]
          /\ History(tt, lastTime)
      BY <1>1, ToFacts
    <2> HIDE DEF tt
    <2>3. Owned(tt, Newest) /\ Served(tt, activeWindow)
      BY <1>1, <2>2 DEF Owned, OthersOver, NoSession, Served
    <2> DEFINE n == Newest
    <2> HIDE DEF n
    <2>4. /\ n \in 0..Len(tt) /\ active' = n /\ Turn(tt, n) /\ Owned(tt, n)
          /\ tt[n].window = activeWindow'
      BY <1>1, <2>1, <2>2, <2>3 DEF n
    <2> QED
      BY <1>1, <1>2, <2>2, <2>3, <2>4, TurnStep
  <1> QED
    BY <1>1, <1>3, <1>4

LEMMA CreateFailsStep ==
  ASSUME ControllerInv, CreateFails
  PROVE  ControllerInv'
  <1>1. /\ place = "creating" /\ active = NoSession /\ closed \in BOOLEAN
        /\ Newest \in 1..Newest /\ Newest = Len(sessions)
        /\ OthersOver(sessions) /\ sessions[Newest].window = activeWindow
        /\ UNCHANGED <<lastTime, activeWindow, closed, active>>
    BY DEF CreateFails, ControllerInv, ControllerTypeOK, AtPlace, Pending, Newest
  <1>2. Clock'
    BY <1>1, ClockFacts DEF Clock
  <1> DEFINE tt == To(Newest, "failed")
  <1>3. Turn(tt, NoSession)
    BY <1>1 DEF CreateFails
  <1>4. /\ tt \in Seq(Session) /\ Len(tt) = Newest /\ tt[Newest].state = "failed"
        /\ tt[Newest].window = activeWindow
        /\ \A j \in 1..Newest : j # Newest => tt[j] = sessions[j]
        /\ History(tt, lastTime)
    BY <1>1, ToFacts
  <1> HIDE DEF tt
  <1>5. Owned(tt, NoSession) /\ Served(tt, activeWindow) /\ NoSession \in 0..Len(tt)
    <2>1. \A j \in 1..Len(tt) : tt[j].state \in {"failed", "closed"}
      <3> SUFFICES ASSUME NEW j \in 1..Len(tt), j # Newest
                   PROVE  tt[j].state \in {"failed", "closed"}
        BY <1>4
      <3>1. tt[j] = sessions[j] /\ j \in 1..Len(sessions) /\ tt[j] \in Session
        BY <1>1, <1>4
      <3> QED
        BY <1>1, <3>1 DEF OthersOver, Session
    <2> QED
      BY <1>1, <1>4, <2>1 DEF Owned, OthersOver, NoSession, Served
  <1> QED
    BY <1>1, <1>2, <1>3, <1>4, <1>5, TurnStep

\* The session that is there, if it is not being created, is the active one.
LEMMA PresentFacts ==
  ASSUME ControllerInv, NEW i \in 1..Newest,
         sessions[i].state \in {"running", "closing"}
  PROVE  /\ i = Newest
         /\ \/ place \in {"waiting", "stopping", "finishing"} /\ i = active
            \/ /\ place = "discarding" /\ active = NoSession /\ closed
               /\ sessions[i].state = "closing"
  <1>1. place \in {"waiting", "creating", "discarding", "stopping", "finishing", "done"}
    BY DEF ControllerInv, ControllerTypeOK
  <1>2. CASE place \in {"waiting", "stopping", "finishing", "done"}
    <2>1. Owned(sessions, active) /\ (place = "done" => active = NoSession)
      BY <1>2 DEF ControllerInv, AtPlace
    <2> QED
      BY <1>2, <2>1 DEF Owned, OthersOver, Newest
  <1>3. CASE place \in {"creating", "discarding"}
    <2>1. /\ OthersOver(sessions) /\ active = NoSession
          /\ place = "creating" => sessions[Newest].state = "starting"
          /\ place = "discarding" => closed
      BY <1>3 DEF ControllerInv, AtPlace, Pending
    <2>2. i = Newest
      BY <2>1 DEF OthersOver, Newest
    <2>3. place = "discarding" => sessions[Newest].state = "closing"
      BY DEF ControllerInv, AtPlace, Pending
    <2> QED
      BY <1>3, <2>1, <2>2, <2>3
  <1> QED
    BY <1>1, <1>2, <1>3

LEMMA SessionEndsStep ==
  ASSUME ControllerInv, NEW i \in 1..Newest, SessionEnds(i)
  PROVE  ControllerInv'
  <1> DEFINE tt == To(i, "closing")
  <1>1. /\ active' = active /\ sessions' = tt
        /\ UNCHANGED <<lastTime, activeWindow, closed, place, pending>>
    BY DEF SessionEnds, Moved, Remaining, Awaited
  <1>2. /\ i = Newest /\ i = active /\ place \in {"waiting", "stopping", "finishing"}
        /\ Newest = Len(sessions)
    BY PresentFacts DEF SessionEnds, Newest
  <1>3. /\ tt \in Seq(Session) /\ Len(tt) = Newest /\ tt[i].state = "closing"
        /\ \A j \in 1..Newest : /\ tt[j].window = sessions[j].window
                                /\ tt[j].asked = sessions[j].asked
                                /\ j # i => tt[j] = sessions[j]
        /\ History(tt, lastTime)
    BY ToFacts
  <1>4. sessions \in Seq(Session) /\ i # NoSession
    BY DEF ControllerInv, ControllerTypeOK, NoSession
  <1> HIDE DEF tt
  <1>5. \A w : Served(tt, w) <=> Served(sessions, w)
    BY <1>2, <1>3, <1>4, SameWindows
  <1>6. Owned(sessions, active)
    BY <1>2 DEF ControllerInv, AtPlace
  <1>7. Owned(tt, active)
    BY <1>2, <1>3, <1>4, <1>6 DEF Owned, OthersOver
  <1>8. ControllerTypeOK'
    BY <1>1, <1>2, <1>3 DEF ControllerInv, ControllerTypeOK, Newest
  <1>9. AtPlace'
    BY <1>1, <1>2, <1>3, <1>5, <1>7 DEF ControllerInv, AtPlace
  <1> QED
    BY <1>1, <1>3, <1>8, <1>9 DEF ControllerInv

LEMMA SessionClosesStep ==
  ASSUME ControllerInv, NEW i \in 1..Newest, SessionCloses(i)
  PROVE  ControllerInv'
  <1> DEFINE tt == To(i, "closed")
  <1>1. /\ active' = Remaining(i, "closed") /\ Resumed(tt, active')
        /\ UNCHANGED <<lastTime, activeWindow, closed>>
        /\ sessions[i].state = "closing"
    BY DEF SessionCloses, Moved, Awaited
  <1>2. /\ i = Newest /\ Newest = Len(sessions) /\ i # NoSession
        /\ \/ place \in {"waiting", "stopping", "finishing"} /\ i = active
           \/ place = "discarding" /\ active = NoSession /\ closed
    BY <1>1, PresentFacts DEF Newest, NoSession
  <1>3. active' = NoSession
    BY <1>1, <1>2 DEF Remaining, Awaited
  <1>4. /\ tt \in Seq(Session) /\ Len(tt) = Newest /\ tt[i].state = "closed"
        /\ \A j \in 1..Newest : /\ tt[j].window = sessions[j].window
                                /\ j # i => tt[j] = sessions[j]
        /\ History(tt, lastTime)
    BY ToFacts
  <1>5. sessions \in Seq(Session) /\ closed \in BOOLEAN /\ ControllerTypeOK
    BY DEF ControllerInv, ControllerTypeOK
  <1> HIDE DEF tt
  <1>6. \A w : Served(tt, w) <=> Served(sessions, w)
    BY <1>2, <1>4, <1>5, SameWindows
  <1>7. OthersOver(sessions)
    BY <1>2 DEF ControllerInv, AtPlace, Owned, Pending
  <1>8. Owned(tt, NoSession) /\ NoSession \in 0..Len(tt)
    <2>1. \A j \in 1..Len(tt) : tt[j].state \in {"failed", "closed"}
      <3> SUFFICES ASSUME NEW j \in 1..Len(tt), j # i
                   PROVE  tt[j].state \in {"failed", "closed"}
        BY <1>4
      <3>1. tt[j] = sessions[j] /\ j \in 1..Len(sessions) /\ tt[j] \in Session
        BY <1>2, <1>4
      <3> QED
        BY <1>2, <1>7, <3>1 DEF OthersOver, Session
    <2> QED
      BY <1>2, <1>4, <2>1 DEF Owned, OthersOver, NoSession
  <1>9. Clock'
    BY <1>1, ClockFacts DEF Clock
  <1>10. CASE place = "stopping"
    <2>1. Start(pending, tt, NoSession)
      BY <1>1, <1>3, <1>10 DEF Resumed
    <2>2. pending = activeWindow' /\ (pending # NoWindow => ~Served(tt, pending))
      BY <1>1, <1>6, <1>10 DEF ControllerInv, AtPlace
    <2> QED
      BY <1>1, <1>3, <1>4, <1>5, <1>8, <1>9, <2>1, <2>2, StartStep
  <1>11. CASE place = "finishing"
    <2>1. place' = "done" /\ pending' = NoWindow /\ sessions' = tt /\ closed
      BY <1>1, <1>11 DEF Resumed, GoesTo, ControllerInv, AtPlace
    <2>2. ControllerTypeOK'
      BY <1>1, <1>3, <1>4, <1>5, <1>8, <1>9, <2>1 DEF Clock, ControllerTypeOK, Newest
    <2>3. AtPlace'
      BY <1>1, <1>3, <1>8, <2>1 DEF AtPlace
    <2> QED
      BY <1>1, <1>4, <1>9, <2>1, <2>2, <2>3 DEF ControllerInv, Clock
  <1>12. CASE place = "discarding"
    <2>1. Finish(tt, NoSession) /\ closed' = TRUE
      BY <1>1, <1>2, <1>3, <1>5, <1>12 DEF Resumed
    <2> QED
      BY <1>1, <1>3, <1>4, <1>8, <1>9, <2>1, FinishStep
  <1>13. CASE place = "waiting"
    <2>1. sessions' = tt /\ UNCHANGED <<place, pending>>
      BY <1>1, <1>13 DEF Resumed
    <2>2. ControllerTypeOK'
      BY <1>1, <1>3, <1>4, <1>5, <1>8, <2>1 DEF ControllerTypeOK, Newest
    <2>3. AtPlace'
      BY <1>1, <1>3, <1>6, <1>8, <1>13, <2>1 DEF ControllerInv, AtPlace
    <2> QED
      BY <1>1, <1>4, <2>1, <2>2, <2>3 DEF ControllerInv
  <1> QED
    BY <1>2, <1>10, <1>11, <1>12, <1>13

LEMMA StopControllerStep ==
  ASSUME ControllerInv, StopController
  PROVE  ControllerInv'
  <1>1. /\ ~closed /\ closed' = TRUE
        /\ UNCHANGED <<lastTime, activeWindow, active>>
        /\ sessions \in Seq(Session) /\ active \in 0..Len(sessions)
        /\ History(sessions, lastTime) /\ ControllerTypeOK
    BY DEF StopController, ControllerInv, ControllerTypeOK, Newest
  <1>2. Clock'
    BY <1>1, ClockFacts DEF Clock
  <1>3. CASE place = "waiting"
    <2>1. Finish(sessions, active) /\ Owned(sessions, active)
      BY <1>3 DEF StopController, ControllerInv, AtPlace
    <2> QED
      BY <1>1, <1>2, <2>1, FinishStep
  <1>4. CASE place # "waiting"
    <2> DEFINE tt == Told(sessions, active)
    <2>1. sessions' = tt /\ UNCHANGED <<place, pending>>
      BY <1>4 DEF StopController
    <2>2. /\ tt \in Seq(Session) /\ Len(tt) = Len(sessions)
          /\ active # NoSession => tt[active].asked
          /\ \A j \in 1..Len(sessions) : /\ tt[j].window = sessions[j].window
                                         /\ tt[j].state = sessions[j].state
      BY <1>1, ToldFacts
    <2> HIDE DEF tt
    <2>3. /\ History(tt, lastTime) /\ \A w : Served(tt, w) <=> Served(sessions, w)
      BY <1>1, <2>2, SameWindows
    <2>4. /\ OthersOver(sessions) => OthersOver(tt)
          /\ Owned(sessions, active) => Owned(tt, active)
      BY <1>1, <2>2 DEF Owned, OthersOver, NoSession
    <2>5. ControllerTypeOK'
      BY <1>1, <2>1, <2>2 DEF ControllerTypeOK, Newest, NoSession
    <2>6. sessions # <<>> => Newest \in 1..Len(sessions) /\ tt # <<>> /\ Len(tt) = Newest
      BY <1>1, <2>2 DEF Newest
    <2>7. AtPlace'
      BY <1>1, <1>4, <2>1, <2>2, <2>3, <2>4, <2>6
         DEF ControllerInv, AtPlace, Pending, Newest
    <2> QED
      BY <1>1, <2>1, <2>3, <2>5, <2>7 DEF ControllerInv
  <1> QED
    BY <1>3, <1>4

LEMMA ControllerNextInv ==
  ControllerInv /\ [ControllerNext]_controllerVars => ControllerInv'
  <1> SUFFICES ASSUME ControllerInv, [ControllerNext]_controllerVars
               PROVE  ControllerInv'
    OBVIOUS
  <1>1. CASE \E t \in Instants : Poll(t)
    BY <1>1, ControllerPollStep
  <1>2. CASE Created \/ CreateFails \/ StopController
    BY <1>2, CreatedStep, CreateFailsStep, StopControllerStep
  <1>3. CASE \E i \in 1..Newest : SessionEnds(i) \/ SessionCloses(i)
    BY <1>3, SessionEndsStep, SessionClosesStep
  <1>4. CASE UNCHANGED controllerVars
    BY <1>4 DEF controllerVars, ControllerInv, ControllerTypeOK, History, AtPlace,
       Owned, OthersOver, Pending, Served, Newest
  <1> QED
    BY <1>1, <1>2, <1>3, <1>4 DEF ControllerNext

\* Whatever the clock shows and whatever the sessions do, at most the last one is
\* there, it is where run() looks for it, and every window had at most its own.
THEOREM ControllerInvariance == ControllerSpec => []ControllerInv
  BY ControllerInitInv, ControllerNextInv, PTL DEF ControllerSpec

\* A session is created only when every earlier one is closed, and run() returns
\* only when all of them are.
THEOREM SessionsAreExclusive == ControllerSpec => []OneSession
  <1>1. ASSUME ControllerInv, NEW i \in 1..Newest, Present(i)
        PROVE  i = Newest /\ place # "done"
    <2>1. OthersOver(sessions)
      BY <1>1 DEF ControllerInv, ControllerTypeOK, AtPlace, Owned, Pending
    <2>2. place = "done" => sessions[i].state \in {"failed", "closed"}
      BY <1>1 DEF ControllerInv, AtPlace, Owned, Newest
    <2> QED
      BY <1>1, <2>1, <2>2 DEF Present, OthersOver, Newest
  <1>2. ControllerInv => OneSession
    BY <1>1 DEF OneSession
  <1> QED
    BY <1>2, ControllerInvariance, PTL

\* No window gets a second session, however the clock moves, and between two
\* polls the open window has had its own.
THEOREM WindowsAreServedOnce == ControllerSpec => []WindowsServedOnce
  <1>1. ControllerInv => WindowsServedOnce
    BY DEF ControllerInv, History, AtPlace, Served, Newest, WindowsServedOnce
  <1> QED
    BY <1>1, ControllerInvariance, PTL

\* Only a session that was told to stop outlives its window.
THEOREM SessionsKeepToWindows == ControllerSpec => []RunsInItsWindow
  <1>1. ASSUME ControllerInv, NEW i \in 1..Newest, sessions[i].state = "running",
               ~sessions[i].asked
        PROVE  i = active /\ sessions[i].window = activeWindow
    <2>1. i = active /\ place \in {"waiting", "stopping", "finishing"}
      BY <1>1, PresentFacts
    <2>2. place = "waiting" /\ active # NoSession
      BY <1>1, <2>1 DEF ControllerInv, AtPlace, NoSession
    <2> QED
      BY <1>1, <2>1, <2>2 DEF ControllerInv, AtPlace
  <1>2. ControllerInv => RunsInItsWindow
    BY <1>1 DEF RunsInItsWindow
  <1> QED
    BY <1>2, ControllerInvariance, PTL

\* After the signal no session begins to run.
THEOREM NothingStartsAfterSignal == ControllerSpec => NothingStartsAfterStop
  <1> DEFINE Quiet == closed => \A i \in 1..Newest :
                        sessions'[i].state = "running" => sessions[i].state = "running"
  <1>1. ASSUME ControllerInv, [ControllerNext]_controllerVars, closed,
               NEW i \in 1..Newest, sessions'[i].state = "running"
        PROVE  sessions[i].state = "running"
    <2>1. /\ sessions \in Seq(Session) /\ active \in 0..Len(sessions)
          /\ Newest = Len(sessions) /\ i \in 1..Len(sessions)
      BY <1>1 DEF ControllerInv, ControllerTypeOK, Newest
    <2>2. CASE Created
      <3>1. sessions' = To(Newest, "closing") /\ Newest \in 1..Newest
        BY <1>1, <2>1, <2>2 DEF Created, Discarded, GoesTo
      <3> QED
        BY <1>1, <2>1, <3>1, ToFacts
    <2>3. CASE CreateFails
      <3>1. /\ sessions' = To(Newest, "failed") /\ Newest \in 1..Newest
        BY <1>1, <2>1, <2>3 DEF CreateFails, Turn, Finish, GoesTo, ControllerInv,
           AtPlace, Pending
      <3> QED
        BY <1>1, <2>1, <3>1, ToFacts
    <2>4. ASSUME NEW t \in Instants, Poll(t)
          PROVE  FALSE
      BY <1>1, <2>4 DEF Poll, ControllerInv, AtPlace
    <2>5. ASSUME NEW j \in 1..Newest, SessionEnds(j)
          PROVE  sessions[i].state = "running"
      <3>1. sessions' = To(j, "closing")
        BY <2>5 DEF SessionEnds, Moved, Awaited
      <3> QED
        BY <1>1, <2>1, <3>1, ToFacts
    <2>6. ASSUME NEW j \in 1..Newest, SessionCloses(j)
          PROVE  sessions[i].state = "running"
      <3>1. active' = NoSession
        BY <1>1, <2>6, PresentFacts DEF SessionCloses, Moved, Remaining, Awaited
      <3>2. Resumed(To(j, "closed"), NoSession)
        BY <2>6, <3>1 DEF SessionCloses, Moved, Awaited
      <3>3. sessions' = To(j, "closed")
        BY <1>1, <3>2 DEF Resumed, Start, Turn, Finish, GoesTo
      <3> QED
        BY <1>1, <2>1, <3>3, ToFacts
    <2>7. CASE UNCHANGED controllerVars
      BY <1>1, <2>7 DEF controllerVars
    <2>8. ~StopController
      BY <1>1 DEF StopController
    <2> QED
      BY <1>1, <2>2, <2>3, <2>4, <2>5, <2>6, <2>7, <2>8 DEF ControllerNext
  <1>2. ControllerInv /\ [ControllerNext]_controllerVars => [Quiet]_controllerVars
    BY <1>1
  <1> QED
    BY <1>2, ControllerInvariance, PTL DEF ControllerSpec, NothingStartsAfterStop

\* How much is left of run() after a signal: a session that is still being
\* created, one that still runs, one that is being closed.
SignalLeft ==
  IF place = "done" THEN 0
  ELSE IF place = "creating" THEN 2
  ELSE IF place = "discarding" THEN 1
  ELSE IF sessions[active].state = "running" THEN 2
  ELSE 1

\* What the controller waits for.
SessionMoves ==
  Created \/ CreateFails \/ \E i \in 1..Newest : SessionEnds(i) \/ SessionCloses(i)

SignalAdvances ==
  closed =>
    /\ place \in {"stopping", "finishing"} =>
         active # NoSession /\ sessions[active].asked
    /\ place # "done" <=> SignalLeft > 0
    /\ SessionMoves => SignalLeft' < SignalLeft
    /\ SignalLeft' <= SignalLeft

\* The only session that can end or close, by where run() awaits.
LEMMA MovingSession ==
  ASSUME ControllerInv, closed, NEW i \in 1..Newest,
         sessions[i].state \in {"running", "closing"}
  PROVE  /\ place \in {"discarding", "stopping", "finishing"}
         /\ place = "discarding" => i = Newest /\ sessions[i].state = "closing"
         /\ place \in {"stopping", "finishing"} => i = active
  <1>1. /\ Newest \in Nat /\ sessions[i].state # "starting"
        /\ sessions[i].state \notin {"failed", "closed"}
        /\ place \in {"waiting", "creating", "discarding", "stopping", "finishing", "done"}
    BY DEF ControllerInv, ControllerTypeOK, Newest
  <1>2. OthersOver(sessions) => i = Newest
    BY DEF OthersOver, Newest
  <1>3. place # "waiting" /\ place # "done"
    BY <1>1 DEF ControllerInv, AtPlace, Owned, Newest
  <1>4. place # "creating" /\ (place = "discarding" => i = Newest /\ sessions[i].state = "closing")
    BY <1>1, <1>2 DEF ControllerInv, AtPlace, Pending
  <1>5. place \in {"stopping", "finishing"} => i = active
    BY <1>2 DEF ControllerInv, AtPlace, Owned, Newest
  <1> QED
    BY <1>1, <1>3, <1>4, <1>5

LEMMA SignalOnlyAdvances ==
  ASSUME ControllerInv, [ControllerNext]_controllerVars
  PROVE  SignalAdvances
  <1> SUFFICES ASSUME closed
               PROVE  /\ place \in {"stopping", "finishing"} =>
                           active # NoSession /\ sessions[active].asked
                      /\ place # "done" <=> SignalLeft > 0
                      /\ SessionMoves => SignalLeft' < SignalLeft
                      /\ SignalLeft' <= SignalLeft
    BY DEF SignalAdvances
  <1>1. place \in {"stopping", "finishing"} => active # NoSession /\ sessions[active].asked
    BY DEF ControllerInv, AtPlace
  <1>2. SignalLeft \in 0..2 /\ SignalLeft' \in 0..2 /\ (place # "done" <=> SignalLeft > 0)
    BY DEF SignalLeft
  <1>3. /\ sessions \in Seq(Session) /\ Newest = Len(sessions) /\ Newest \in Nat
        /\ place # "waiting"
        /\ place = "creating" => active = NoSession /\ sessions # <<>>
        /\ place = "discarding" => active = NoSession
    BY DEF ControllerInv, ControllerTypeOK, AtPlace, Pending, Newest
  <1>4. Created \/ CreateFails => SignalLeft' < SignalLeft
    <2>1. CASE Created
      <3>1. place = "creating" /\ place' = "discarding"
        BY <2>1 DEF Created, Discarded, GoesTo
      <3> QED
        BY <3>1 DEF SignalLeft
    <2>2. CASE CreateFails
      <3>1. place = "creating" /\ place' = "done"
        BY <1>3, <2>2 DEF CreateFails, Turn, Finish, GoesTo
      <3> QED
        BY <3>1 DEF SignalLeft
    <2> QED
      BY <2>1, <2>2
  <1>5. ASSUME NEW i \in 1..Newest, SessionEnds(i)
        PROVE  SignalLeft' < SignalLeft
    <2>1. sessions[i].state = "running"
      BY <1>5 DEF SessionEnds
    <2>2. place \in {"stopping", "finishing"} /\ i = active
      BY <2>1, MovingSession
    <2>3. sessions' = To(i, "closing") /\ active' = active /\ place' = place
      BY <1>5 DEF SessionEnds, Moved, Remaining, Awaited
    <2>4. sessions'[active].state = "closing"
      BY <1>3, <2>2, <2>3 DEF To, Session
    <2> QED
      BY <2>1, <2>2, <2>3, <2>4 DEF SignalLeft
  <1>6. ASSUME NEW i \in 1..Newest, SessionCloses(i)
        PROVE  SignalLeft' < SignalLeft
    <2>1. sessions[i].state = "closing"
      BY <1>6 DEF SessionCloses
    <2>2. /\ place \in {"discarding", "stopping", "finishing"}
          /\ place \in {"stopping", "finishing"} => i = active
      BY <2>1, MovingSession
    <2>3. active' = NoSession
      BY <1>3, <1>6, <2>2 DEF SessionCloses, Moved, Remaining, Awaited
    <2>4. Resumed(To(i, "closed"), NoSession)
      BY <1>6, <2>3 DEF SessionCloses, Moved, Awaited
    <2>5. place' = "done"
      BY <2>2, <2>4 DEF Resumed, Start, Turn, Finish, GoesTo, NoSession
    <2> QED
      BY <2>2, <2>5, <2>1 DEF SignalLeft
  <1>7. SessionMoves => SignalLeft' < SignalLeft
    BY <1>4, <1>5, <1>6 DEF SessionMoves
  <1>8. SessionMoves \/ UNCHANGED controllerVars
    BY <1>3 DEF ControllerNext, Poll, StopController, SessionMoves
  <1>9. UNCHANGED controllerVars => SignalLeft' = SignalLeft
    BY DEF controllerVars, SignalLeft
  <1> QED
    BY <1>1, <1>2, <1>7, <1>8, <1>9

\* After a signal run() is not asleep, waits only for a session that was told to
\* stop or came too late, and returns after two steps of that session at most.
THEOREM SignalsEndRun == ControllerSpec => [][SignalAdvances]_controllerVars
  <1>1. ControllerInv /\ [ControllerNext]_controllerVars
          => [SignalAdvances]_controllerVars
    BY SignalOnlyAdvances
  <1> QED
    BY <1>1, ControllerInvariance, PTL DEF ControllerSpec

==============================================================================
