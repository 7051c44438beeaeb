------------------------- MODULE RuntimeSupervisor -------------------------
(***************************************************************************)
(* RuntimeSupervisor.run(): connection attempts with a bounded number of   *)
(* retries, each ended by the first of its events, by a timeout, by a      *)
(* detected player or by requestStop; and what they make of the snapshot.  *)
(*                                                                         *)
(* A callback and the continuations it resolves are one step: run() waits  *)
(* only for the end of an attempt and for the delay between two attempts,  *)
(* and a settled promise is resumed before the next callback.              *)
(***************************************************************************)
EXTENDS StateCommands

CONSTANTS
  Players,      \* ids in the server's player list
  Self,         \* the one that carries the BOT's name
  MaxRetries,
  Reports       \* the telemetry the server may send

ASSUME SupervisorAssumption ==
  /\ Self \in Players
  /\ MaxRetries \in Nat
  /\ Reports \subseteq Telemetry

VARIABLES
  snapshot,     \* the state store
  pc,           \* where run() waits: "loop" (next iteration), "attempt",
                \* "waiting" (for the reconnect delay) or "done"
  retry,
  stopReason,   \* #stopReason
  joined,       \* the server has answered in this attempt
  spawned,      \* as in #runAttempt; the connect timer runs until then
  named,        \* the BOT's name is known in this attempt
  players,      \* the players map of this attempt
  open,         \* connections that are not disconnected yet, by number
  created       \* connections created so far

vars == <<snapshot, pc, retry, stopReason, joined, spawned, named, players,
          open, created>>

\* What only the current attempt knows.
attempt == <<joined, spawned, named, players>>

RequestedReason == {"signal_sigint", "signal_sigterm", "stop_requested",
                    "schedule_window_ended"}

\* #exitCode = 0
Normal(reason) == reason \in RequestedReason \cup {"other_player_detected"}

Init ==
  /\ snapshot = InitialSnapshot
  /\ pc = "loop"
  /\ retry = 0
  /\ stopReason = NoValue
  /\ joined = FALSE /\ spawned = FALSE /\ named = FALSE
  /\ players = {}
  /\ open = {}
  /\ created = 0

----------------------------------------------------------------------------
(* Dispatching                                                             *)

\* #dispatchState: a rejected command is logged and forgotten.
Tried(s, c) == IF Accepts(s, c) THEN After(s, c) ELSE s

RuntimeTo(s, to)    == Tried(s, [type |-> "runtime.transition", to |-> to])
ConnectionTo(s, to) ==
  Tried(s, [type |-> "minecraft.connection.transition", to |-> to])

\* #recordFailure
Failed(s, reason, code) ==
  LET recorded == Tried(s, [type |-> "runtime.stop_reason.record",
                            reason |-> reason])
      noted    == Tried(recorded, [type |-> "runtime.error.record", code |-> code])
  IN RuntimeTo(noted, "failed")

\* #markMinecraftDisconnected
Disconnected(s) ==
  IF s.minecraft.connection = "disconnected" THEN s
  ELSE ConnectionTo(s, "disconnected")

\* Seeded fault: a detected player counts as a failure.
FinishedByRequest(s, reason) ==
  LET t == Disconnected(s) IN
  IF reason \in RequestedReason THEN RuntimeTo(t, "stopped")
  ELSE RuntimeTo(t, "failed")

\* The finally block of run() and #finish.
Finished(s, reason) ==
  LET t == Disconnected(s) IN
  IF Normal(reason) THEN RuntimeTo(t, "stopped")
  ELSE IF t.runtime # "failed" THEN RuntimeTo(t, "failed") ELSE t

----------------------------------------------------------------------------
(* The loop of run(), after an attempt or a delay, with snapshot s         *)

End(s, reason) ==
  /\ snapshot' = Finished(s, reason)
  /\ stopReason' = reason
  /\ pc' = "done"
  /\ UNCHANGED retry

Exhausted == retry >= MaxRetries

Continue(s, outcome) ==
  LET lost == Disconnected(s) IN
  \/ outcome = "fatal" /\ End(Failed(lost, "connection_error", "connection_error"),
                              "connection_error")
  \/ /\ outcome = "retryable" /\ Exhausted
     /\ End(Failed(lost, "reconnect_exhausted", "reconnect_exhausted"),
            "reconnect_exhausted")
  \/ /\ outcome = "retryable" /\ ~Exhausted
     /\ retry' = retry + 1
     /\ snapshot' = RuntimeTo(lost, "reconnecting")
     /\ pc' = "waiting"
     /\ UNCHANGED stopReason

\* #runAttempt up to its first await; a factory that throws is fatal.
Connecting ==
  ConnectionTo(RuntimeTo(snapshot, "connecting"), "connecting")

Connect ==
  /\ pc = "loop" /\ stopReason = NoValue
  /\ snapshot' = Connecting
  /\ pc' = "attempt"
  /\ created' = created + 1
  /\ open' = open \cup {created + 1}
  /\ joined' = FALSE /\ spawned' = FALSE /\ named' = FALSE
  /\ players' = {}
  /\ UNCHANGED <<retry, stopReason>>

CreationFails ==
  /\ pc = "loop" /\ stopReason = NoValue
  /\ Continue(Connecting, "fatal")
  /\ UNCHANGED <<attempt, open, created>>

LeaveLoop ==
  /\ pc = "loop" /\ stopReason # NoValue
  /\ End(snapshot, stopReason)
  /\ UNCHANGED <<attempt, open, created>>

\* settle(): the listeners go, and the connection is disconnected once.
Settled ==
  /\ pc = "attempt"
  /\ open' = open \ {created}
  /\ UNCHANGED <<attempt, created>>

----------------------------------------------------------------------------
(* The events of an attempt                                                *)

Authenticated ==
  /\ pc = "attempt" /\ ~joined
  /\ named' = TRUE
  /\ UNCHANGED <<snapshot, pc, retry, stopReason, joined, spawned, players,
                 open, created>>

Join ==
  /\ pc = "attempt" /\ ~joined
  /\ joined' = TRUE
  /\ snapshot' = ConnectionTo(snapshot, "connected")
  /\ UNCHANGED <<pc, retry, stopReason, spawned, named, players, open, created>>

\* PlayerDetectionPolicy in normal mode.
Stranger(p) == ~(named /\ p = Self)

Detected(s) == Tried(s, [type |-> "safety.other_player_detected"])

\* Seeded fault: the players seen before the spawn are forgotten.
WaitingStrangersNone == {}

WaitingStrangers == {p \in players : Stranger(p)}

\* The first stranger in the map ends the attempt.
Spawned ==
  LET s == RuntimeTo(Tried(snapshot, [type |-> "minecraft.spawn.update",
                                      completed |-> TRUE]), "ready")
  IN
  /\ pc = "attempt" /\ joined /\ ~spawned
  /\ IF WaitingStrangers = {}
     THEN /\ snapshot' = s
          /\ spawned' = TRUE
          /\ UNCHANGED <<pc, retry, stopReason, joined, named, players, open,
                         created>>
     ELSE Settled /\ End(Detected(s), "other_player_detected")

PlayerJoined(p) ==
  /\ pc = "attempt" /\ joined
  /\ p \notin players
  /\ IF spawned /\ Stranger(p)
     THEN Settled /\ End(Detected(snapshot), "other_player_detected")
     ELSE /\ players' = players \cup {p}
          /\ UNCHANGED <<snapshot, pc, retry, stopReason, joined, spawned, named,
                         open, created>>

PlayerLeft(p) ==
  /\ pc = "attempt" /\ p \in players
  /\ players' = players \ {p}
  /\ UNCHANGED <<snapshot, pc, retry, stopReason, joined, spawned, named, open,
                 created>>

\* A report, or an unknown dimension or a reading the store rejects.
Telemetered(s, r) ==
  Tried(s, [type |-> "minecraft.telemetry.update", telemetry |-> r])

State ==
  /\ pc = "attempt" /\ joined
  /\ \/ \E r \in Reports : snapshot' = Telemetered(snapshot, r)
     \/ snapshot' = Tried(snapshot, [type |-> "minecraft.telemetry.invalidate"])
  /\ UNCHANGED <<pc, retry, stopReason, attempt, open, created>>

\* Seeded fault: the connect timer stops when the server answers.
TimerArmedUntilJoin == ~joined

TimerArmed == ~spawned

ConnectTimeout ==
  /\ Settled /\ TimerArmed
  /\ Continue(snapshot, "retryable")

\* connectionError, of either kind, and close.
ConnectionError ==
  /\ Settled
  /\ \E outcome \in {"retryable", "fatal"} : Continue(snapshot, outcome)

WaitEnds ==
  /\ pc = "waiting"
  /\ pc' = "loop"
  /\ UNCHANGED <<snapshot, retry, stopReason, attempt, open, created>>

----------------------------------------------------------------------------
(* requestStop, called by a signal handler or the schedule controller      *)

MayStop == stopReason = NoValue

\* Seeded fault: the attempt is not told.
StopsAttemptNever == FALSE

StopsAttempt == pc = "attempt"

\* A running attempt is settled and run() ends with it; a delay is cut short.
RequestStop(reason) ==
  LET noted == Tried(snapshot, [type |-> "runtime.stop_reason.record",
                                reason |-> reason])
      s     == RuntimeTo(noted, "stopping")
  IN
  /\ MayStop
  /\ IF StopsAttempt
     THEN Settled /\ End(s, reason)
     ELSE /\ snapshot' = s
          /\ stopReason' = reason
          /\ UNCHANGED <<pc, retry, attempt, open, created>>

Event ==
  \/ Authenticated \/ Join \/ Spawned \/ State \/ ConnectionError
  \/ \E p \in Players : PlayerJoined(p) \/ PlayerLeft(p)

Next ==
  \/ Connect \/ CreationFails \/ LeaveLoop
  \/ Event
  \/ ConnectTimeout
  \/ WaitEnds
  \/ \E reason \in RequestedReason : RequestStop(reason)

Spec == Init /\ [][Next]_vars

\* Timers fire, and the loop goes on by itself.  Nothing is assumed of the
\* server: no event ever has to come.
Fairness ==
  /\ WF_vars(Connect \/ CreationFails \/ LeaveLoop)
  /\ WF_vars(ConnectTimeout)
  /\ WF_vars(WaitEnds)

----------------------------------------------------------------------------
(* Properties                                                              *)

\* The variables have their types.
TypeOK ==
  /\ snapshot \in Snapshot
  /\ pc \in {"loop", "attempt", "waiting", "done"}
  /\ retry \in 0..MaxRetries
  /\ stopReason \in Optional(RuntimeStopReason)
  /\ {joined, spawned, named} \subseteq BOOLEAN
  /\ players \subseteq Players
  /\ open \subseteq 1..created
  /\ created \in Nat

\* There is an open connection exactly while an attempt is under way, and only
\* the newest one: whatever ends an attempt closes its connection.
OneConnection == open = IF pc = "attempt" THEN {created} ELSE {}

\* Never more than maxRetries + 1 connections, however they end.
AttemptsBounded == created <= MaxRetries + 1

\* The result of run() and the snapshot it leaves behind tell the same story.
ResultMatchesSnapshot ==
  pc = "done" =>
    /\ snapshot.runtime = IF Normal(stopReason) THEN "stopped" ELSE "failed"
    /\ snapshot.stopReason = stopReason
    /\ snapshot.minecraft.connection = "disconnected"
    /\ snapshot.lastError = NoValue <=> Normal(stopReason)

\* A spawned BOT never stays on a server with another player it knows of, also
\* if that player was listed before the spawn.
NeverWithStrangers ==
  pc = "attempt" /\ spawned => \A p \in players : ~Stranger(p)

\* The store says ready, spawned or connected, or holds telemetry, only while
\* the attempt that reported it is still under way.
ReportedByThisAttempt ==
  /\ snapshot.runtime = "ready" => pc = "attempt" /\ spawned
  /\ snapshot.minecraft.spawned => pc = "attempt" /\ spawned
  /\ snapshot.minecraft.telemetry # "unknown" => pc = "attempt" /\ joined

\* The first reason to stop is the one that is kept, and after it no connection
\* is made.
FirstReasonKept ==
  [][stopReason # NoValue => UNCHANGED <<stopReason, created>>]_vars

\* requestStop and every other reason to stop end run().
StopEnds == stopReason # NoValue ~> pc = "done"

\* Without a spawn no attempt lasts: the server spawns the BOT, or run() goes on
\* to the next attempt and in the end gives up.
SpawnsOrEnds == pc = "loop" ~> (pc = "attempt" /\ spawned) \/ pc = "done"
=============================================================================
