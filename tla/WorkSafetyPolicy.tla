-------------------------- MODULE WorkSafetyPolicy --------------------------
(***************************************************************************)
(* DefaultWorkSafetyPolicy: may work start, or continue, in a snapshot?    *)
(* The reasons are tried in order and the first one that applies decides.  *)
(***************************************************************************)
EXTENDS StateCommands

MINIMUM_WORK_HEALTH     == 10
MINIMUM_WORK_HUNGER     == 6
MAXIMUM_TELEMETRY_VALUE == 20

StopRequested(s) ==
  s.stopReason # NoValue \/ s.runtime \in {"stopping", "stopped", "failed"}

TelemetryFit(value, minimum) ==
  value # NoValue /\ value \in minimum..MAXIMUM_TELEMETRY_VALUE

\* A denial that lasts: no later snapshot of this process allows work again.
Final(s) == s.minecraft.other \/ StopRequested(s)

\* disposition = "allow"
Allows(s) ==
  /\ ~Final(s)
  /\ s.runtime = "ready"
  /\ s.minecraft.connection = "spawned" /\ s.minecraft.spawned
  /\ s.minecraft.telemetry = "valid"
  /\ TelemetryFit(s.minecraft.health, MINIMUM_WORK_HEALTH)
  /\ TelemetryFit(s.minecraft.hunger, MINIMUM_WORK_HUNGER)

\* deny(): a start is blocked, work in progress is stopped.
Disposition(s, intent) ==
  IF Allows(s) THEN "allow" ELSE IF intent = "start" THEN "block" ELSE "stop"

Resumable(s) == ~Final(s)
=============================================================================
