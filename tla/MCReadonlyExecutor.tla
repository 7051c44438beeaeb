------------------------- MODULE MCReadonlyExecutor -------------------------
(***************************************************************************)
(* Two tasks, and the commands of a runtime that connects, reports good    *)
(* and bad readings in turn, sees a player, and stops.                     *)
(***************************************************************************)
EXTENDS ReadonlyExecutor

MCTasks == {"t1", "t2"}

To(type, states) == {[type |-> type, to |-> x] : x \in states}
Report1(p, h) == [type |-> "minecraft.telemetry.update",
                  telemetry |-> [place |-> p, health |-> h, hunger |-> 20]]

\* A lost connection is left out: for the policy it is one more denial that may
\* be taken back, as a bad reading is.
MCRuntime ==
  To("runtime.transition", {"connecting", "ready", "stopping", "stopped"})
  \cup To("minecraft.connection.transition", {"connecting", "connected"})
  \cup {[type |-> "minecraft.spawn.update", completed |-> TRUE],
        Report1("here", 20), Report1(NoValue, 9), Report1(NoValue, 20),
        [type |-> "safety.other_player_detected"]}
=============================================================================
