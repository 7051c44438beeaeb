---------------------------- MODULE MCStateStore ----------------------------
(***************************************************************************)
(* All commands of the store, with two subscribers.  No command and no     *)
(* property tells the subscribers apart.                                   *)
(***************************************************************************)
EXTENDS StateStore, TLC

CONSTANTS s1, s2

\* Readings just below and at the policy's limits, and one out of range.
MCReadings ==
  {<<"here", 10, 6>>} \cup {<<NoValue, h, NoValue>> : h \in {9, 20, 21}}
                      \cup {<<NoValue, NoValue, 5>>}

Reading(p, h, f) ==
  [type |-> "minecraft.telemetry.update",
   telemetry |-> [place |-> p, health |-> h, hunger |-> f]]

To(type, states) == {[type |-> type, to |-> x] : x \in states}

MCCommands ==
  To("runtime.transition", RuntimeState)
  \cup To("minecraft.connection.transition", ConnectionState \ {"spawned"})
  \cup To("task.transition", TaskState \ {"idle", "preparing"})
  \cup {[type |-> "minecraft.spawn.update", completed |-> b] : b \in {TRUE}}
  \cup {Reading(r[1], r[2], r[3]) : r \in MCReadings}
  \cup {[type |-> "minecraft.telemetry.invalidate"],
        [type |-> "safety.other_player_detected"],
        [type |-> "task.reset"],
        [type |-> "task.prepare", id |-> "task1"],
        [type |-> "runtime.stop_reason.record", reason |-> "stop_requested"]}
  \cup {[type |-> "task.progress.update", progress |-> p] : p \in {50, 101}}

MCSubscribers == {s1, s2}
MCSymmetry    == Permutations(MCSubscribers)
=============================================================================
