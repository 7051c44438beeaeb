--------------------------- MODULE TaskLifecycle ---------------------------
(***************************************************************************)
(* What the task queue promises of one task, whatever the number of        *)
(* processes that share the database: the statuses and the execution       *)
(* phases a task may go through.  TaskQueue (rows, row locks, reads that   *)
(* are stale when they are used) is shown to implement this machine.       *)
(***************************************************************************)
CONSTANTS
  Tasks,     \* task ids
  Placing    \* the tasks of type "place_single_dirt", the only ones delivered

VARIABLES
  status,    \* status[t]: "absent" before the task is accepted
  phase      \* phase[t]: how far the world-changing request got

vars == <<status, phase>>

Outcome  == {"completed", "failed", "stopped"}
Terminal == Outcome \cup {"cancelled"}
Status   == {"absent", "queued", "claimed"} \cup Terminal
Phase    == {"not_started", "delivery_started", "verified"}

Init ==
  /\ status = [t \in Tasks |-> "absent"]
  /\ phase = [t \in Tasks |-> "not_started"]

Move(t, from, to) ==
  /\ status[t] = from
  /\ status' = [status EXCEPT ![t] = to]
  /\ UNCHANGED phase

Enqueue(t) == Move(t, "absent", "queued")
Claim(t)   == Move(t, "queued", "claimed")
Cancel(t)  == Move(t, "queued", "cancelled")

Finish(t, outcome) == Move(t, "claimed", outcome)

\* Only work that was never sent goes back to the queue, and a placement is
\* never tried twice at all.
Requeue(t) ==
  /\ t \notin Placing
  /\ phase[t] = "not_started"
  /\ Move(t, "claimed", "queued")

Advance(t, from, to) ==
  /\ status[t] = "claimed"
  /\ phase[t] = from
  /\ phase' = [phase EXCEPT ![t] = to]
  /\ UNCHANGED status

StartDelivery(t) ==
  /\ t \in Placing
  /\ Advance(t, "not_started", "delivery_started")

Verify(t) == Advance(t, "delivery_started", "verified")

Next ==
  \E t \in Tasks :
    \/ Enqueue(t)
    \/ Claim(t)
    \/ Cancel(t)
    \/ Requeue(t)
    \/ StartDelivery(t)
    \/ Verify(t)
    \/ \E o \in Outcome : Finish(t, o)

Spec == Init /\ [][Next]_vars
=============================================================================
