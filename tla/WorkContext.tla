---------------------------- MODULE WorkContext ----------------------------
(***************************************************************************)
(* What the coordinators of world-changing work share: the snapshot of the *)
(* state store, which also holds the one task in progress, and the rows of *)
(* the task queue.                                                         *)
(***************************************************************************)
EXTENDS WorkSafetyPolicy, FiniteSets

CONSTANTS
  PlaceTasks,    \* ids of tasks of type "place_single_dirt"
  MoveTasks,     \* ids of tasks of type "navigate_to"
  MaxFaults      \* bound: requests to the database that fail, and crashes

ASSUME WorkAssumption ==
  /\ PlaceTasks \cup MoveTasks \subseteq STRING
  /\ PlaceTasks \cap MoveTasks = {}
  /\ MaxFaults \in Nat

VARIABLES
  snapshot,   \* the state store
  rows,       \* rows[t]: status and execution_phase in the database
  faults      \* how many requests failed and processes crashed so far

Tasks   == PlaceTasks \cup MoveTasks
Outcome == {"completed", "failed", "stopped"}

Row == [status : {"queued", "claimed"} \cup Outcome,
        phase  : {"not_started", "delivery_started", "verified"}]

ContextInit ==
  /\ rows = [t \in Tasks |-> [status |-> "queued", phase |-> "not_started"]]
  /\ faults = 0

Fault == faults < MaxFaults /\ faults' = faults + 1

\* A request that would replace the row of t by new: carried out and answered
\* (ok), refused, or lost on its way or on the way back.  Nobody else writes
\* the row of a claimed task, so the request and its answer are one step.
Request(t, accepted, new, ok) ==
  LET replaced == [rows EXCEPT ![t] = new] IN
  \/ /\ ok /\ accepted
     /\ rows' = replaced
     /\ UNCHANGED faults
  \/ /\ ~ok /\ ~accepted
     /\ UNCHANGED <<rows, faults>>
  \/ /\ ~ok
     /\ Fault
     /\ rows' \in {rows} \cup (IF accepted THEN {replaced} ELSE {})

\* task.finish
FinishRow(t, outcome, ok) ==
  Request(t, rows[t].status = "claimed", [rows[t] EXCEPT !.status = outcome], ok)

\* task.mark_delivery_started and task.mark_verified
MarkRow(t, from, to, ok) ==
  Request(t, rows[t].status = "claimed" /\ rows[t].phase = from,
          [rows[t] EXCEPT !.phase = to], ok)

\* A read of the queue that fails.
ReadFails == Fault /\ UNCHANGED rows

----------------------------------------------------------------------------
(* The task of the state store                                             *)

\* Both coordinators take up work in an idle store only.
Prepared(s, t) ==
  After(After(s, [type |-> "task.prepare", id |-> t]),
        [type |-> "task.transition", to |-> "running"])

\* Seeded fault: whoever finalizes, finalizes the task it finds.
FinalizedAny(s, t, outcome) ==
  IF outcome \in TaskNext(s.task.state)
  THEN After(s, [type |-> "task.transition", to |-> outcome]) ELSE s

\* The first half of #finalize: only the coordinator's own unfinished task.
Finalized(s, t, outcome) ==
  IF s.task.id = t /\ s.task.state \in {"preparing", "running", "paused"}
  THEN After(s, [type |-> "task.transition", to |-> outcome]) ELSE s
=============================================================================
