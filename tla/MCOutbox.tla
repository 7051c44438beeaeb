------------------------------ MODULE MCOutbox ------------------------------
(***************************************************************************)
(* Instances of Outbox: runs a and b at one database.                      *)
(***************************************************************************)
EXTENDS Outbox

CONSTANTS a, b

\* Both changes of a run are announced; the first starts a task, the second
\* ends it.
MCKind == [v \in 1..MaxRevision |-> [announced |-> TRUE, working |-> v # 2]]

\* The runs are interchangeable, so the first change may be taken to be a's.
FirstChangeIsA == changes > 0 => revision[a] > 0
=============================================================================
