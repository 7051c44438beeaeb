---------------------------- MODULE MCTaskQueue ----------------------------
(***************************************************************************)
(* A small instance of the task queue: one retryable task with two         *)
(* attempts, an executor that claims with a lease, and a second client.    *)
(***************************************************************************)
EXTENDS TaskQueue

CONSTANTS t1, c1, c2

MCTasks       == {t1}
MCClients     == {c1, c2}
MCLeased      == {c1}
MCPlacing     == {}
MCClaimable   == [c \in MCClients |-> MCTasks]
MCMaxAttempts == [x \in MCTasks |-> 2]
MCConstant    == [x \in MCTasks |-> 1]
=============================================================================
