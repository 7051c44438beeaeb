---------------------------- MODULE MCWorldWork ----------------------------
(***************************************************************************)
(* One placement and one journey of two steps.  The supervisor reports bad *)
(* and good readings in turn, on both sides of the policy's limit.         *)
(***************************************************************************)
EXTENDS WorldWork

MCPlaceTasks == {"place"}
MCMoveTasks  == {"move"}
MCLine       == <<"p0", "p1", "p2">>
MCTarget     == [t \in MCMoveTasks |-> "p2"]
MCInReach    == {"p0", "p1"}

Readings(h) == [type |-> "minecraft.telemetry.update",
                telemetry |-> [place |-> NoValue, health |-> h, hunger |-> NoValue]]

MCRuntime == {Readings(9), Readings(20)}
=============================================================================
