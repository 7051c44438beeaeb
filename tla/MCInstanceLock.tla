--------------------------- MODULE MCInstanceLock ---------------------------
(***************************************************************************)
(* Instances of InstanceLock: a and b are processes for one account.    *)
(***************************************************************************)
EXTENDS InstanceLock

CONSTANTS a, b
=============================================================================
