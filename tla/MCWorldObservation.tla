------------------------- MODULE MCWorldObservation -------------------------
(***************************************************************************)
(* Two dimensions with three spots, a cache of two, two blocks, two things *)
(* to hold, one network id, and one listener that comes and goes.          *)
(***************************************************************************)
EXTENDS WorldObservation

CONSTANTS overworld, nether, here, there, beyond, air, dirt, hand, tool, listener
=============================================================================
