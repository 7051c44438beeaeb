------------------------- MODULE MCScheduledRuntime -------------------------
(***************************************************************************)
(* A Friday at every boundary, the Saturday after it, and the Monday.      *)
(***************************************************************************)
EXTENDS ScheduledRuntime

\* Day 1 is Friday, 1970-01-02; hours and minutes in Japanese time.
At(day, hour, minute) == day * DAY + hour * 60 + minute - JST_OFFSET

MCInstants ==
  {At(1, 8, 59), At(1, 9, 0), At(1, 11, 58), At(1, 11, 59), At(1, 12, 0),
   At(1, 16, 59), At(1, 17, 0), At(2, 10, 0), At(4, 9, 0), At(4, 12, 0)}
=============================================================================
