---------------------------- MODULE MCDiscordPort ----------------------------
(***************************************************************************)
(* The production values in quarters of a second: 15 s in total, 5 s per   *)
(* attempt, three attempts, waits of 250 ms and 500 ms; two messages.      *)
(***************************************************************************)
EXTENDS DiscordPort
=============================================================================
