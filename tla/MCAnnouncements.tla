--------------------------- MODULE MCAnnouncements ---------------------------
(***************************************************************************)
(* The BOT itself and two other players, two retries, and two partial      *)
(* reports of the telemetry.                                               *)
(***************************************************************************)
EXTENDS Announcements

CONSTANTS self, other, third

MCPlayers == {self, other, third}
MCReports == {[place |-> "here", health |-> NoValue, hunger |-> NoValue],
              [place |-> NoValue, health |-> 20, hunger |-> 6]}
=============================================================================
