-------------------------- MODULE WeekdayScheduler --------------------------
(***************************************************************************)
(* When the BOT operates: two windows on every weekday, judged in Japanese *)
(* time.  Instants are UTC minutes since 1970-01-01, a Thursday.           *)
(***************************************************************************)
EXTENDS Integers

CONSTANT NoWindow

DAY                  == 24 * 60
JST_OFFSET           == 9 * 60
MORNING_START_MINUTE == 9 * 60
MORNING_END_MINUTE   == 11 * 60 + 59
AFTERNOON_START_MINUTE == 12 * 60
AFTERNOON_END_MINUTE == 17 * 60

Day(t)         == (t + JST_OFFSET) \div DAY
MinuteOfDay(t) == (t + JST_OFFSET) % DAY

\* 0 is Sunday
Weekday(t) == (Day(t) + 4) % 7

Window == [day : Int, slot : {"morning", "afternoon"}]

ASSUME NoWindowAssumption == NoWindow \notin Window

WindowAt(t) ==
  LET m == MinuteOfDay(t) IN
  IF Weekday(t) \in {0, 6} THEN NoWindow
  ELSE IF m \in MORNING_START_MINUTE .. MORNING_END_MINUTE - 1
  THEN [day |-> Day(t), slot |-> "morning"]
  ELSE IF m \in AFTERNOON_START_MINUTE .. AFTERNOON_END_MINUTE - 1
  THEN [day |-> Day(t), slot |-> "afternoon"]
  ELSE NoWindow

\* utcBoundary
Boundary(w, minute) == w.day * DAY + minute - JST_OFFSET

StartsAt(w) == Boundary(w, IF w.slot = "morning" THEN 9 * 60 ELSE 12 * 60)
EndsAt(w)   == Boundary(w, IF w.slot = "morning" THEN 11 * 60 + 59 ELSE 17 * 60)
=============================================================================
