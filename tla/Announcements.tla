---------------------------- MODULE Announcements ----------------------------
(***************************************************************************)
(* What a reader of the Discord channel learns of a run without MySQL: the *)
(* mapper turns changes of the state store into announcements, and         *)
(* NotificationSubscriber sends them one after the other, until the        *)
(* session closes the subscriber and then the port.                        *)
(*                                                                         *)
(* A step of the supervisor makes several changes; each is an event, and   *)
(* all of them reach the subscriber in microtasks before anything else     *)
(* happens.  Tasks are not announced here: only the executor, which needs  *)
(* MySQL, has any.                                                         *)
(***************************************************************************)
EXTENDS RuntimeSupervisor, Sequences, FiniteSets

\* The types of the messages; those about tasks are left out.
NotificationType ==
  {"minecraft_connecting", "minecraft_connected", "minecraft_spawned",
   "minecraft_disconnected", "reconnect_started", "runtime_stopped",
   "stop_requested", "runtime_failed", "reconnect_exhausted",
   "other_player_safety_stop"}

Ending == {"runtime_stopped", "runtime_failed", "reconnect_exhausted",
           "other_player_safety_stop"}

ASSUME AnnouncementsAssumption == NoValue \notin NotificationType

VARIABLES
  queue,      \* announcements accepted and not settled, the first being sent
  session,    \* "open", "closing" (the subscriber is closed) or "closed"
  shown,      \* the last announcement in the channel
  lost,       \* the last one that was settled is not in the channel
  endings     \* for checking: how often each end was announced

deliveryVars == <<queue, session, shown, lost>>
allVars == <<vars, deliveryVars, endings>>

----------------------------------------------------------------------------
(* The mapper: the first rule that applies to a change                     *)

Became(b, a, state) == b # state /\ a = state

Erred(b, a) == a.lastError # b.lastError /\ a.lastError # NoValue

\* Seeded fault: a connection closed on the way to the end is reported, too.
LostAnyhow(b, a) == Became(b.minecraft.connection, a.minecraft.connection, "disconnected")

\* A connection lost while the run goes on.
Lost(b, a) ==
  /\ Became(b.minecraft.connection, a.minecraft.connection, "disconnected")
  /\ a.runtime \in {"connecting", "ready"}

\* Seeded fault: the normal end is reported after a detection, too.
StoppedAnyhow(b, a) == Became(b.runtime, a.runtime, "stopped")

Stopped(b, a) ==
  /\ Became(b.runtime, a.runtime, "stopped")
  /\ a.stopReason # "other_player_detected"

Rules(b, a) ==
  LET from == b.minecraft.connection
      to   == a.minecraft.connection
  IN <<[if |-> ~b.minecraft.other /\ a.minecraft.other, type |-> "other_player_safety_stop"],
       [if |-> Erred(b, a) /\ a.lastError = "reconnect_exhausted",
        type |-> "reconnect_exhausted"],
       [if |-> Erred(b, a), type |-> "runtime_failed"],
       [if |-> b.stopReason # a.stopReason /\ a.stopReason \in RequestedReason,
        type |-> "stop_requested"],
       [if |-> Became(b.runtime, a.runtime, "reconnecting"), type |-> "reconnect_started"],
       [if |-> from = "disconnected" /\ to = "connecting", type |-> "minecraft_connecting"],
       [if |-> from = "connecting" /\ to = "connected", type |-> "minecraft_connected"],
       [if |-> ~b.minecraft.spawned /\ a.minecraft.spawned, type |-> "minecraft_spawned"],
       [if |-> Lost(b, a), type |-> "minecraft_disconnected"],
       [if |-> Stopped(b, a), type |-> "runtime_stopped"],
       [if |-> TRUE, type |-> NoValue]>>

Template(b, a) ==
  LET rules == Rules(b, a)
      first == CHOOSE i \in DOMAIN rules :
                 rules[i].if /\ \A j \in 1..(i - 1) : ~rules[j].if
  IN rules[first].type

----------------------------------------------------------------------------
(* The subscriber                                                          *)

\* What a change is announced with: a message or nothing.
News(b, a) ==
  LET message == Template(b, a) IN IF message = NoValue THEN <<>> ELSE <<message>>

Count(messages, m) == Cardinality({i \in DOMAIN messages : messages[i] = m})

\* accept, for the messages of a step
Observed(messages) ==
  /\ queue' = queue \o messages
  /\ endings' = [e \in Ending |-> endings[e] + Count(messages, e)]
  /\ UNCHANGED <<session, shown, lost>>

Sent ==
  /\ queue # <<>>
  /\ queue' = Tail(queue) /\ shown' = Head(queue) /\ lost' = FALSE
  /\ UNCHANGED <<vars, session, endings>>

\* A failed send is reported, and the next one follows.  The message may be in
\* the channel although its answer was lost.
SendFails ==
  /\ queue # <<>>
  /\ queue' = Tail(queue)
  /\ \/ shown' = Head(queue) /\ lost' = FALSE
     \/ lost' = TRUE /\ UNCHANGED shown
  /\ UNCHANGED <<vars, session, endings>>

CloseSubscriber ==
  /\ pc = "done" /\ session = "open"
  /\ session' = "closing"
  /\ UNCHANGED <<vars, queue, shown, lost, endings>>

\* The send under way is aborted, and those behind it are rejected.
CloseBinding ==
  /\ session = "closing"
  /\ session' = "closed"
  /\ queue' = <<>>
  /\ \/ queue # <<>> /\ shown' = Head(queue) /\ lost' = (Len(queue) > 1)
     \/ lost' = (queue # <<>> \/ lost) /\ UNCHANGED shown
  /\ UNCHANGED <<vars, endings>>

----------------------------------------------------------------------------
(* What each step of the supervisor announces: the news of its changes, in  *)
(* their order                                                             *)

FailedBy(s, reason, code) ==
  LET recorded == Tried(s, [type |-> "runtime.stop_reason.record", reason |-> reason])
      noted    == Tried(recorded, [type |-> "runtime.error.record", code |-> code])
  IN News(s, recorded) \o News(recorded, noted) \o News(noted, RuntimeTo(noted, "failed"))

EndedBy(s, reason) ==
  News(s, Disconnected(s)) \o News(Disconnected(s), Finished(s, reason))

FailsBy(s, reason) ==
  FailedBy(s, reason, reason) \o EndedBy(Failed(s, reason, reason), reason)

ContinuedBy(s, outcome) ==
  LET gone == Disconnected(s) IN
  News(s, gone) \o
  (CASE outcome = "fatal" -> FailsBy(gone, "connection_error")
     [] outcome = "retryable" /\ Exhausted -> FailsBy(gone, "reconnect_exhausted")
     [] OTHER -> News(gone, RuntimeTo(gone, "reconnecting")))

DetectedBy(s) == News(s, Detected(s)) \o EndedBy(Detected(s), "other_player_detected")

ConnectedBy ==
  LET s == RuntimeTo(snapshot, "connecting") IN News(snapshot, s) \o News(s, Connecting)

SpawnedBy ==
  LET first == Tried(snapshot, [type |-> "minecraft.spawn.update", completed |-> TRUE])
      ready == RuntimeTo(first, "ready")
  IN News(snapshot, first) \o News(first, ready) \o
     (IF pc' = "done" THEN DetectedBy(ready) ELSE <<>>)

StoppedBy(reason) ==
  LET noted == Tried(snapshot, [type |-> "runtime.stop_reason.record", reason |-> reason])
      s     == RuntimeTo(noted, "stopping")
  IN News(snapshot, noted) \o News(noted, s) \o
     (IF pc' = "done" THEN EndedBy(s, reason) ELSE <<>>)

Supervised ==
  \/ Connect /\ Observed(ConnectedBy)
  \/ CreationFails /\ Observed(ConnectedBy \o ContinuedBy(Connecting, "fatal"))
  \/ LeaveLoop /\ Observed(EndedBy(snapshot, stopReason))
  \/ Join /\ Observed(News(snapshot, snapshot'))
  \/ Spawned /\ Observed(SpawnedBy)
  \/ \E p \in Players :
       PlayerJoined(p) /\ Observed(IF pc' = "done" THEN DetectedBy(snapshot) ELSE <<>>)
  \/ ConnectTimeout /\ Observed(ContinuedBy(snapshot, "retryable"))
  \/ /\ ConnectionError
     /\ Observed(ContinuedBy(snapshot,
          IF stopReason' = "connection_error" THEN "fatal" ELSE "retryable"))
  \/ \E reason \in RequestedReason : RequestStop(reason) /\ Observed(StoppedBy(reason))

\* Steps that announce nothing.
Unannounced ==
  /\ \/ Authenticated \/ State \/ WaitEnds
     \/ \E p \in Players : PlayerLeft(p)
  /\ UNCHANGED <<deliveryVars, endings>>

AnnouncementsInit ==
  /\ Init
  /\ queue = <<>> /\ session = "open"
  /\ shown = NoValue /\ lost = FALSE /\ endings = [e \in Ending |-> 0]

AnnouncementsNext ==
  \/ Supervised \/ Unannounced
  \/ Sent \/ SendFails
  \/ CloseSubscriber \/ CloseBinding

AnnouncementsSpec == AnnouncementsInit /\ [][AnnouncementsNext]_allVars

\* The fairness of the supervisor, which no announcement can hold up; nothing is
\* assumed of the channel, so a message may be under way for as long as it likes.
AnnouncementsFairSpec == AnnouncementsSpec /\ Fairness

----------------------------------------------------------------------------
(* Properties                                                              *)

\* The variables that were added have their types.
DeliveryTypeOK ==
  /\ queue \in Seq(NotificationType)
  /\ session \in {"open", "closing", "closed"}
  /\ shown \in Optional(NotificationType)
  /\ lost \in BOOLEAN
  /\ endings \in [Ending -> Nat]

\* What the end of a run is announced with.
EndMessage ==
  CASE stopReason = "other_player_detected" -> "other_player_safety_stop"
    [] stopReason \in RequestedReason       -> "runtime_stopped"
    [] stopReason = "reconnect_exhausted"   -> "reconnect_exhausted"
    [] OTHER                                -> "runtime_failed"

\* A run announces its end once, when it ends, and says why: a detection is not
\* followed by a normal end, a failure not by another one.
EndAnnouncedOnce ==
  endings = [e \in Ending |-> IF pc = "done" /\ e = EndMessage THEN 1 ELSE 0]

\* What the channel should say last.
Situation ==
  IF pc = "done" THEN EndMessage
  ELSE IF stopReason # NoValue THEN "stop_requested"
  ELSE IF pc = "attempt"
    THEN IF spawned THEN "minecraft_spawned"
         ELSE IF joined THEN "minecraft_connected"
         ELSE "minecraft_connecting"
  ELSE IF retry > 0 THEN "reconnect_started" ELSE NoValue

\* When nothing is on its way, and the last message was not lost, the channel
\* says last where the BOT is: what comes in between (lost messages, a closed
\* connection, a session that closes) leaves no other impression.
ReaderKnows == queue = <<>> /\ ~lost => shown = Situation
=============================================================================
