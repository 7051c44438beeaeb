-------------------------- MODULE ScheduledRuntime --------------------------
(***************************************************************************)
(* The controller of the scheduled runtime: it polls the scheduler, stops  *)
(* the session of a window that is over and creates one for a window that  *)
(* began, until a signal stops it.  A step ends where the code awaits; the *)
(* handlers a promise resumes belong to the step that settles it.          *)
(***************************************************************************)
EXTENDS WeekdayScheduler, Sequences

CONSTANTS
  Instants,      \* times at which the clock may be read, in any order
  MaxSessions    \* bound: sessions created altogether

ASSUME ControllerAssumption ==
  Instants \subseteq Nat /\ MaxSessions \in Nat

VARIABLES
  lastTime,      \* the scheduler's #lastEvaluatedTime, -1 before the first
  activeWindow,  \* the scheduler's #activeWindow
  place,         \* where run() awaits: "waiting" (for the next poll),
                 \* "creating", "discarding", "stopping", "finishing", "done"
  pending,       \* the window to start after the stop, or NoWindow
  closed,        \* #closed
  active,        \* the index of #active, or 0
  sessions       \* all sessions, with what they came to

controllerVars == <<lastTime, activeWindow, place, pending, closed, active, sessions>>

NoSession == 0

\* The first evaluation is not preceded by a wait.
ControllerInit ==
  /\ lastTime = -1
  /\ activeWindow = NoWindow
  /\ place = "waiting"
  /\ pending = NoWindow
  /\ closed = FALSE
  /\ active = NoSession
  /\ sessions = <<>>

----------------------------------------------------------------------------
(* evaluate() of the scheduler: the window of a stop and of a start intent *)

\* Seeded fault: the clock may go back.
OutdatedNever(t) == FALSE

\* Also the instants that were evaluated already.
Outdated(t) == t <= lastTime

\* Seeded fault: a jump over the boundary loses the intent to stop.
StopIntentUnlessNext(t) ==
  IF Outdated(t) \/ WindowAt(t) # NoWindow THEN NoWindow ELSE activeWindow

StopIntent(t) ==
  IF Outdated(t) \/ activeWindow = WindowAt(t) THEN NoWindow ELSE activeWindow

StartIntent(t) ==
  IF Outdated(t) \/ activeWindow = WindowAt(t) THEN NoWindow ELSE WindowAt(t)

Evaluated(t) ==
  IF Outdated(t) THEN UNCHANGED <<lastTime, activeWindow>>
  ELSE lastTime' = t /\ activeWindow' = WindowAt(t)

----------------------------------------------------------------------------
(* What the controller does until its next await                           *)

\* Seeded fault: the session is not told to stop.
ToldNothing(ss, i) == ss

\* requestStop of the session; one that has ended ignores it.
Told(ss, i) == IF i = NoSession THEN ss ELSE [ss EXCEPT ![i].asked = TRUE]

GoesTo(to, ss) == place' = to /\ pending' = NoWindow /\ sessions' = ss

\* The finally block of run().
Finish(ss, i) ==
  IF i = NoSession THEN GoesTo("done", ss) ELSE GoesTo("finishing", Told(ss, i))

\* The end of an iteration.
Turn(ss, i) == IF closed THEN Finish(ss, i) ELSE GoesTo("waiting", ss)

\* The start intent for w, if there is one.
Start(w, ss, i) ==
  IF w = NoWindow \/ closed \/ i # NoSession THEN Turn(ss, i)
  ELSE /\ Len(ss) < MaxSessions
       /\ GoesTo("creating",
               Append(ss, [window |-> w, state |-> "starting", asked |-> FALSE]))

Poll(t) ==
  LET stop == StopIntent(t) IN
  /\ place = "waiting"
  /\ Evaluated(t)
  /\ IF active # NoSession /\ stop # NoWindow /\ sessions[active].window = stop
     THEN /\ place' = "stopping"
          /\ sessions' = Told(sessions, active)
          /\ pending' = StartIntent(t)
     ELSE Start(StartIntent(t), sessions, active)
  /\ UNCHANGED <<closed, active>>

----------------------------------------------------------------------------
(* The sessions                                                            *)

Newest == Len(sessions)

To(i, state) == [sessions EXCEPT ![i].state = state]

\* Seeded fault: a session that comes too late is run.
DiscardedNever == FALSE

Discarded == closed

\* createSession resolves; a session that comes too late is only closed.
Created ==
  /\ place = "creating"
  /\ IF Discarded
     THEN GoesTo("discarding", To(Newest, "closing")) /\ UNCHANGED active
     ELSE active' = Newest /\ Turn(To(Newest, "running"), Newest)
  /\ UNCHANGED <<lastTime, activeWindow, closed>>

CreateFails ==
  /\ place = "creating"
  /\ Turn(To(Newest, "failed"), active)
  /\ UNCHANGED <<lastTime, activeWindow, closed, active>>

\* Seeded fault: the stop waits for the end of the run only.
AwaitedEarly == "closing"

\* What #stopActive waits for.
Awaited == "closed"

\* run() goes on when the session it waits for is there.
Resumed(ss, i) ==
  \/ place = "stopping" /\ Start(pending, ss, i)
  \/ place = "finishing" /\ GoesTo("done", ss)
  \/ place = "discarding" /\ Finish(ss, i)
  \/ /\ place \notin {"stopping", "finishing", "discarding"}
     /\ sessions' = ss
     /\ UNCHANGED <<place, pending>>

\* The last step of #finalize.
Remaining(i, state) ==
  IF i = active /\ state = Awaited THEN NoSession ELSE active

Moved(i, state) ==
  /\ active' = Remaining(i, state)
  /\ IF state = Awaited THEN Resumed(To(i, state), active')
     ELSE sessions' = To(i, state) /\ UNCHANGED <<place, pending>>
  /\ UNCHANGED <<lastTime, activeWindow, closed>>

\* run() of a session resolves, and #finalize begins to close it, once.
SessionEnds(i) == sessions[i].state = "running" /\ Moved(i, "closing")

\* close() settles, an error is ignored.
SessionCloses(i) == sessions[i].state = "closing" /\ Moved(i, "closed")

\* requestStop of the controller, by a signal handler.
StopController ==
  /\ ~closed
  /\ closed' = TRUE
  /\ IF place = "waiting" THEN Finish(sessions, active)
     ELSE sessions' = Told(sessions, active) /\ UNCHANGED <<place, pending>>
  /\ UNCHANGED <<lastTime, activeWindow, active>>

ControllerNext ==
  \/ \E t \in Instants : Poll(t)
  \/ Created \/ CreateFails
  \/ \E i \in 1..Newest : SessionEnds(i) \/ SessionCloses(i)
  \/ StopController

ControllerSpec == ControllerInit /\ [][ControllerNext]_controllerVars

\* createSession and close() settle, and a session that is told to stop ends.
FairControllerSpec ==
  /\ ControllerSpec
  /\ WF_controllerVars(Created \/ CreateFails)
  /\ \A i \in 1..MaxSessions :
       /\ WF_controllerVars(i <= Newest /\ sessions[i].asked /\ SessionEnds(i))
       /\ WF_controllerVars(i <= Newest /\ SessionCloses(i))

----------------------------------------------------------------------------
(* Properties                                                              *)

Session == [window : Window,
            state  : {"starting", "failed", "running", "closing", "closed"},
            asked  : BOOLEAN]

\* The variables have their types, and the active session is not a closed one.
ControllerTypeOK ==
  /\ lastTime \in Instants \cup {-1}
  /\ activeWindow \in Window \cup {NoWindow}
  /\ place \in {"waiting", "creating", "discarding", "stopping", "finishing", "done"}
  /\ pending \in Window \cup {NoWindow}
  /\ closed \in BOOLEAN
  /\ sessions \in Seq(Session)
  /\ active \in 0..Newest
  /\ active # NoSession => sessions[active].state \in {"running", "closing"}

Present(i) == sessions[i].state \in {"starting", "running", "closing"}

\* A session is created only when every earlier one is closed, its lock and its
\* connection with it; when run() returns all of them are.
OneSession ==
  \A i \in 1..Newest : Present(i) => i = Newest /\ place # "done"

\* However the clock moves, a window gets one session: between two polls the open
\* window has had its own, as no start intent is dropped because an older session
\* is still there, and one that ended, failed or was stopped is not followed by
\* another.
WindowsServedOnce ==
  /\ \A i, j \in 1..Newest : sessions[i].window = sessions[j].window => i = j
  /\ place = "waiting" /\ activeWindow # NoWindow =>
       \E i \in 1..Newest : sessions[i].window = activeWindow

\* A session that runs without being told to stop runs in the open window.
RunsInItsWindow ==
  \A i \in 1..Newest :
    sessions[i].state = "running" /\ ~sessions[i].asked =>
      i = active /\ sessions[i].window = activeWindow

\* After a signal no session begins to run, also one that was being created.
NothingStartsAfterStop ==
  [][closed => \A i \in 1..Newest :
       sessions'[i].state = "running" => sessions[i].state = "running"]_controllerVars

\* A signal ends run().
SignalEndsRun == closed ~> place = "done"

OverdueSession(i) ==
  /\ i \in 1..Newest
  /\ sessions[i].state = "running" /\ sessions[i].window # activeWindow

\* A session whose window is over is closed.
OverdueSessionsClose ==
  \A i \in 1..MaxSessions :
    OverdueSession(i) ~> i \in 1..Newest /\ sessions[i].state = "closed"

\* What was told to end ends: run() after a signal, a session after its window,
\* however slowly sessions start and close.
SessionsEnd == SignalEndsRun /\ OverdueSessionsClose
=============================================================================
