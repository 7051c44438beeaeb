------------------------ MODULE ReadonlyExecutorProofs ------------------------
(***************************************************************************)
(* The executor's safety for any tasks, any commands of the runtime, and   *)
(* any number of failed requests and of crashes.                           *)
(***************************************************************************)
EXTENDS ReadonlyExecutor, StateCommandsProofs

----------------------------------------------------------------------------
(* What the executor's dispatches, and the runtime's, make of the task.    *)

\* The snapshot s became t, with the task of s in another state at most.
SameTask(t, s) ==
  /\ t \in Snapshot
  /\ t.task.id = s.task.id

LEMMA TransitionFacts ==
  ASSUME NEW s \in Snapshot, NEW to \in TaskState \ {"idle", "preparing"}
  PROVE  LET t == After(s, [type |-> "task.transition", to |-> to]) IN
         SameTask(t, s) /\ t.task.state = to
  <1> DEFINE c == [type |-> "task.transition", to |-> to]
             x == Transition(s.task, to)
  <1>1. s.task \in TaskProgress
    BY DEF Snapshot
  <1>2. After(s, c) = [s EXCEPT !.task = x]
    BY DEF After, MinecraftCommand, TaskCommand, TaskAfter
  <1>3. x \in TaskProgress /\ x.id = s.task.id /\ x.state = to
    BY <1>1 DEF Transition, TaskProgress
  <1> HIDE DEF c, x
  <1>4. After(s, c) \in Snapshot /\ After(s, c).task = x
    BY <1>2, <1>3 DEF Snapshot
  <1> QED
    BY <1>3, <1>4 DEF c, SameTask

\* A result is reported to a task that may take it.
LEMMA ReportedFacts ==
  ASSUME NEW s \in Snapshot, NEW to \in TerminalTask
  PROVE  /\ SameTask(Reported(s, to), s)
         /\ Reported(s, to).task.state =
              IF to \in TaskNext(s.task.state) THEN to ELSE s.task.state
  <1>1. to \in TaskState \ {"idle", "preparing"}
    BY DEF TerminalTask, TaskState
  <1> QED
    BY <1>1, TransitionFacts DEF Reported, SameTask

\* An unfinished task takes "failed" and "stopped", a finished one nothing.
LEMMA ReportEnds ==
  ASSUME NEW s \in Snapshot, NEW to \in {"failed", "stopped"}
  PROVE  CanBegin(Reported(s, to))
  <1>1. s.task.state \in TaskState
    BY DEF Snapshot, TaskProgress
  <1>2. s.task.state \notin TerminalTask \cup {"idle"} => to \in TaskNext(s.task.state)
    BY <1>1 DEF TaskState, TerminalTask, TaskNext
  <1> QED
    BY <1>2, ReportedFacts DEF CanBegin, TerminalTask

\* #execute starts with a task of its own, running.
LEMMA BegunFacts ==
  ASSUME NEW s \in Snapshot, NEW t \in STRING, CanBegin(s)
  PROVE  /\ Begun(s, t) \in Snapshot
         /\ Begun(s, t).task.state = "running"
         /\ Begun(s, t).task.id = t
  <1> DEFINE cleared  == IF s.task.state \in TerminalTask
                         THEN After(s, [type |-> "task.reset"]) ELSE s
             c        == [type |-> "task.prepare", id |-> t]
             prepared == After(cleared, c)
  <1>1. cleared \in Snapshot
    <2>1. After(s, [type |-> "task.reset"]) = [s EXCEPT !.task = IdleTask]
      BY DEF After, MinecraftCommand, TaskCommand, TaskAfter
    <2>2. IdleTask \in TaskProgress
      BY DEF IdleTask, TaskProgress, Optional, TaskState
    <2> QED
      BY <2>1, <2>2 DEF Snapshot
  <1> HIDE DEF cleared
  <1>2. prepared = [cleared EXCEPT !.task = Prepare(t)]
    BY DEF After, MinecraftCommand, TaskCommand, TaskAfter
  <1>3. Prepare(t) \in TaskProgress /\ Prepare(t).id = t
    BY DEF Prepare, TaskProgress, Optional, TaskState
  <1> HIDE DEF prepared
  <1>4. prepared \in Snapshot /\ prepared.task.id = t
    BY <1>1, <1>2, <1>3 DEF Snapshot
  <1>5. Begun(s, t) = After(prepared, [type |-> "task.transition", to |-> "running"])
    BY DEF Begun, prepared, cleared
  <1>6. "running" \in TaskState \ {"idle", "preparing"}
    BY DEF TaskState
  <1> QED
    BY <1>4, <1>5, <1>6, TransitionFacts DEF SameTask

LEMMA ProgressFacts ==
  ASSUME NEW s \in Snapshot
  PROVE  LET t == After(s, [type |-> "task.progress.update", progress |-> 100]) IN
         SameTask(t, s) /\ t.task.state = s.task.state
  <1> DEFINE c == [type |-> "task.progress.update", progress |-> 100]
             x == [s.task EXCEPT !.progress = 100]
  <1>1. s.task \in TaskProgress
    BY DEF Snapshot
  <1>2. After(s, c) = [s EXCEPT !.task = x]
    BY DEF After, MinecraftCommand, TaskCommand, TaskAfter
  <1>3. x \in TaskProgress /\ x.id = s.task.id /\ x.state = s.task.state
    BY <1>1 DEF TaskProgress, Optional
  <1> HIDE DEF c, x
  <1>4. After(s, c) \in Snapshot /\ After(s, c).task = x
    BY <1>2, <1>3 DEF Snapshot
  <1> QED
    BY <1>3, <1>4 DEF c, SameTask

\* The runtime has no business with the task.
LEMMA RuntimeFacts ==
  ASSUME NEW s \in Snapshot, NEW c \in RuntimeCommands
  PROVE  After(s, c) \in Snapshot /\ After(s, c).task = s.task
  <1>1. c \in Command /\ c.type \notin TaskCommand
    BY ExecutorAssumption DEF ExecutorAssumption
  <1>2. CASE c.type \in MinecraftCommand
    <2> DEFINE m == MinecraftAfter(s.minecraft, c)
    <2>1. s.minecraft \in MinecraftState
      BY DEF Snapshot
    <2>2. m \in MinecraftState
      <3>1. CASE c.type = "minecraft.connection.transition"
        <4>1. c.to \in ConnectionState /\ m = Connection(s.minecraft, c.to)
          BY <1>1, <3>1 DEF Command, MinecraftAfter
        <4> QED
          BY <2>1, <4>1 DEF Connection, NoConnection, MinecraftState, Optional,
             TelemetryStatus, ConnectionState
      <3>2. CASE c.type = "minecraft.spawn.update"
        BY <2>1, <3>2 DEF MinecraftAfter, Spawn, MinecraftState, ConnectionState
      <3>3. CASE c.type = "minecraft.telemetry.update"
        <4>1. c.telemetry \in Telemetry /\ m = Report(s.minecraft, c.telemetry)
          BY <1>1, <3>3 DEF Command, MinecraftAfter
        <4>2. /\ Updated(s.minecraft.place, c.telemetry.place) \in Optional(STRING)
              /\ Updated(s.minecraft.health, c.telemetry.health) \in Optional(Int)
              /\ Updated(s.minecraft.hunger, c.telemetry.hunger) \in Optional(Int)
          BY <2>1, <4>1 DEF Updated, Telemetry, MinecraftState, Optional
        <4> QED
          BY <2>1, <4>1, <4>2 DEF Report, MinecraftState, TelemetryStatus
      <3>4. CASE c.type = "minecraft.telemetry.invalidate"
        BY <2>1, <3>4 DEF MinecraftAfter, Invalidate, MinecraftState, Optional,
           TelemetryStatus
      <3> QED
        BY <1>2, <3>1, <3>2, <3>3, <3>4 DEF MinecraftCommand
    <2>3. After(s, c) = [s EXCEPT !.minecraft = m]
      BY <1>2 DEF After, TaskCommand, MinecraftCommand
    <2> HIDE DEF m
    <2> QED
      BY <2>2, <2>3 DEF Snapshot
  <1>3. CASE c.type = "safety.other_player_detected"
    <2> DEFINE m == [s.minecraft EXCEPT !.other = TRUE]
    <2>1. m \in MinecraftState
      BY DEF Snapshot, MinecraftState
    <2>2. After(s, c) = IF s.minecraft.other THEN s
                        ELSE [s EXCEPT !.runtime = "stopping",
                                       !.stopReason = "other_player_detected",
                                       !.minecraft = m]
      BY <1>3 DEF After, Detection, TaskCommand, MinecraftCommand
    <2>3. /\ "stopping" \in RuntimeState
          /\ "other_player_detected" \in Optional(RuntimeStopReason)
      BY DEF RuntimeState, Optional, RuntimeStopReason
    <2> HIDE DEF m
    <2> QED
      BY <2>1, <2>2, <2>3 DEF Snapshot
  <1>4. CASE c.type = "schedule.intent.record"
    BY <1>1, <1>4 DEF Command, After, TaskCommand, MinecraftCommand, Snapshot,
       Optional
  <1>5. CASE c.type = "runtime.transition"
    BY <1>1, <1>5 DEF Command, After, TaskCommand, MinecraftCommand, Snapshot
  <1>6. CASE c.type = "runtime.stop_reason.record"
    BY <1>1, <1>6 DEF Command, After, TaskCommand, MinecraftCommand, Snapshot,
       Optional
  <1>7. CASE c.type = "runtime.error.record"
    BY <1>1, <1>7 DEF Command, After, TaskCommand, MinecraftCommand, Snapshot,
       Optional
  <1> QED
    BY <1>1, <1>2, <1>3, <1>4, <1>5, <1>6, <1>7 DEF Command, MinecraftCommand,
       TaskCommand

----------------------------------------------------------------------------
(* The invariant                                                           *)

\* The task that the executor has in hand, claimed or just being granted.
AtHand == IF pc = "claiming" THEN call["executor"].task ELSE task

Asking == {"denying", "halting", "finishing", "failing"}

Taken(t) == rows[t] \in {"claimed"} \cup Outcome

\* Who waits for an answer has asked, for what belongs to the place it is at.
CallsMatch ==
  /\ pc \in {"idle", "granted", "checked", "worked", "done"} =>
       call["executor"] = NoCall
  /\ pc = "claiming" =>
       /\ call["executor"].to = "claimed" /\ call["executor"].answer # "none"
       /\ call["executor"].answer # "ok" => call["executor"].task = NoValue
  /\ pc \in Asking =>
       /\ call["executor"].task = task /\ call["executor"].answer # "none"
       /\ pc = "finishing" => call["executor"].to \in {"completed", "failed"}
       /\ pc = "failing" => call["executor"].to = "failed"
       /\ pc \in {"denying", "halting"} => call["executor"].to = "stopped"
  /\ closer = "stopping" =>
       /\ call["closer"].to = "stopped" /\ call["closer"].task \in Tasks
       /\ call["closer"].answer # "none"
  /\ closer # "stopping" => call["closer"] = NoCall
  /\ closer = "closed" => pc = "done"

\* What was worked on, or is about to be, is no longer offered to anybody.
WorkedOnce ==
  /\ \A t \in Tasks : executions[t] # 0 => executions[t] = 1 /\ Taken(t)
  /\ AtHand # NoValue =>
       /\ Taken(AtHand)
       /\ pc \in {"claiming", "granted", "checked"} => executions[AtHand] = 0

\* The store's task is the one at hand, or none that is unfinished.
StoreFollows ==
  /\ pc \in {"idle", "claiming", "granted", "denying", "done"} => CanBegin(snapshot)
  /\ pc \in {"checked", "worked", "halting", "finishing", "failing"} =>
       /\ snapshot.task.state \in {"running"} \cup TerminalTask
       /\ snapshot.task.id = task
  /\ snapshot.task.state = "completed" =>
       snapshot.task.id \in Tasks /\ rows[snapshot.task.id] = "completed"
  /\ pc = "finishing" /\ Succeeded("executor") => rows[task] = call["executor"].to

CloserStops(t) == call["closer"].answer = "pending" /\ call["closer"].task = t

\* Unless something fails, a claimed row is in somebody's hands until it is
\* answered for, and only stops that are under way are taken for made.
Accounted ==
  /\ \A t \in Tasks : rows[t] = "claimed" => t = AtHand \/ CloserStops(t)
  /\ pc \in Asking /\ Answered("executor") =>
       rows[task] # "claimed" \/ CloserStops(task)
  /\ \A t \in stoppedIds :
       \/ rows[t] \in Outcome
       \/ CloserStops(t) /\ Taken(t)
       \/ pc \in {"denying", "halting"} /\ task = t /\ ~Answered("executor")

\* Unless somebody closes the executor, too, the two results go together.
Together ==
  /\ pc # "failing"
  /\ AtHand # NoValue /\ (pc \in Asking => ~Answered("executor")) =>
       rows[AtHand] = "claimed"
  /\ pc \in Asking /\ Answered("executor") =>
       Succeeded("executor") /\ rows[task] = call["executor"].to
  /\ pc \in {"checked", "worked", "finishing", "halting"} =>
       snapshot.task.state = "running"
  /\ pc \in {"idle", "claiming", "granted", "denying"}
       /\ snapshot.task.state \in TerminalTask =>
         snapshot.task.id \in Tasks /\ rows[snapshot.task.id] = snapshot.task.state

NoFailure == failures = 0 /\ crashes = 0

ExecutorInv ==
  /\ TypeOK
  /\ CallsMatch
  /\ WorkedOnce
  /\ StoreFollows
  /\ NoFailure => Accounted
  /\ NoFailure /\ closer = "open" => Together

----------------------------------------------------------------------------
(* Requests                                                                *)

CallState == [task : Optional(Tasks), to : Outcome \cup {"claimed"},
              answer : {"none", "pending", "ok", "error"}]

LEMMA TaskNames == NoValue \notin Tasks /\ Tasks \subseteq STRING
  BY ExecutorAssumption, NoValueAssumption
     DEF ExecutorAssumption, NoValueAssumption

LEMMA NoCallState ==
  NoCall \in CallState /\ NoCall.task = NoValue /\ NoCall.answer = "none"
  BY DEF NoCall, CallState, Optional

\* Everybody's request but that of p is left alone.
Calls(p) == \A q \in {"executor", "closer"} \ {p} : call'[q] = call[q]

LEMMA RequestFacts ==
  ASSUME TypeOK, NEW p \in {"executor", "closer"}, NEW t \in Optional(Tasks),
         NEW to \in Outcome \cup {"claimed"},
         call' = [call EXCEPT ![p] = Request(t, to)]
  PROVE  /\ call' \in [{"executor", "closer"} -> CallState]
         /\ call'[p].task = t /\ call'[p].to = to /\ call'[p].answer = "pending"
         /\ Calls(p)
  <1>1. Request(t, to) \in CallState
    BY DEF Request, CallState
  <1> QED
    BY <1>1 DEF TypeOK, CallState, Request, Calls

LEMMA NoCallFacts ==
  ASSUME TypeOK, NEW p \in {"executor", "closer"},
         call' = [call EXCEPT ![p] = NoCall]
  PROVE  /\ call' \in [{"executor", "closer"} -> CallState]
         /\ call'[p] = NoCall
         /\ Calls(p)
  BY NoCallState DEF TypeOK, CallState, Calls

LEMMA StopOnceFacts ==
  ASSUME TypeOK, NEW p \in {"executor", "closer"}, NEW t \in Tasks,
         StopOnce(p, t)
  PROVE  /\ call' \in [{"executor", "closer"} -> CallState]
         /\ call'[p].task = t /\ call'[p].to = "stopped"
         /\ call'[p].answer = IF t \in stoppedIds THEN "ok" ELSE "pending"
         /\ Calls(p)
         /\ stoppedIds' = stoppedIds \cup {t}
  <1> DEFINE asked == Request(t, "stopped")
             made  == [asked EXCEPT !.answer = "ok"]
  <1>1. /\ asked \in CallState /\ asked.task = t /\ asked.to = "stopped"
        /\ asked.answer = "pending"
    BY DEF Request, CallState, Optional, Outcome
  <1>2. /\ made \in CallState /\ made.task = t /\ made.to = "stopped"
        /\ made.answer = "ok"
    BY DEF Request, CallState, Optional, Outcome
  <1>3. /\ call' = [call EXCEPT ![p] = IF t \in stoppedIds THEN made ELSE asked]
        /\ stoppedIds' = stoppedIds \cup {t}
    BY DEF StopOnce
  <1> HIDE DEF asked, made
  <1> QED
    BY <1>1, <1>2, <1>3 DEF TypeOK, CallState, Calls

LEMMA InitExecutor == Init => ExecutorInv
  <1> SUFFICES ASSUME Init PROVE ExecutorInv
    OBVIOUS
  <1>1. InitialSnapshot \in Snapshot /\ InitialSnapshot.task.state = "idle"
    BY InitialConsistent DEF Consistent, InitialSnapshot, IdleTask
  <1>2. TypeOK
    BY <1>1, NoCallState, TaskNames, ExecutorAssumption
       DEF Init, TypeOK, CallState, ExecutorAssumption, Optional, RowStatus,
       Outcome
  <1>3. /\ pc = "idle" /\ task = NoValue /\ closer = "open" /\ stoppedIds = {}
        /\ \A t \in Tasks : rows[t] = "absent" /\ executions[t] = 0
        /\ call["executor"] = NoCall /\ call["closer"] = NoCall
        /\ snapshot.task.state = "idle"
    BY <1>1 DEF Init
  <1> QED
    BY <1>2, <1>3, NoCallState DEF ExecutorInv, CallsMatch, WorkedOnce,
       StoreFollows, Accounted, Together, AtHand, Asking, CanBegin, TerminalTask

----------------------------------------------------------------------------
(* The loop                                                                *)

LEMMA PollStep ==
  ASSUME ExecutorInv, Poll
  PROVE  ExecutorInv'
  <1>1. /\ pc = "idle" /\ pc' = "claiming" /\ task = NoValue
        /\ UNCHANGED <<snapshot, rows, task, outcome, closer, stoppedIds,
                       executions, failures, crashes>>
    BY DEF Poll, ExecutorInv, TypeOK
  <1>2. /\ call' \in [{"executor", "closer"} -> CallState]
        /\ call'["executor"].task = NoValue /\ call'["executor"].to = "claimed"
        /\ call'["executor"].answer = "pending"
        /\ call'["closer"] = call["closer"]
    BY RequestFacts DEF Poll, ExecutorInv, Optional, Calls
  <1>3. TypeOK'
    BY <1>1, <1>2 DEF ExecutorInv, TypeOK, CallState
  <1>4. CallsMatch'
    BY <1>1, <1>2 DEF ExecutorInv, CallsMatch, Asking
  <1>5. AtHand' = NoValue /\ AtHand = NoValue
    BY <1>1, <1>2 DEF AtHand
  <1>6. WorkedOnce' /\ StoreFollows'
    BY <1>1, <1>5 DEF ExecutorInv, WorkedOnce, StoreFollows, Taken
  <1>7. NoFailure => Accounted'
    BY <1>1, <1>2, <1>5 DEF ExecutorInv, Accounted, CloserStops, Taken, Asking
  <1>8. NoFailure /\ closer = "open" => Together'
    BY <1>1, <1>5 DEF ExecutorInv, Together, Asking
  <1> QED
    BY <1>1, <1>3, <1>4, <1>6, <1>7, <1>8 DEF ExecutorInv, NoFailure

LEMMA ExitStep ==
  ASSUME ExecutorInv, Exit
  PROVE  ExecutorInv'
  <1>1. /\ pc = "idle" /\ pc' = "done" /\ task = NoValue /\ closer # "open"
        /\ UNCHANGED <<snapshot, rows, task, outcome, call, closer, stoppedIds,
                       executions, failures, crashes>>
    BY DEF Exit, Closed, ExecutorInv, TypeOK
  <1>2. TypeOK' /\ CallsMatch'
    BY <1>1 DEF ExecutorInv, TypeOK, CallsMatch, Asking
  <1>3. AtHand' = NoValue /\ AtHand = NoValue
    BY <1>1 DEF AtHand
  <1>4. WorkedOnce' /\ StoreFollows'
    BY <1>1, <1>3 DEF ExecutorInv, WorkedOnce, StoreFollows, Taken
  <1>5. NoFailure => Accounted'
    BY <1>1, <1>3 DEF ExecutorInv, Accounted, CloserStops, Taken, Asking
  <1> QED
    BY <1>1, <1>2, <1>4, <1>5 DEF ExecutorInv, NoFailure

\* A step that ends in Rest, without a row changed; what it makes of the
\* snapshot is left to the caller.
LEMMA RestStep ==
  ASSUME ExecutorInv, Rest,
         pc \in {"claiming", "denying", "halting", "finishing", "failing"},
         UNCHANGED <<rows, outcome, closer, executions, failures, crashes>>,
         Answered("executor"),
         pc = "claiming" => AtHand = NoValue,
         stoppedIds' \subseteq stoppedIds,
         SameTask(snapshot', snapshot), CanBegin(snapshot'),
         snapshot'.task.state = "completed" =>
           snapshot.task.id \in Tasks /\ rows[snapshot.task.id] = "completed",
         NoFailure /\ closer = "open" /\ snapshot'.task.state \in TerminalTask =>
           snapshot.task.id \in Tasks /\ rows[snapshot.task.id] = snapshot'.task.state
  PROVE  ExecutorInv'
  <1>1. /\ call' \in [{"executor", "closer"} -> CallState]
        /\ call'["executor"] = NoCall /\ call'["closer"] = call["closer"]
        /\ pc' = "idle" /\ task' = NoValue
    BY NoCallFacts DEF Rest, ExecutorInv, Calls
  <1>2. TypeOK'
    BY <1>1 DEF ExecutorInv, TypeOK, CallState, SameTask, Optional
  <1>3. CallsMatch'
    BY <1>1 DEF ExecutorInv, CallsMatch, Asking
  <1>4. AtHand' = NoValue
    BY <1>1 DEF AtHand
  <1>5. WorkedOnce' /\ StoreFollows'
    BY <1>1, <1>4 DEF ExecutorInv, WorkedOnce, StoreFollows, Taken, SameTask
  <1>6. NoFailure => Accounted'
    <2> SUFFICES ASSUME NoFailure PROVE Accounted'
      OBVIOUS
    <2>1. Accounted
      BY DEF ExecutorInv
    <2>2. ASSUME NEW t \in Tasks, rows'[t] = "claimed" PROVE CloserStops(t)'
      <3>1. CASE t = AtHand
        <4>1. t = task /\ pc \in Asking
          BY <3>1, TaskNames DEF AtHand, Asking
        <4> QED
          BY <1>1, <2>1, <2>2, <4>1 DEF Accounted, CloserStops
      <3>2. CASE t # AtHand
        BY <1>1, <2>1, <2>2, <3>2 DEF Accounted, CloserStops
      <3> QED
        BY <3>1, <3>2
    <2>3. ASSUME NEW t \in stoppedIds'
          PROVE  rows'[t] \in Outcome \/ (CloserStops(t) /\ Taken(t))'
      BY <1>1, <2>1, <2>3 DEF Accounted, CloserStops, Taken, Answered
    <2> QED
      BY <1>1, <2>2, <2>3 DEF Accounted, Asking
  <1>7. NoFailure /\ closer = "open" => Together'
    BY <1>1, <1>4 DEF ExecutorInv, Together, Asking, SameTask
  <1> QED
    BY <1>2, <1>3, <1>5, <1>6, <1>7 DEF ExecutorInv, NoFailure

LEMMA ClaimAnsweredStep ==
  ASSUME ExecutorInv, ClaimAnswered
  PROVE  ExecutorInv'
  <1> DEFINE t == call["executor"].task
  <1>1. /\ pc = "claiming" /\ Answered("executor") /\ t \in Optional(Tasks)
        /\ AtHand = t /\ snapshot \in Snapshot
        /\ UNCHANGED <<snapshot, rows, outcome, closer, executions, failures,
                       crashes>>
    BY DEF ClaimAnswered, AtHand, ExecutorInv, TypeOK
  <1>2. CASE ~Succeeded("executor") \/ t = NoValue
    <2>1. AtHand = NoValue
      BY <1>1, <1>2 DEF ExecutorInv, CallsMatch, Succeeded
    <2>2. Rest /\ UNCHANGED stoppedIds
      BY <1>2 DEF ClaimAnswered
    <2> QED
      BY <1>1, <2>1, <2>2, RestStep DEF ExecutorInv, StoreFollows, Together,
         SameTask
  <1>3. CASE Succeeded("executor") /\ t # NoValue /\ Allows(snapshot)
    <2>1. /\ task' = t /\ pc' = "granted" /\ UNCHANGED stoppedIds
          /\ call' = [call EXCEPT !["executor"] = NoCall]
      BY <1>3 DEF ClaimAnswered
    <2>2. /\ call' \in [{"executor", "closer"} -> CallState]
          /\ call'["executor"] = NoCall /\ call'["closer"] = call["closer"]
      BY <2>1, NoCallFacts DEF ExecutorInv, Calls
    <2>3. t \in Tasks /\ AtHand' = t
      BY <1>1, <1>3, <2>1 DEF Optional, AtHand
    <2> HIDE DEF t
    <2>4. TypeOK' /\ CallsMatch'
      BY <1>1, <2>1, <2>2, <2>3, TaskNames DEF ExecutorInv, TypeOK, CallState,
         CallsMatch, Asking, Optional
    <2>5. WorkedOnce' /\ StoreFollows'
      BY <1>1, <1>3, <2>1, <2>3 DEF ExecutorInv, WorkedOnce, StoreFollows, Taken
    <2>6. NoFailure => Accounted'
      BY <1>1, <2>1, <2>2, <2>3 DEF ExecutorInv, Accounted, CloserStops, Taken,
         Asking
    <2>7. NoFailure /\ closer = "open" => Together'
      BY <1>1, <1>3, <2>1, <2>3 DEF ExecutorInv, Together, Asking
    <2> QED
      BY <1>1, <2>4, <2>5, <2>6, <2>7 DEF ExecutorInv, NoFailure
  <1>4. CASE Succeeded("executor") /\ t # NoValue /\ ~Allows(snapshot)
    <2>1. /\ task' = t /\ pc' = "denying" /\ StopOnce("executor", t)
      BY <1>4 DEF ClaimAnswered
    <2>2. t \in Tasks /\ AtHand' = t /\ Taken(t)
      BY <1>1, <1>4, <2>1 DEF Optional, AtHand, ExecutorInv, WorkedOnce
    <2> HIDE DEF t
    <2>3. /\ call' \in [{"executor", "closer"} -> CallState]
          /\ call'["executor"].task = t /\ call'["executor"].to = "stopped"
          /\ call'["executor"].answer = IF t \in stoppedIds THEN "ok" ELSE "pending"
          /\ call'["closer"] = call["closer"]
          /\ stoppedIds' = stoppedIds \cup {t}
      BY <2>1, <2>2, StopOnceFacts DEF ExecutorInv, Calls
    <2>4. TypeOK' /\ CallsMatch'
      BY <1>1, <2>1, <2>2, <2>3, TaskNames DEF ExecutorInv, TypeOK, CallState,
         CallsMatch, Asking, Optional
    <2>5. WorkedOnce' /\ StoreFollows'
      BY <1>1, <2>1, <2>2 DEF ExecutorInv, WorkedOnce, StoreFollows, Taken
    <2>6. NoFailure => Accounted'
      BY <1>1, <2>1, <2>2, <2>3 DEF ExecutorInv, Accounted, CloserStops, Taken,
         Asking, Answered, Outcome
    <2>7. NoFailure /\ closer = "open" => Together'
      <3> SUFFICES ASSUME NoFailure, closer = "open" PROVE Together'
        OBVIOUS
      <3>1. rows[t] = "claimed" /\ Together /\ Accounted
        BY <1>1, <2>2, TaskNames DEF ExecutorInv, Together, Asking
      <3>2. t \notin stoppedIds
        BY <1>1, <3>1, NoCallState DEF ExecutorInv, CallsMatch, Accounted,
           CloserStops, Outcome
      <3> QED
        BY <1>1, <2>1, <2>2, <2>3, <3>1, <3>2 DEF Together, Asking, Answered
    <2> QED
      BY <1>1, <2>4, <2>5, <2>6, <2>7 DEF ExecutorInv, NoFailure
  <1> QED
    BY <1>2, <1>3, <1>4

\* What a stop asked for by the executor itself, of the task at hand, keeps;
\* the snapshot may have changed before.
LEMMA HaltStep ==
  ASSUME ExecutorInv, pc \in {"granted", "worked"}, pc' = "halting",
         StopOnce("executor", task),
         snapshot' \in Snapshot,
         snapshot'.task.state \in {"running"} \cup TerminalTask,
         snapshot'.task.id = task,
         snapshot'.task.state = "completed" => rows[task] = "completed",
         NoFailure /\ closer = "open" => snapshot'.task.state = "running",
         UNCHANGED <<rows, task, outcome, closer, executions, failures, crashes>>
  PROVE  ExecutorInv'
  <1>1. task \in Tasks /\ AtHand = task /\ AtHand' = task /\ Taken(task)
    BY DEF ExecutorInv, TypeOK, AtHand, Optional, WorkedOnce
  <1>2. /\ call' \in [{"executor", "closer"} -> CallState]
        /\ call'["executor"].task = task /\ call'["executor"].to = "stopped"
        /\ call'["executor"].answer = IF task \in stoppedIds THEN "ok" ELSE "pending"
        /\ call'["closer"] = call["closer"]
        /\ stoppedIds' = stoppedIds \cup {task}
    BY <1>1, StopOnceFacts DEF ExecutorInv, Calls
  <1>3. TypeOK' /\ CallsMatch'
    BY <1>1, <1>2, TaskNames DEF ExecutorInv, TypeOK, CallState, CallsMatch,
       Asking, Optional
  <1>4. WorkedOnce' /\ StoreFollows'
    BY <1>1 DEF ExecutorInv, WorkedOnce, StoreFollows, Taken
  <1>5. NoFailure => Accounted'
    BY <1>1, <1>2 DEF ExecutorInv, Accounted, CloserStops, Taken, Asking,
       Answered, Outcome
  <1>6. NoFailure /\ closer = "open" => Together'
    <2> SUFFICES ASSUME NoFailure, closer = "open" PROVE Together'
      OBVIOUS
    <2>1. rows[task] = "claimed" /\ Accounted
      BY <1>1, TaskNames DEF ExecutorInv, Together, Asking
    <2>2. task \notin stoppedIds
      BY <1>1, <2>1, NoCallState DEF ExecutorInv, CallsMatch, Accounted,
         CloserStops, Outcome
    <2> QED
      BY <1>1, <1>2, <2>1, <2>2 DEF Together, Asking, Answered
  <1> QED
    BY <1>3, <1>4, <1>5, <1>6 DEF ExecutorInv, NoFailure

\* A result of the task at hand is sent to the queue.
LEMMA SendStep ==
  ASSUME ExecutorInv, NEW to \in {"completed", "failed"},
         pc \in {"worked", "finishing", "halting"},
         pc' \in {"finishing", "failing"}, pc' = "failing" => to = "failed",
         pc' = "finishing" => pc = "worked",
         call' = [call EXCEPT !["executor"] = Request(task, to)],
         SameTask(snapshot', snapshot), snapshot'.task.state = snapshot.task.state,
         stoppedIds' \subseteq stoppedIds,
         pc = "halting" => task \notin stoppedIds',
         NoFailure /\ closer = "open" => pc = "worked" /\ pc' = "finishing",
         UNCHANGED <<rows, task, outcome, closer, executions, failures, crashes>>
  PROVE  ExecutorInv'
  <1>1. task \in Tasks /\ AtHand = task /\ AtHand' = task /\ Taken(task)
    BY DEF ExecutorInv, TypeOK, AtHand, Optional, WorkedOnce
  <1>2. /\ call' \in [{"executor", "closer"} -> CallState]
        /\ call'["executor"].task = task /\ call'["executor"].to = to
        /\ call'["executor"].answer = "pending"
        /\ call'["closer"] = call["closer"]
    <2>1. task \in Optional(Tasks) /\ to \in Outcome \cup {"claimed"} /\ TypeOK
      BY <1>1 DEF Optional, Outcome, ExecutorInv
    <2>2. /\ call' \in [{"executor", "closer"} -> CallState]
          /\ call'["executor"].task = task /\ call'["executor"].to = to
          /\ call'["executor"].answer = "pending"
          /\ Calls("executor")
      BY <2>1, RequestFacts
    <2> QED
      BY <2>2 DEF Calls
  <1>3. TypeOK' /\ CallsMatch'
    BY <1>1, <1>2, TaskNames DEF ExecutorInv, TypeOK, CallState, CallsMatch,
       Asking, Optional, SameTask
  <1>4. WorkedOnce' /\ StoreFollows'
    BY <1>1, <1>2 DEF ExecutorInv, WorkedOnce, StoreFollows, Taken, SameTask,
       Succeeded
  <1>5. NoFailure => Accounted'
    BY <1>1, <1>2 DEF ExecutorInv, Accounted, CloserStops, Taken, Asking,
       Answered, Outcome, Succeeded
  <1>6. NoFailure /\ closer = "open" => Together'
    BY <1>1, <1>2, TaskNames DEF ExecutorInv, Together, Asking, Answered
  <1> QED
    BY <1>3, <1>4, <1>5, <1>6 DEF ExecutorInv, NoFailure

LEMMA BeginStep ==
  ASSUME ExecutorInv, Begin
  PROVE  ExecutorInv'
  <1>1. /\ pc = "granted" /\ task \in Tasks /\ task \in STRING
        /\ snapshot \in Snapshot /\ CanBegin(snapshot)
        /\ AtHand = task /\ call["executor"] = NoCall
        /\ UNCHANGED <<rows, task, outcome, closer, executions, failures, crashes>>
    BY TaskNames DEF Begin, ExecutorInv, TypeOK, Optional, StoreFollows, AtHand,
       CallsMatch
  <1>2. /\ snapshot' \in Snapshot /\ snapshot'.task.state = "running"
        /\ snapshot'.task.id = task
    <2>1. snapshot' = Begun(snapshot, task)
      BY <1>1 DEF Begin
    <2> QED
      BY <1>1, <2>1, BegunFacts
  <1>3. CASE Allows(snapshot)
    <2>1. pc' = "checked" /\ UNCHANGED <<call, stoppedIds>>
      BY <1>1, <1>3 DEF Begin
    <2>2. AtHand' = task
      BY <1>1, <2>1 DEF AtHand
    <2>3. TypeOK' /\ CallsMatch'
      BY <1>1, <1>2, <2>1, TaskNames DEF ExecutorInv, TypeOK, CallsMatch, Asking
    <2>4. WorkedOnce' /\ StoreFollows'
      BY <1>1, <1>2, <2>1, <2>2 DEF ExecutorInv, WorkedOnce, StoreFollows, Taken
    <2>5. NoFailure => Accounted'
      BY <1>1, <2>1, <2>2 DEF ExecutorInv, Accounted, CloserStops, Taken, Asking
    <2>6. NoFailure /\ closer = "open" => Together'
      BY <1>1, <1>2, <2>1, <2>2 DEF ExecutorInv, Together, Asking
    <2> QED
      BY <1>1, <2>3, <2>4, <2>5, <2>6 DEF ExecutorInv, NoFailure
  <1>4. CASE ~Allows(snapshot)
    <2>1. pc' = "halting" /\ StopOnce("executor", task)
      BY <1>1, <1>4 DEF Begin
    <2> QED
      BY <1>1, <1>2, <2>1, HaltStep
  <1> QED
    BY <1>3, <1>4

LEMMA WorkStep ==
  ASSUME ExecutorInv, Work
  PROVE  ExecutorInv'
  <1>1. /\ pc = "checked" /\ pc' = "worked" /\ task \in Tasks
        /\ AtHand = task /\ AtHand' = task
        /\ executions' = [executions EXCEPT ![task] = @ + 1]
        /\ UNCHANGED <<snapshot, rows, task, call, closer, stoppedIds, failures,
                       crashes>>
    BY DEF Work, ExecutorInv, TypeOK, Optional, AtHand
  <1>2. outcome' \in {"completed", "failed"}
    BY DEF Work
  <1>3. TypeOK' /\ CallsMatch'
    BY <1>1, <1>2, TaskNames DEF ExecutorInv, TypeOK, CallsMatch, Asking
  <1>4. WorkedOnce'
    BY <1>1, TaskNames DEF ExecutorInv, TypeOK, WorkedOnce, Taken
  <1>5. StoreFollows'
    BY <1>1 DEF ExecutorInv, StoreFollows
  <1>6. NoFailure => Accounted'
    BY <1>1 DEF ExecutorInv, Accounted, CloserStops, Taken, Asking
  <1>7. NoFailure /\ closer = "open" => Together'
    BY <1>1 DEF ExecutorInv, Together, Asking
  <1> QED
    BY <1>1, <1>3, <1>4, <1>5, <1>6, <1>7 DEF ExecutorInv, NoFailure

LEMMA AfterWorkStep ==
  ASSUME ExecutorInv, AfterWork
  PROVE  ExecutorInv'
  <1>1. /\ pc = "worked" /\ snapshot \in Snapshot
        /\ UNCHANGED <<rows, task, outcome, closer, executions, failures, crashes>>
    BY DEF AfterWork, ExecutorInv, TypeOK
  <1>2. CASE ~Allows(snapshot)
    <2>1. pc' = "halting" /\ StopOnce("executor", task) /\ UNCHANGED snapshot
      BY <1>2 DEF AfterWork
    <2> QED
      BY <1>1, <2>1, HaltStep DEF ExecutorInv, StoreFollows, Together
  <1>3. CASE Allows(snapshot)
    <2>1. Finish(outcome) /\ UNCHANGED stoppedIds
      BY <1>3 DEF AfterWork
    <2>2. CASE outcome = "completed" /\ ~AcceptsProgress(snapshot.task, 100)
      <3>1. GiveUp(task) /\ UNCHANGED snapshot
        BY <2>1, <2>2 DEF Finish
      <3>2. snapshot.task.state # "running"
        BY <2>2 DEF AcceptsProgress
      <3> QED
        BY <1>1, <2>1, <3>1, <3>2, SendStep DEF GiveUp, SameTask, ExecutorInv,
           Together
    <2>3. CASE ~(outcome = "completed" /\ ~AcceptsProgress(snapshot.task, 100))
      <3>1. /\ pc' = "finishing"
            /\ call' = [call EXCEPT !["executor"] = Request(task, outcome)]
            /\ \/ snapshot' = snapshot
               \/ snapshot' = After(snapshot, [type |-> "task.progress.update",
                                               progress |-> 100])
        BY <2>1, <2>3 DEF Finish
      <3>2. SameTask(snapshot', snapshot) /\ snapshot'.task.state = snapshot.task.state
        BY <1>1, <3>1, ProgressFacts DEF SameTask
      <3>3. outcome \in {"completed", "failed"}
        BY DEF ExecutorInv, TypeOK
      <3> QED
        BY <1>1, <2>1, <3>1, <3>2, <3>3, SendStep
    <2> QED
      BY <2>2, <2>3
  <1> QED
    BY <1>2, <1>3

LEMMA FinishAnsweredStep ==
  ASSUME ExecutorInv, FinishAnswered
  PROVE  ExecutorInv'
  <1> DEFINE to == call["executor"].to
  <1>1. /\ pc = "finishing" /\ Answered("executor") /\ task \in Tasks
        /\ snapshot \in Snapshot /\ snapshot.task.id = task
        /\ snapshot.task.state \in {"running"} \cup TerminalTask
        /\ to \in {"completed", "failed"}
        /\ UNCHANGED <<rows, outcome, closer, stoppedIds, executions, failures,
                       crashes>>
    BY DEF FinishAnswered, ExecutorInv, TypeOK, Optional, StoreFollows, CallsMatch,
       Asking
  <1>2. CASE Succeeded("executor")
    <2>1. snapshot' = Reported(snapshot, to) /\ Rest /\ rows[task] = to
      BY <1>1, <1>2 DEF FinishAnswered, ExecutorInv, StoreFollows
    <2>2. to \in TerminalTask
      BY <1>1 DEF TerminalTask
    <2> HIDE DEF to
    <2>3. /\ SameTask(snapshot', snapshot)
          /\ snapshot'.task.state =
               IF to \in TaskNext(snapshot.task.state) THEN to
               ELSE snapshot.task.state
      BY <1>1, <2>1, <2>2, ReportedFacts
    <2>4. /\ snapshot.task.state = "running" => to \in TaskNext("running")
          /\ snapshot.task.state # "running" => to \notin TaskNext(snapshot.task.state)
      BY <1>1 DEF TaskNext, TerminalTask
    <2>5. /\ CanBegin(snapshot')
          /\ snapshot.task.state = "running" => snapshot'.task.state = to
          /\ snapshot.task.state # "running" =>
               snapshot'.task.state = snapshot.task.state
      BY <1>1, <2>2, <2>3, <2>4 DEF CanBegin
    <2>6. NoFailure /\ closer = "open" => snapshot.task.state = "running"
      BY <1>1 DEF ExecutorInv, Together
    <2>7. snapshot.task.state = "completed" => rows[task] = "completed"
      BY <1>1 DEF ExecutorInv, StoreFollows
    <2> QED
      BY <1>1, <2>1, <2>3, <2>5, <2>6, <2>7, RestStep
  <1>3. CASE ~Succeeded("executor")
    <2>1. GiveUp(task) /\ UNCHANGED <<snapshot, task>>
      BY <1>3 DEF FinishAnswered
    <2>2. ~(NoFailure /\ closer = "open")
      BY <1>1, <1>3 DEF ExecutorInv, Together, Asking
    <2> QED
      BY <1>1, <2>1, <2>2, SendStep DEF GiveUp, SameTask
  <1> QED
    BY <1>2, <1>3

LEMMA ForgottenFacts ==
  ASSUME NEW p \in {"executor", "closer"}, stoppedIds' = Forgotten(p)
  PROVE  /\ stoppedIds' \subseteq stoppedIds
         /\ ~Succeeded(p) => call[p].task \notin stoppedIds'
  BY DEF Forgotten

LEMMA DenialAnsweredStep ==
  ASSUME ExecutorInv, DenialAnswered
  PROVE  ExecutorInv'
  <1>1. /\ pc = "denying" /\ Answered("executor") /\ Rest
        /\ snapshot \in Snapshot /\ CanBegin(snapshot)
        /\ stoppedIds' = Forgotten("executor")
        /\ UNCHANGED <<snapshot, rows, outcome, closer, executions, failures, crashes>>
    BY DEF DenialAnswered, ExecutorInv, TypeOK, StoreFollows
  <1>2. stoppedIds' \subseteq stoppedIds
    BY <1>1, ForgottenFacts
  <1> QED
    BY <1>1, <1>2, RestStep DEF ExecutorInv, StoreFollows, Together, SameTask

LEMMA HaltAnsweredStep ==
  ASSUME ExecutorInv, HaltAnswered
  PROVE  ExecutorInv'
  <1>1. /\ pc = "halting" /\ Answered("executor") /\ task \in Tasks
        /\ snapshot \in Snapshot /\ snapshot.task.id = task
        /\ snapshot.task.state \in {"running"} \cup TerminalTask
        /\ call["executor"].to = "stopped" /\ call["executor"].task = task
        /\ stoppedIds' = Forgotten("executor")
        /\ UNCHANGED <<rows, outcome, closer, executions, failures, crashes>>
    BY DEF HaltAnswered, ExecutorInv, TypeOK, Optional, StoreFollows, CallsMatch,
       Asking
  <1>2. /\ stoppedIds' \subseteq stoppedIds
        /\ ~Succeeded("executor") => task \notin stoppedIds'
    BY <1>1, ForgottenFacts
  <1>3. CASE Succeeded("executor")
    <2>1. snapshot' = Reported(snapshot, "stopped") /\ Rest
      BY <1>3 DEF HaltAnswered
    <2>2. /\ SameTask(snapshot', snapshot) /\ CanBegin(snapshot')
          /\ snapshot'.task.state =
               IF "stopped" \in TaskNext(snapshot.task.state) THEN "stopped"
               ELSE snapshot.task.state
      BY <1>1, <2>1, ReportedFacts, ReportEnds DEF TerminalTask
    <2>3. NoFailure /\ closer = "open" =>
            snapshot.task.state = "running" /\ rows[task] = "stopped"
      BY <1>1 DEF ExecutorInv, Together, Asking
    <2>4. "stopped" \in TaskNext("running")
      BY DEF TaskNext
    <2>5. snapshot.task.state = "completed" => rows[task] = "completed"
      BY <1>1 DEF ExecutorInv, StoreFollows
    <2> QED
      BY <1>1, <1>2, <2>1, <2>2, <2>3, <2>4, <2>5, RestStep
  <1>4. CASE ~Succeeded("executor")
    <2>1. GiveUp(task) /\ UNCHANGED <<snapshot, task>>
      BY <1>4 DEF HaltAnswered
    <2>2. ~(NoFailure /\ closer = "open")
      BY <1>1, <1>4 DEF ExecutorInv, Together, Asking
    <2> QED
      BY <1>1, <1>2, <1>4, <2>1, <2>2, SendStep DEF GiveUp, SameTask
  <1> QED
    BY <1>3, <1>4

LEMMA FailAnsweredStep ==
  ASSUME ExecutorInv, FailAnswered
  PROVE  ExecutorInv'
  <1>1. /\ pc = "failing" /\ Answered("executor") /\ Rest
        /\ snapshot \in Snapshot /\ snapshot' = Reported(snapshot, "failed")
        /\ UNCHANGED <<rows, outcome, closer, stoppedIds, executions, failures,
                       crashes>>
    BY DEF FailAnswered, ExecutorInv, TypeOK
  <1>2. /\ SameTask(snapshot', snapshot) /\ CanBegin(snapshot')
        /\ snapshot'.task.state \in {"failed", snapshot.task.state}
    BY <1>1, ReportedFacts, ReportEnds DEF TerminalTask
  <1>3. ~(NoFailure /\ closer = "open")
    BY <1>1 DEF ExecutorInv, Together
  <1>4. snapshot.task.state = "completed" =>
          snapshot.task.id \in Tasks /\ rows[snapshot.task.id] = "completed"
    BY DEF ExecutorInv, StoreFollows
  <1> QED
    BY <1>1, <1>2, <1>3, <1>4, RestStep

----------------------------------------------------------------------------
(* close()                                                                 *)

LEMMA CloseStep ==
  ASSUME ExecutorInv, Close
  PROVE  ExecutorInv'
  <1>1. /\ closer = "open" /\ closer' # "open"
        /\ UNCHANGED <<snapshot, rows, pc, task, outcome, executions, failures,
                       crashes>>
    BY DEF Close
  <1>2. CASE ~Active
    <2>1. closer' = "waiting" /\ UNCHANGED <<call, stoppedIds>>
      BY <1>2 DEF Close
    <2>2. TypeOK' /\ CallsMatch'
      BY <1>1, <2>1 DEF ExecutorInv, TypeOK, CallsMatch
    <2>3. WorkedOnce' /\ StoreFollows' /\ (NoFailure => Accounted')
      BY <1>1, <2>1 DEF ExecutorInv, WorkedOnce, StoreFollows, Accounted, AtHand,
         Taken, CloserStops, Answered, Succeeded
    <2> QED
      BY <1>1, <2>2, <2>3 DEF ExecutorInv, NoFailure
  <1>3. CASE Active
    <2>1. closer' = "stopping" /\ StopOnce("closer", task)
      BY <1>3 DEF Close
    <2>2. task \in Tasks /\ pc # "claiming" /\ Taken(task)
      BY <1>3, TaskNames DEF Active, ExecutorInv, TypeOK, Optional, WorkedOnce, AtHand
    <2>3. /\ call' \in [{"executor", "closer"} -> CallState]
          /\ call'["closer"].task = task /\ call'["closer"].to = "stopped"
          /\ call'["closer"].answer = IF task \in stoppedIds THEN "ok" ELSE "pending"
          /\ call'["executor"] = call["executor"]
          /\ stoppedIds' = stoppedIds \cup {task}
      BY <2>1, <2>2, StopOnceFacts DEF ExecutorInv, Calls
    <2>4. call["closer"].answer = "none"
      BY <1>1, NoCallState DEF ExecutorInv, CallsMatch
    <2>5. TypeOK' /\ CallsMatch'
      BY <1>1, <2>1, <2>2, <2>3 DEF ExecutorInv, TypeOK, CallState, CallsMatch
    <2>6. WorkedOnce' /\ StoreFollows'
      BY <1>1, <2>3 DEF ExecutorInv, WorkedOnce, StoreFollows, AtHand, Taken,
         Succeeded
    <2>7. NoFailure => Accounted'
      BY <1>1, <2>2, <2>3, <2>4 DEF ExecutorInv, Accounted, AtHand, CloserStops,
         Taken, Answered
    <2> QED
      BY <1>1, <2>5, <2>6, <2>7 DEF ExecutorInv, NoFailure
  <1> QED
    BY <1>2, <1>3

LEMMA StopAnsweredStep ==
  ASSUME ExecutorInv, StopAnswered
  PROVE  ExecutorInv'
  <1>1. /\ closer = "stopping" /\ closer' = "waiting" /\ Answered("closer")
        /\ snapshot \in Snapshot /\ snapshot' = Reported(snapshot, "stopped")
        /\ stoppedIds' = Forgotten("closer")
        /\ UNCHANGED <<rows, pc, task, outcome, executions, failures, crashes>>
    BY DEF StopAnswered, AfterStop, ExecutorInv, TypeOK
  <1>2. /\ call' \in [{"executor", "closer"} -> CallState]
        /\ call'["closer"] = NoCall /\ call'["executor"] = call["executor"]
    BY NoCallFacts DEF StopAnswered, ExecutorInv, Calls
  <1>3. stoppedIds' \subseteq stoppedIds
    BY <1>1, ForgottenFacts
  <1>4. /\ SameTask(snapshot', snapshot) /\ CanBegin(snapshot')
        /\ snapshot'.task.state \in {"stopped", snapshot.task.state}
    BY <1>1, ReportedFacts, ReportEnds DEF TerminalTask
  <1>5. TypeOK' /\ CallsMatch'
    BY <1>1, <1>2, <1>3, <1>4 DEF ExecutorInv, TypeOK, CallState, CallsMatch, SameTask
  <1>6. WorkedOnce' /\ StoreFollows'
    BY <1>1, <1>2, <1>4 DEF ExecutorInv, WorkedOnce, StoreFollows, AtHand, Taken,
       Succeeded, SameTask, TerminalTask
  <1>7. NoFailure => Accounted'
    BY <1>1, <1>2, <1>3 DEF ExecutorInv, Accounted, AtHand, CloserStops, Taken,
       Answered
  <1> QED
    BY <1>1, <1>5, <1>6, <1>7 DEF ExecutorInv, NoFailure

LEMMA CloseReturnsStep ==
  ASSUME ExecutorInv, CloseReturns
  PROVE  ExecutorInv'
  <1>1. /\ closer = "waiting" /\ closer' = "closed" /\ pc = "done"
        /\ UNCHANGED <<snapshot, rows, pc, task, outcome, call, stoppedIds,
                       executions, failures, crashes>>
    BY DEF CloseReturns, LoopEnded
  <1>2. TypeOK' /\ CallsMatch'
    BY <1>1 DEF ExecutorInv, TypeOK, CallsMatch
  <1>3. WorkedOnce' /\ StoreFollows' /\ (NoFailure => Accounted')
    BY <1>1 DEF ExecutorInv, WorkedOnce, StoreFollows, Accounted, AtHand,
       Taken, CloserStops, Answered, Succeeded
  <1> QED
    BY <1>1, <1>2, <1>3 DEF ExecutorInv, NoFailure

----------------------------------------------------------------------------
(* The database                                                            *)

\* What a request may ask for, by who waits for it and where.
LEMMA PendingFacts ==
  ASSUME ExecutorInv, NEW p \in {"executor", "closer"}, call[p].answer = "pending"
  PROVE  \/ /\ p = "executor" /\ pc = "claiming"
            /\ call[p].to = "claimed" /\ call[p].task = NoValue
         \/ /\ p = "executor" /\ pc \in Asking /\ task \in Tasks
            /\ call[p].to \in Outcome /\ call[p].task = task
         \/ /\ p = "closer" /\ closer = "stopping"
            /\ call[p].to = "stopped" /\ call[p].task \in Tasks
  <1>1. /\ call["executor"].answer = "pending" =>
             call["executor"] # NoCall /\ pc \in {"claiming"} \cup Asking
        /\ call["closer"].answer = "pending" => closer = "stopping"
    BY NoCallState DEF ExecutorInv, TypeOK, CallsMatch, Asking
  <1> QED
    BY <1>1, TaskNames DEF ExecutorInv, TypeOK, CallsMatch, Asking, Outcome, Optional

LEMMA EffectsFacts ==
  ASSUME NEW p \in {"executor", "closer"}, NEW e \in Effects(call[p])
  PROVE  \/ /\ call[p].to = "claimed"
            /\ e.task = NoValue /\ e.rows = rows
         \/ /\ call[p].to = "claimed"
            /\ e.task \in Tasks /\ rows[e.task] = "queued"
            /\ e.rows = [rows EXCEPT ![e.task] = "claimed"]
         \/ /\ call[p].to # "claimed"
            /\ e.task = call[p].task /\ rows[e.task] = "claimed"
            /\ e.rows = [rows EXCEPT ![e.task] = call[p].to]
  <1>1. CASE call[p].to # "claimed"
    BY <1>1 DEF Effects
  <1>2. CASE call[p].to = "claimed" /\ Claimable = {}
    BY <1>2 DEF Effects
  <1>3. CASE call[p].to = "claimed" /\ Claimable # {}
    BY <1>3 DEF Effects, Claimable
  <1> QED
    BY <1>1, <1>2, <1>3

LEMMA AnswerFacts ==
  ASSUME TypeOK, NEW p \in {"executor", "closer"}, NEW t \in Optional(Tasks),
         NEW a \in {"ok", "error"}, Answer(p, t, a)
  PROVE  /\ call' \in [{"executor", "closer"} -> CallState]
         /\ call'[p].task = t /\ call'[p].answer = a /\ call'[p].to = call[p].to
         /\ Calls(p)
  <1> DEFINE r == [call[p] EXCEPT !.task = t, !.answer = a]
  <1>1. call' = [call EXCEPT ![p] = r]
    BY DEF Answer, TypeOK
  <1>2. r \in CallState /\ r.task = t /\ r.answer = a /\ r.to = call[p].to
    BY DEF TypeOK, CallState
  <1> HIDE DEF r
  <1> QED
    BY <1>1, <1>2 DEF TypeOK, CallState, Calls

\* The row of t goes from claimed or queued to where the request asks for.
Moved(t, to) ==
  /\ t \in Tasks
  /\ rows' = [rows EXCEPT ![t] = to]
  /\ \/ rows[t] = "queued" /\ to = "claimed"
     \/ rows[t] = "claimed" /\ to \in Outcome

LEMMA MovedFacts ==
  ASSUME TypeOK, NEW t, NEW to, Moved(t, to)
  PROVE  /\ rows' \in [Tasks -> RowStatus]
         /\ rows'[t] = to
         /\ \A u \in Tasks : u # t => rows'[u] = rows[u]
         /\ \A u \in Tasks : Taken(u) => Taken(u)'
         /\ \A u \in Tasks : rows[u] \in Outcome => u # t
  BY DEF TypeOK, Moved, RowStatus, Outcome, Taken

\* A request is answered, and done or not.
LEMMA AnsweredStep ==
  ASSUME ExecutorInv,
         NEW p \in {"executor", "closer"}, call[p].answer = "pending",
         NEW t \in Optional(Tasks), NEW a \in {"ok", "error"}, Answer(p, t, a),
         \/ rows' = rows
         \/ \E u \in Tasks :
              /\ Moved(u, call[p].to)
              /\ call[p].to = "claimed" \/ u = call[p].task,
         a = "error" => t = call[p].task,
         a = "ok" => \/ t # NoValue /\ Moved(t, call[p].to)
                     \/ t = NoValue /\ rows' = rows /\ call[p].to = "claimed",
         call[p].to # "claimed" => t = call[p].task,
         UNCHANGED <<memory, crashes>>,
         failures' \in 0..MaxFailures,
         \/ failures' # 0
         \/ /\ failures' = failures
            /\ a = "error" => /\ call[p].to # "claimed"
                              /\ rows[call[p].task] # "claimed"
                              /\ rows' = rows
  PROVE  ExecutorInv'
  <1>1. /\ UNCHANGED <<snapshot, pc, task, outcome, closer, stoppedIds, executions,
                       crashes>>
        /\ TypeOK /\ CallsMatch /\ WorkedOnce /\ StoreFollows
    BY DEF memory, ExecutorInv
  <1>2. /\ call' \in [{"executor", "closer"} -> CallState]
        /\ call'[p].task = t /\ call'[p].answer = a /\ call'[p].to = call[p].to
        /\ Calls(p)
    BY <1>1, AnswerFacts
  <1>3. /\ rows' \in [Tasks -> RowStatus]
        /\ \A u \in Tasks : Taken(u) => Taken(u)'
        /\ \A u \in Tasks : rows[u] \in Outcome => rows'[u] = rows[u]
    BY <1>1, MovedFacts DEF TypeOK, Taken
  <1>4. TypeOK'
    BY <1>1, <1>2, <1>3 DEF TypeOK, CallState
  <1>5. \/ /\ p = "executor" /\ pc = "claiming"
           /\ call[p].to = "claimed" /\ call[p].task = NoValue
        \/ /\ p = "executor" /\ pc \in Asking /\ task \in Tasks
           /\ call[p].to \in Outcome /\ call[p].task = task
        \/ /\ p = "closer" /\ closer = "stopping"
           /\ call[p].to = "stopped" /\ call[p].task \in Tasks
    BY PendingFacts
  <1>6. "claimed" \notin Outcome /\ "stopped" \in Outcome /\ NoValue \notin Tasks
    BY TaskNames DEF Outcome
  <1>7. CallsMatch'
    BY <1>1, <1>2, <1>5, <1>6, NoCallState DEF CallsMatch, Asking, Calls
  <1>8. \/ p = "executor" /\ pc = "claiming" /\ AtHand = NoValue /\ AtHand' = t
        \/ (p # "executor" \/ pc # "claiming") /\ AtHand' = AtHand
    <2>1. p # "executor" => call'["executor"] = call["executor"]
      BY <1>2 DEF Calls
    <2>2. pc \in Asking => pc # "claiming"
      BY DEF Asking
    <2> QED
      BY <1>1, <1>2, <1>5, <2>1, <2>2 DEF AtHand
  <1>9. AtHand' # NoValue => AtHand' \in Tasks
    BY <1>4, <1>6 DEF TypeOK, AtHand, Optional
  <1>10. WorkedOnce'
    <2>1. \A u \in Tasks : executions'[u] # 0 => executions'[u] = 1 /\ Taken(u)'
      BY <1>1, <1>3 DEF WorkedOnce
    <2>2. CASE AtHand' = AtHand
      BY <1>1, <1>3, <1>9, <2>1, <2>2 DEF WorkedOnce
    <2>3. CASE AtHand = NoValue /\ AtHand' = t /\ pc = "claiming" /\ p = "executor"
      <3>1. t # NoValue => Moved(t, "claimed") /\ t \in Tasks
        BY <1>5, <2>3, <1>6, <1>1, <1>9 DEF Asking
      <3>2. t # NoValue => rows'[t] = "claimed" /\ rows[t] = "queued"
        BY <3>1, <1>1, <1>6, MovedFacts DEF Moved
      <3>3. t # NoValue => executions[t] = 0
        BY <3>1, <3>2, <1>1 DEF WorkedOnce, Taken, Outcome
      <3> QED
        BY <1>1, <2>1, <2>3, <3>2, <3>3 DEF WorkedOnce, Taken
    <2> QED
      BY <1>8, <2>2, <2>3
  <1>11. StoreFollows'
    <2>1. snapshot.task.state = "completed" =>
            snapshot.task.id \in Tasks /\ rows'[snapshot.task.id] = "completed"
      BY <1>1, <1>3 DEF StoreFollows, Outcome
    <2>2. ASSUME pc = "finishing", Succeeded("executor")'
          PROVE  rows'[task] = call'["executor"].to
      <3>1. CASE p = "executor"
        <4>1. call[p].to \in Outcome /\ call[p].task = task /\ task \in Tasks /\ a = "ok"
          BY <1>2, <1>5, <2>2, <3>1 DEF Succeeded
        <4> QED
          BY <1>1, <1>2, <1>6, <3>1, <4>1, MovedFacts DEF Moved
      <3>2. CASE p # "executor"
        <4>1. call'["executor"] = call["executor"] /\ Succeeded("executor")
          BY <1>2, <2>2, <3>2 DEF Calls, Succeeded
        <4>2. call["executor"].to \in Outcome /\ task \in Tasks
          BY <1>1, <2>2, <1>6 DEF CallsMatch, Asking, Outcome, TypeOK, Optional
        <4> QED
          BY <1>1, <1>3, <2>2, <4>1, <4>2 DEF StoreFollows
      <3> QED
        BY <3>1, <3>2
    <2> QED
      BY <1>1, <2>1, <2>2 DEF StoreFollows
  <1>12. ASSUME NoFailure'
         PROVE  Accounted'
    <2>1. /\ NoFailure /\ Accounted
          /\ a = "error" =>
               call[p].to # "claimed" /\ rows[call[p].task] # "claimed" /\ rows' = rows
      BY <1>1, <1>12 DEF NoFailure, ExecutorInv
    <2>2. \A u \in Tasks : CloserStops(u)' => CloserStops(u) /\ p # "closer"
      BY <1>2 DEF CloserStops, Calls
    <2>3. p # "closer" => \A u \in Tasks : CloserStops(u) => CloserStops(u)'
      BY <1>2 DEF CloserStops, Calls
    <2>4. call[p].to # "claimed" =>
            /\ call[p].task \in Tasks
            /\ rows'[call[p].task] # "claimed"
            /\ Taken(call[p].task) => rows'[call[p].task] \in Outcome
      <3>1. CASE a = "error"
        BY <1>5, <1>6, <2>1, <3>1 DEF Taken
      <3>2. CASE a = "ok" /\ call[p].to # "claimed"
        <4>1. Moved(call[p].task, call[p].to) /\ call[p].to \in Outcome
          BY <1>5, <1>6, <3>2
        <4> QED
          BY <1>1, <1>6, <4>1, MovedFacts DEF Moved
      <3> QED
        BY <3>1, <3>2
    <2>5. ASSUME NEW u \in Tasks, rows'[u] = "claimed"
          PROVE  \/ rows[u] = "claimed"
                 \/ p = "executor" /\ pc = "claiming" /\ u = t
      <3>1. CASE rows' = rows
        BY <2>5, <3>1
      <3>2. CASE a = "ok" /\ Moved(t, call[p].to)
        <4>1. rows'[t] = call[p].to /\ (u # t => rows'[u] = rows[u])
          BY <1>1, <3>2, MovedFacts
        <4> QED
          BY <1>5, <1>6, <2>5, <4>1 DEF Asking
      <3> QED
        BY <2>1, <3>1, <3>2
    <2>6. ASSUME NEW u \in Tasks, rows'[u] = "claimed"
          PROVE  u = AtHand' \/ CloserStops(u)'
      <3>1. CASE rows[u] = "claimed"
        <4>1. u = AtHand \/ CloserStops(u)
          BY <2>1, <3>1 DEF Accounted
        <4>2. CloserStops(u) => p # "closer"
          BY <1>5, <2>4, <2>6 DEF CloserStops
        <4>3. u = AtHand => AtHand' = AtHand
          BY <1>6, <1>8
        <4> QED
          BY <2>3, <4>1, <4>2, <4>3
      <3> QED
        BY <1>2, <1>8, <2>5, <2>6, <3>1
    <2>7. p = "executor" /\ pc \in Asking =>
            /\ rows'[task] # "claimed"
            /\ Taken(task) => rows'[task] \in Outcome
      BY <1>5, <1>6, <2>4 DEF Asking
    <2>8. ASSUME pc \in Asking, Answered("executor")'
          PROVE  rows'[task] # "claimed" \/ CloserStops(task)'
      <3>1. CASE p = "closer"
        <4>1. Answered("executor") /\ task \in Tasks /\ pc # "claiming"
          BY <1>1, <1>2, <2>8, <3>1 DEF Answered, Calls, Asking, TypeOK, Optional
        <4>2. rows[task] # "claimed" \/ CloserStops(task)
          BY <2>1, <2>8, <4>1 DEF Accounted
        <4>3. CloserStops(task) => rows'[task] # "claimed"
          BY <1>5, <2>4, <3>1 DEF CloserStops
        <4> QED
          BY <2>5, <4>1, <4>2, <4>3
      <3> QED
        BY <2>7, <2>8, <3>1
    <2>9. ASSUME NEW u \in stoppedIds
          PROVE  \/ rows'[u] \in Outcome
                 \/ CloserStops(u)' /\ Taken(u)'
                 \/ pc \in {"denying", "halting"} /\ task = u /\ ~Answered("executor")'
      <3>1. u \in Tasks
        BY <1>1 DEF TypeOK
      <3>2. CASE rows[u] \in Outcome
        BY <1>3, <3>1, <3>2
      <3>3. CASE CloserStops(u) /\ Taken(u)
        <4>1. CASE p = "closer"
          <5>1. call[p].task = u /\ call[p].to # "claimed"
            BY <1>5, <3>3, <4>1 DEF CloserStops
          <5> QED
            BY <2>4, <3>3, <5>1
        <4>2. CASE p # "closer"
          BY <1>3, <2>3, <3>1, <3>3, <4>2
        <4> QED
          BY <4>1, <4>2
      <3>4. CASE pc \in {"denying", "halting"} /\ task = u /\ ~Answered("executor")
        <4>1. CASE p = "executor"
          <5>1. Taken(task)
            BY <1>1, <1>6, <3>1, <3>4 DEF WorkedOnce, AtHand
          <5> QED
            BY <2>7, <3>4, <4>1, <5>1 DEF Asking
        <4>2. CASE p # "executor"
          BY <1>2, <3>4, <4>2 DEF Answered, Calls
        <4> QED
          BY <4>1, <4>2
      <3> QED
        BY <2>1, <3>2, <3>3, <3>4 DEF Accounted
    <2> QED
      BY <1>1, <2>6, <2>8, <2>9 DEF Accounted
  <1>13. ASSUME NoFailure', closer = "open"
         PROVE  Together'
    <2>1. /\ NoFailure /\ Together
          /\ a = "error" =>
               call[p].to # "claimed" /\ rows[call[p].task] # "claimed" /\ rows' = rows
      BY <1>1, <1>13 DEF NoFailure, ExecutorInv
    <2>2. p = "executor"
      BY <1>5, <1>13
    <2>3. pc \in Asking => Answered("executor")'
      BY <1>2, <2>2 DEF Answered
    <2>4. CASE pc = "claiming"
      <3>1. /\ AtHand' = t /\ call[p].to = "claimed"
            /\ a = "ok" /\ (t # NoValue => Moved(t, "claimed"))
        BY <1>5, <1>8, <2>1, <2>2, <2>4, <1>6 DEF Asking
      <3>2. AtHand' # NoValue => rows'[AtHand'] = "claimed"
        BY <1>1, <3>1, MovedFacts
      <3>3. snapshot.task.state \in TerminalTask =>
              /\ snapshot.task.id \in Tasks
              /\ rows'[snapshot.task.id] = snapshot.task.state
        BY <1>3, <2>1, <2>4 DEF Together, TerminalTask, Outcome
      <3> QED
        BY <1>1, <2>4, <3>2, <3>3 DEF Together, Asking
    <2>5. CASE pc \in Asking
      <3>1. /\ task \in Tasks /\ call[p].task = task /\ call[p].to \in Outcome
            /\ AtHand = task /\ pc # "claiming"
        BY <1>5, <2>2, <2>5 DEF Asking, AtHand
      <3>2. rows[task] = "claimed"
        BY <1>6, <2>1, <2>2, <3>1 DEF Together, Answered
      <3>3. a = "ok" /\ Moved(task, call[p].to)
        BY <1>6, <2>1, <3>1, <3>2
      <3>4. Succeeded("executor")' /\ rows'[task] = call'["executor"].to
        BY <1>1, <1>2, <2>2, <3>3, MovedFacts DEF Succeeded
      <3>5. snapshot.task.state \in TerminalTask /\ pc = "denying" =>
              /\ snapshot.task.id \in Tasks
              /\ rows'[snapshot.task.id] = snapshot.task.state
        BY <1>3, <2>1 DEF Together, TerminalTask, Outcome
      <3> QED
        BY <1>1, <2>1, <2>3, <2>5, <3>4, <3>5 DEF Together, Asking
    <2> QED
      BY <1>5, <2>2, <2>4, <2>5
  <1> QED
    BY <1>1, <1>4, <1>7, <1>10, <1>11, <1>12, <1>13 DEF ExecutorInv

\* An effect moves a row, or it is the answer that there is none.
LEMMA EffectMoves ==
  ASSUME ExecutorInv, NEW p \in {"executor", "closer"}, call[p].answer = "pending",
         NEW e \in Effects(call[p]), rows' = e.rows
  PROVE  \/ /\ call[p].to = "claimed"
            /\ e.task = NoValue /\ rows' = rows
         \/ /\ call[p].to = "claimed"
            /\ e.task # NoValue /\ Moved(e.task, call[p].to)
         \/ /\ call[p].to # "claimed" /\ e.task # NoValue
            /\ e.task = call[p].task /\ Moved(e.task, call[p].to)
  <1>1. CASE call[p].to = "claimed"
    <2>1. \/ e.task = NoValue /\ rows' = rows
          \/ /\ e.task \in Tasks /\ rows[e.task] = "queued"
             /\ rows' = [rows EXCEPT ![e.task] = "claimed"]
      BY <1>1, EffectsFacts
    <2> QED
      BY <1>1, <2>1, TaskNames DEF Moved
  <1>2. CASE call[p].to # "claimed"
    <2>1. /\ e.task = call[p].task /\ rows[e.task] = "claimed"
          /\ rows' = [rows EXCEPT ![e.task] = call[p].to]
      BY <1>2, EffectsFacts
    <2>2. call[p].task \in Tasks /\ call[p].to \in Outcome
      BY <1>2, PendingFacts DEF Outcome
    <2> QED
      BY <1>2, <2>1, <2>2, TaskNames DEF Moved
  <1> QED
    BY <1>1, <1>2

LEMMA ServeStep ==
  ASSUME ExecutorInv, NEW p \in {"executor", "closer"}, Serve(p)
  PROVE  ExecutorInv'
  <1>1. /\ call[p].answer = "pending"
        /\ UNCHANGED <<memory, failures, crashes>>
        /\ failures' \in 0..MaxFailures
        /\ call[p].task \in Optional(Tasks)
    BY DEF Serve, ExecutorInv, TypeOK
  <1>2. CASE Effects(call[p]) = {}
    <2>1. Answer(p, call[p].task, "error") /\ rows' = rows
      BY <1>2 DEF Serve
    <2>2. call[p].to # "claimed" /\ rows[call[p].task] # "claimed"
      BY <1>2 DEF Effects
    <2> QED
      BY <1>1, <2>1, <2>2, AnsweredStep
  <1>3. CASE Effects(call[p]) # {}
    <2>1. PICK e \in Effects(call[p]) : rows' = e.rows /\ Answer(p, e.task, "ok")
      BY <1>3 DEF Serve
    <2>2. \/ /\ call[p].to = "claimed"
             /\ e.task = NoValue /\ rows' = rows
          \/ /\ call[p].to = "claimed"
             /\ e.task # NoValue /\ Moved(e.task, call[p].to)
          \/ /\ call[p].to # "claimed" /\ e.task # NoValue
             /\ e.task = call[p].task /\ Moved(e.task, call[p].to)
      BY <1>1, <2>1, EffectMoves
    <2>3. e.task \in Optional(Tasks)
      BY <2>2 DEF Moved, Optional
    <2>4. \/ rows' = rows
          \/ \E u \in Tasks : /\ Moved(u, call[p].to)
                              /\ call[p].to = "claimed" \/ u = call[p].task
      BY <2>2 DEF Moved
    <2> DEFINE t == e.task
    <2> HIDE DEF t
    <2> QED
      BY <1>1, <2>1, <2>2, <2>3, <2>4, AnsweredStep
  <1> QED
    BY <1>2, <1>3

LEMMA BreakStep ==
  ASSUME ExecutorInv, NEW p \in {"executor", "closer"}, Break(p)
  PROVE  ExecutorInv'
  <1>1. /\ call[p].answer = "pending" /\ call[p].task \in Optional(Tasks)
        /\ Answer(p, call[p].task, "error")
        /\ UNCHANGED <<memory, crashes>>
    BY DEF Break, ExecutorInv, TypeOK
  <1>2. failures' # 0 /\ failures' \in 0..MaxFailures
    BY ExecutorAssumption DEF Break, ExecutorInv, TypeOK, ExecutorAssumption
  <1>3. \/ rows' = rows
        \/ \E e \in Effects(call[p]) : rows' = e.rows
    BY DEF Break
  <1>4. \/ rows' = rows
        \/ \E u \in Tasks : /\ Moved(u, call[p].to)
                            /\ call[p].to = "claimed" \/ u = call[p].task
    BY <1>1, <1>3, EffectMoves DEF Moved
  <1> QED
    BY <1>1, <1>2, <1>4, AnsweredStep

----------------------------------------------------------------------------
(* The runtime, the operator, a crash                                      *)

LEMMA RuntimeStep ==
  ASSUME ExecutorInv, NEW c \in RuntimeCommands, Runtime(c)
  PROVE  ExecutorInv'
  <1>1. /\ snapshot' = After(snapshot, c) /\ snapshot \in Snapshot
        /\ UNCHANGED <<rows, pc, task, outcome, call, closer, stoppedIds,
                       executions, failures, crashes>>
    BY DEF Runtime, ExecutorInv, TypeOK
  <1>2. snapshot' \in Snapshot /\ snapshot'.task = snapshot.task
    BY <1>1, RuntimeFacts
  <1>3. TypeOK' /\ CallsMatch' /\ WorkedOnce' /\ StoreFollows'
    BY <1>1, <1>2 DEF ExecutorInv, TypeOK, CallsMatch, WorkedOnce, StoreFollows,
       AtHand, Taken, Succeeded, CanBegin
  <1>4. NoFailure => Accounted'
    BY <1>1 DEF ExecutorInv, Accounted, AtHand, CloserStops, Taken, Answered
  <1>5. NoFailure /\ closer = "open" => Together'
    BY <1>1, <1>2 DEF ExecutorInv, Together, AtHand, Answered, Succeeded
  <1> QED
    BY <1>1, <1>3, <1>4, <1>5 DEF ExecutorInv, NoFailure

LEMMA OperatorStep ==
  ASSUME ExecutorInv, NEW t \in Tasks,
         Operator(t, "absent", "queued") \/ Operator(t, "queued", "cancelled")
  PROVE  ExecutorInv'
  <1>1. /\ UNCHANGED <<snapshot, pc, task, outcome, call, closer, stoppedIds,
                       executions, failures, crashes>>
        /\ rows[t] \in {"absent", "queued"}
        /\ rows' = [rows EXCEPT ![t] = rows'[t]]
        /\ rows'[t] \in {"queued", "cancelled"}
    BY DEF Operator, memory, ExecutorInv, TypeOK
  <1>2. /\ rows' \in [Tasks -> RowStatus]
        /\ \A u \in Tasks : u # t => rows'[u] = rows[u]
        /\ ~Taken(t) /\ ~Taken(t)' /\ rows[t] # "claimed"
    BY <1>1 DEF ExecutorInv, TypeOK, RowStatus, Taken, Outcome
  <1>3. \A u \in Tasks : /\ Taken(u) <=> Taken(u)'
                         /\ Taken(u) => rows'[u] = rows[u]
    BY <1>2 DEF Taken
  <1>4. \A u \in Tasks : rows[u] \in {"claimed"} \cup Outcome => Taken(u)
    BY DEF Taken
  <1>5. AtHand # NoValue => AtHand \in Tasks
    BY TaskNames DEF ExecutorInv, TypeOK, AtHand, Optional
  <1>6. AtHand' = AtHand
    BY <1>1 DEF AtHand
  <1>7. TypeOK' /\ CallsMatch'
    BY <1>1, <1>2 DEF ExecutorInv, TypeOK, CallsMatch
  <1>8. WorkedOnce'
    BY <1>1, <1>3, <1>5, <1>6 DEF ExecutorInv, WorkedOnce
  <1>9. pc \in {"finishing"} \cup Asking => AtHand = task /\ task \in Tasks
    BY TaskNames DEF AtHand, Asking, ExecutorInv, TypeOK, Optional
  <1>10. AtHand # NoValue => Taken(AtHand)
    BY DEF ExecutorInv, WorkedOnce
  <1>11. StoreFollows'
    BY <1>1, <1>3, <1>4, <1>9, <1>10, TaskNames
       DEF ExecutorInv, StoreFollows, Succeeded, Outcome
  <1>12. NoFailure => Accounted'
    <2>1. \A u \in Tasks : rows'[u] = "claimed" => rows[u] = "claimed"
      BY <1>2, <1>1
    <2>2. \A u \in Tasks : rows[u] \in Outcome => rows'[u] \in Outcome
      BY <1>3, <1>4
    <2>3. stoppedIds \subseteq Tasks
      BY DEF ExecutorInv, TypeOK
    <2> QED
      BY <1>1, <1>3, <1>6, <1>9, <2>1, <2>2, <2>3
         DEF ExecutorInv, Accounted, CloserStops, Answered
  <1>13. NoFailure /\ closer = "open" => Together'
    <2>1. TerminalTask \subseteq Outcome
      BY DEF TerminalTask, Outcome
    <2>2. AtHand # NoValue => rows'[AtHand] = rows[AtHand]
      BY <1>3, <1>5, <1>10
    <2>3. pc \in Asking => rows'[task] = rows[task]
      BY <1>9, <2>2, TaskNames
    <2>4. snapshot.task.id \in Tasks /\ rows[snapshot.task.id] \in TerminalTask =>
            rows'[snapshot.task.id] = rows[snapshot.task.id]
      BY <1>3, <1>4, <2>1
    <2> QED
      BY <1>1, <1>6, <2>2, <2>3, <2>4 DEF ExecutorInv, Together, Answered, Succeeded
  <1> QED
    BY <1>1, <1>7, <1>8, <1>11, <1>12, <1>13 DEF ExecutorInv, NoFailure

LEMMA CrashStep ==
  ASSUME ExecutorInv, Crash
  PROVE  ExecutorInv'
  <1>1. InitialSnapshot \in Snapshot /\ InitialSnapshot.task.state = "idle"
    BY InitialConsistent DEF Consistent, InitialSnapshot, IdleTask
  <1>2. /\ pc' = "idle" /\ task' = NoValue /\ closer' = "open"
        /\ call'["executor"] = NoCall /\ call'["closer"] = NoCall
        /\ snapshot'.task.state = "idle"
        /\ UNCHANGED <<rows, executions>>
    BY <1>1 DEF Crash
  <1>3. crashes' \in 0..MaxCrashes /\ crashes' # 0
    BY ExecutorAssumption DEF Crash, ExecutorInv, TypeOK, ExecutorAssumption
  <1>4. TypeOK'
    BY <1>1, <1>2, <1>3, NoCallState, TaskNames
       DEF Crash, ExecutorInv, TypeOK, CallState, Optional
  <1>5. CallsMatch' /\ WorkedOnce' /\ StoreFollows'
    BY <1>2, NoCallState DEF ExecutorInv, CallsMatch, WorkedOnce, StoreFollows,
       AtHand, Asking, Taken, CanBegin, TerminalTask
  <1> QED
    BY <1>3, <1>4, <1>5 DEF ExecutorInv, NoFailure

----------------------------------------------------------------------------

LEMMA NextExecutor == ExecutorInv /\ [Next]_vars => ExecutorInv'
  <1> SUFFICES ASSUME ExecutorInv, [Next]_vars PROVE ExecutorInv'
    OBVIOUS
  <1>1. CASE Loop
    BY <1>1, PollStep, ExitStep, ClaimAnsweredStep, BeginStep, WorkStep,
       AfterWorkStep, FinishAnsweredStep, DenialAnsweredStep, HaltAnsweredStep,
       FailAnsweredStep DEF Loop
  <1>2. CASE Close \/ StopAnswered \/ CloseReturns
    BY <1>2, CloseStep, StopAnsweredStep, CloseReturnsStep
  <1>3. ASSUME NEW p \in {"executor", "closer"}, Serve(p) \/ Break(p)
        PROVE  ExecutorInv'
    BY <1>3, ServeStep, BreakStep
  <1>4. ASSUME NEW c \in RuntimeCommands, Runtime(c)
        PROVE  ExecutorInv'
    BY <1>4, RuntimeStep
  <1>5. ASSUME NEW t \in Tasks,
               Operator(t, "absent", "queued") \/ Operator(t, "queued", "cancelled")
        PROVE  ExecutorInv'
    BY <1>5, OperatorStep
  <1>6. CASE Crash
    BY <1>6, CrashStep
  <1>7. CASE UNCHANGED vars
    BY <1>7 DEF vars, ExecutorInv, TypeOK, CallsMatch, WorkedOnce, StoreFollows,
       Accounted, Together, NoFailure, AtHand, CloserStops, Taken, Answered,
       Succeeded, CanBegin
  <1> QED
    BY <1>1, <1>2, <1>3, <1>4, <1>5, <1>6, <1>7 DEF Next

----------------------------------------------------------------------------
(* The theorems                                                            *)

\* Whatever answers, fails or crashes, who waits has asked for what belongs to
\* the place it is at; what was worked on is in nobody's reach any more; and
\* without a failure every claimed row is in somebody's hands.
THEOREM Invariance == Spec => []ExecutorInv
  BY InitExecutor, NextExecutor, PTL DEF Spec

\* The variables have their types.
THEOREM ExecutorTypeCorrect == Spec => []TypeOK
  <1>1. ExecutorInv => TypeOK
    BY DEF ExecutorInv
  <1> QED
    BY <1>1, Invariance, PTL

\* No task is worked on twice, over all processes and with any number of lost
\* requests and answers.
THEOREM WorkedOnAtMostOnce == Spec => []ExecutedOnce
  <1>1. ExecutorInv => ExecutedOnce
    BY DEF ExecutorInv, TypeOK, WorkedOnce, ExecutedOnce
  <1> QED
    BY <1>1, Invariance, PTL

\* An executor at rest can begin the next task, and has finished every row it
\* claimed unless the database failed, the process crashed or a stop by close()
\* is still under way.
THEOREM RestIsClean == Spec => []NothingLeftBehind
  <1>1. ASSUME ExecutorInv, pc \in {"idle", "done"}
        PROVE  CanBegin(snapshot)
    BY <1>1 DEF ExecutorInv, StoreFollows
  <1>2. ASSUME ExecutorInv, pc \in {"idle", "done"}, failures = 0, crashes = 0,
               closer # "stopping", NEW t \in Tasks, rows[t] = "claimed"
        PROVE  FALSE
    <2>1. AtHand = NoValue /\ t # NoValue
      BY <1>2, TaskNames DEF ExecutorInv, TypeOK, AtHand
    <2>2. ~CloserStops(t)
      BY <1>2, NoCallState DEF ExecutorInv, CallsMatch, CloserStops
    <2> QED
      BY <1>2, <2>1, <2>2 DEF ExecutorInv, Accounted, NoFailure
  <1>3. ExecutorInv => NothingLeftBehind
    BY <1>1, <1>2 DEF NothingLeftBehind
  <1> QED
    BY <1>3, Invariance, PTL

\* What the state store reports as completed is completed in the queue, and
\* undisturbed the two hold the same result of every task.
THEOREM SameResults == Spec => []ResultsAgree
  <1>1. ExecutorInv => ResultsAgree
    BY DEF ExecutorInv, StoreFollows, Together, NoFailure, ResultsAgree
  <1> QED
    BY <1>1, Invariance, PTL

\* After close() has returned, the process neither works, nor touches the
\* store's task, nor finishes a row.
THEOREM QuietOnceClosed == Spec => ClosedIsQuiet
  <1> DEFINE Quiet == closer = "closed" /\ closer' = "closed" =>
                        /\ UNCHANGED <<pc, executions, snapshot.task>>
                        /\ \A t \in Tasks : rows[t] = "claimed" =>
                                              rows'[t] = "claimed"
  <1>1. ASSUME ExecutorInv, [Next]_vars, closer = "closed", closer' = "closed"
        PROVE  Quiet
    <2>1. /\ pc = "done" /\ call["executor"] = NoCall /\ call["closer"] = NoCall
          /\ rows \in [Tasks -> RowStatus]
      BY <1>1 DEF ExecutorInv, CallsMatch, TypeOK
    <2>2. \A p \in {"executor", "closer"} : call[p].answer # "pending"
      BY <2>1, NoCallState
    <2>3. ~Loop
      BY <2>1 DEF Loop, Poll, Exit, ClaimAnswered, Begin, Work, AfterWork,
         FinishAnswered, DenialAnswered, HaltAnswered, FailAnswered
    <2>4. ~Close /\ ~StopAnswered /\ ~CloseReturns /\ ~Crash
      BY <1>1 DEF Close, StopAnswered, CloseReturns, Crash
    <2>5. ASSUME NEW p \in {"executor", "closer"}
          PROVE  ~Serve(p) /\ ~Break(p)
      BY <2>2 DEF Serve, Break
    <2>6. ASSUME NEW c \in RuntimeCommands, Runtime(c)
          PROVE  Quiet
      BY <1>1, <2>6, RuntimeFacts DEF Runtime, ExecutorInv, TypeOK
    <2>7. ASSUME NEW u \in Tasks,
                 Operator(u, "absent", "queued") \/ Operator(u, "queued", "cancelled")
          PROVE  Quiet
      BY <2>1, <2>7 DEF Operator, memory
    <2>8. CASE UNCHANGED vars
      BY <2>8 DEF vars
    <2> QED
      BY <1>1, <2>3, <2>4, <2>5, <2>6, <2>7, <2>8 DEF Next
  <1>2. ExecutorInv /\ [Next]_vars => [Quiet]_vars
    BY <1>1
  <1> QED
    BY <1>2, Invariance, PTL DEF Spec, ClosedIsQuiet

----------------------------------------------------------------------------
(* A round of the loop and a close end                                     *)

Pending(p) == call[p].answer = "pending"

\* What is left of a round, counted in steps of the loop and answers.
RoundLeft ==
  IF pc = "done" THEN 0
  ELSE IF pc = "idle" THEN 1
  ELSE IF pc \in {"failing", "denying"} THEN (IF Pending("executor") THEN 3 ELSE 2)
  ELSE IF pc \in {"halting", "finishing"} THEN (IF Pending("executor") THEN 5 ELSE 4)
  ELSE IF pc = "worked" THEN 6
  ELSE IF pc = "checked" THEN 7
  ELSE IF pc = "granted" THEN 8
  ELSE IF Pending("executor") THEN 10 ELSE 9

\* What is left of close(), besides the loop it waits for.
CloserLeft ==
  IF closer = "closed" THEN 0
  ELSE IF closer = "waiting" THEN 1
  ELSE IF closer = "stopping"
       THEN (IF Pending("closer") THEN 3 ELSE 2)
  ELSE 4

CloseLeft == RoundLeft + CloserLeft

LoopGoes(p)   == Loop \/ Serve(p) \/ Break(p)
CloserGoes(p) == StopAnswered \/ CloseReturns \/ Serve(p) \/ Break(p)

LEMMA LeftTypes ==
  /\ RoundLeft \in 0..10 /\ CloserLeft \in 0..4
  /\ RoundLeft' \in 0..10 /\ CloserLeft' \in 0..4
  BY DEF RoundLeft, CloserLeft

\* A round that has claimed goes one way through its places.
LEMMA LoopLower ==
  ASSUME ExecutorInv, Loop, ~Poll
  PROVE  /\ RoundLeft' < RoundLeft
         /\ closer' = closer /\ call'["closer"] = call["closer"]
  <1>1. call \in [{"executor", "closer"} -> CallState]
    BY DEF ExecutorInv, TypeOK, CallState
  <1>2. closer' = closer
    BY DEF Loop, Exit, ClaimAnswered, Begin, Work, AfterWork,
       FinishAnswered, DenialAnswered, HaltAnswered, FailAnswered
  <1>3. call'["closer"] = call["closer"]
    BY <1>1 DEF Loop, Exit, ClaimAnswered, Begin, Work, AfterWork, Finish, Rest,
       StopOnce, GiveUp, FinishAnswered, DenialAnswered, HaltAnswered, FailAnswered
  <1>4. CASE Exit
    BY <1>2, <1>3, <1>4 DEF Exit, RoundLeft
  <1>5. CASE ClaimAnswered
    <2>1. pc = "claiming" /\ pc' \in {"idle", "granted", "denying"}
      BY <1>5 DEF ClaimAnswered, Rest
    <2> QED
      BY <1>2, <1>3, <2>1 DEF RoundLeft
  <1>6. CASE Begin
    <2>1. pc = "granted" /\ pc' \in {"checked", "halting", "failing"}
      BY <1>6 DEF Begin, GiveUp
    <2> QED
      BY <1>2, <1>3, <2>1 DEF RoundLeft
  <1>7. CASE Work
    BY <1>2, <1>3, <1>7 DEF Work, RoundLeft
  <1>8. CASE AfterWork
    <2>1. pc = "worked" /\ pc' \in {"halting", "finishing", "failing"}
      BY <1>8 DEF AfterWork, Finish, GiveUp
    <2> QED
      BY <1>2, <1>3, <2>1 DEF RoundLeft
  <1>9. CASE FinishAnswered \/ HaltAnswered
    <2>1. pc \in {"finishing", "halting"} /\ pc' \in {"idle", "failing"}
      BY <1>9 DEF FinishAnswered, HaltAnswered, GiveUp, Rest
    <2> QED
      BY <1>2, <1>3, <2>1 DEF RoundLeft
  <1>10. CASE DenialAnswered \/ FailAnswered
    <2>1. pc \in {"denying", "failing"} /\ pc' = "idle"
      BY <1>10 DEF DenialAnswered, FailAnswered, Rest
    <2> QED
      BY <1>2, <1>3, <2>1 DEF RoundLeft
  <1> QED
    BY <1>2, <1>3, <1>4, <1>5, <1>6, <1>7, <1>8, <1>9, <1>10 DEF Loop

\* An answer, or its loss, goes to the one who waits for it.
LEMMA AnswerLower ==
  ASSUME ExecutorInv, NEW p \in {"executor", "closer"}, Serve(p) \/ Break(p)
  PROVE  /\ UNCHANGED <<pc, closer>>
         /\ p = "executor" => RoundLeft' < RoundLeft /\ CloserLeft' = CloserLeft
         /\ p = "closer" => CloserLeft' < CloserLeft /\ RoundLeft' = RoundLeft
  <1>1. call \in [{"executor", "closer"} -> CallState]
    BY DEF ExecutorInv, TypeOK, CallState
  <1>2. /\ call[p].answer = "pending" /\ UNCHANGED <<pc, closer>>
        /\ \E t, a : a \in {"ok", "error"} /\ Answer(p, t, a)
    BY DEF Serve, Break, memory
  <1>3. call'[p].answer \in {"ok", "error"}
    BY <1>1, <1>2 DEF Answer, CallState
  <1>4. \A q \in {"executor", "closer"} \ {p} : call'[q] = call[q]
    BY <1>1, <1>2 DEF Answer
  <1>5. CASE p = "executor"
    <2>1. pc \in {"claiming"} \cup Asking
      BY <1>2, <1>5, NoCallState DEF ExecutorInv, TypeOK, CallsMatch, Asking
    <2>2. CloserLeft' = CloserLeft
      BY <1>2, <1>4, <1>5 DEF CloserLeft, Pending
    <2> QED
      BY <1>2, <1>3, <1>5, <2>1, <2>2 DEF RoundLeft, Pending, Asking
  <1>6. CASE p = "closer"
    <2>1. closer = "stopping"
      BY <1>2, <1>6, NoCallState DEF ExecutorInv, CallsMatch
    <2>2. RoundLeft' = RoundLeft
      BY <1>2, <1>4, <1>6 DEF RoundLeft, Pending
    <2> QED
      BY <1>2, <1>3, <1>6, <2>1, <2>2 DEF CloserLeft, Pending
  <1> QED
    BY <1>2, <1>5, <1>6

\* The other steps.
LEMMA OthersLeave ==
  ASSUME NEW c, NEW t, NEW from, NEW to,
         Runtime(c) \/ Operator(t, from, to) \/ UNCHANGED vars
  PROVE  UNCHANGED <<RoundLeft, CloserLeft, pc, closer>>
  <1>1. UNCHANGED <<pc, closer, call>>
    BY DEF Runtime, Operator, memory, vars
  <1> QED
    BY <1>1 DEF RoundLeft, Pending, CloserLeft

LEMMA CloserLower ==
  ASSUME ExecutorInv, StopAnswered \/ CloseReturns
  PROVE  CloserLeft' < CloserLeft /\ RoundLeft' = RoundLeft
  <1>1. pc' = pc /\ call'["executor"] = call["executor"]
    BY DEF StopAnswered, CloseReturns, ExecutorInv, TypeOK
  <1>2. RoundLeft' = RoundLeft
    BY <1>1 DEF RoundLeft, Pending
  <1>3. CloserLeft' < CloserLeft
    BY DEF StopAnswered, AfterStop, CloseReturns, CloserLeft
  <1> QED
    BY <1>2, <1>3

\* A round that polls the queue ends, and no answer, denial, close or error of the
\* database leads it back to a place it has left.
RoundAdvances ==
  /\ (Loop /\ ~Poll) \/ Serve("executor") \/ Break("executor") => RoundLeft' < RoundLeft
  /\ pc \notin {"idle", "done"} => RoundLeft' <= RoundLeft

\* From close() on every step of the loop, of close() and of the database brings
\* close() nearer to its return: the loop polls no more.
CloseAdvances ==
  Closed /\ closer' # "open" =>
    /\ \/ Loop \/ StopAnswered \/ CloseReturns
       \/ \E p \in {"executor", "closer"} : Serve(p) \/ Break(p)
         => CloseLeft' < CloseLeft
    /\ CloseLeft' <= CloseLeft

LEMMA SumLower ==
  ASSUME NEW a \in Int, NEW b \in Int, NEW c \in Int, NEW d \in Int
  PROVE  /\ c < a /\ d = b => c + d < a + b
         /\ c = a /\ d < b => c + d < a + b
         /\ c + d \in Int
  OBVIOUS

LEMMA NextAdvances ==
  ASSUME ExecutorInv, [Next]_vars
  PROVE  RoundAdvances /\ CloseAdvances
  <1> DEFINE LoopSteps   == (Loop /\ ~Poll) \/ Serve("executor") \/ Break("executor")
             CloserSteps == StopAnswered \/ CloseReturns \/ Serve("closer") \/ Break("closer")
  <1>1. LoopSteps => RoundLeft' < RoundLeft /\ CloserLeft' = CloserLeft
    BY LoopLower, AnswerLower DEF CloserLeft, Pending
  <1>2. CloserSteps => CloserLeft' < CloserLeft /\ RoundLeft' = RoundLeft
    BY CloserLower, AnswerLower
  <1>3. Loop \/ StopAnswered \/ CloseReturns
          \/ (\E p \in {"executor", "closer"} : Serve(p) \/ Break(p))
          => LoopSteps \/ CloserSteps \/ Poll
    OBVIOUS
  <1>4. Poll => pc = "idle" /\ ~Closed
    BY DEF Poll
  <1>5. \/ LoopSteps \/ CloserSteps \/ Poll \/ Close \/ Crash
        \/ UNCHANGED <<RoundLeft, CloserLeft>>
    BY <1>3, OthersLeave DEF Next
  <1>6. Close => ~Closed /\ RoundLeft' <= RoundLeft
    <2>1. ASSUME Close PROVE pc' = pc /\ call'["executor"] = call["executor"]
      BY <2>1 DEF Close, StopOnce, ExecutorInv, TypeOK
    <2>2. ASSUME Close PROVE RoundLeft' = RoundLeft
      BY <2>1, <2>2 DEF RoundLeft, Pending
    <2> QED
      BY <2>2, LeftTypes DEF Close, Closed
  <1>7. Crash => closer' = "open" /\ RoundLeft' = 1
    BY DEF Crash, RoundLeft
  <1>8. pc \notin {"idle", "done"} => RoundLeft > 1
    BY DEF RoundLeft
  <1> HIDE DEF LoopSteps, CloserSteps
  <1>9. RoundAdvances
    <2>1. LoopSteps => RoundLeft' < RoundLeft
      BY <1>1
    <2>2. pc \notin {"idle", "done"} => RoundLeft' <= RoundLeft
      BY <1>1, <1>2, <1>4, <1>5, <1>6, <1>7, <1>8, LeftTypes
    <2> QED
      BY <2>1, <2>2 DEF RoundAdvances, LoopSteps
  <1>10. CloseAdvances
    <2> SUFFICES ASSUME Closed, closer' # "open"
                 PROVE  /\ LoopSteps \/ CloserSteps => CloseLeft' < CloseLeft
                        /\ CloseLeft' <= CloseLeft
      BY <1>3, <1>4 DEF CloseAdvances
    <2>1. /\ RoundLeft \in Int /\ RoundLeft' \in Int
          /\ CloserLeft \in Int /\ CloserLeft' \in Int
      BY LeftTypes
    <2>2. CloseLeft = RoundLeft + CloserLeft /\ CloseLeft' = RoundLeft' + CloserLeft'
      BY DEF CloseLeft
    <2>3. LoopSteps \/ CloserSteps => CloseLeft' < CloseLeft
      <3>1. RoundLeft' < RoundLeft /\ CloserLeft' = CloserLeft => CloseLeft' < CloseLeft
        BY <2>1, <2>2, SumLower
      <3>2. CloserLeft' < CloserLeft /\ RoundLeft' = RoundLeft => CloseLeft' < CloseLeft
        BY <2>1, <2>2, SumLower
      <3> QED
        BY <1>1, <1>2, <3>1, <3>2
    <2>4. UNCHANGED <<RoundLeft, CloserLeft>> => CloseLeft' = CloseLeft
      BY <2>2
    <2>5. CloseLeft \in Int /\ CloseLeft' \in Int
      BY <2>1, <2>2
    <2>6. \/ LoopSteps \/ CloserSteps \/ UNCHANGED <<RoundLeft, CloserLeft>>
      BY <1>4, <1>5, <1>6, <1>7
    <2> QED
      BY <2>3, <2>4, <2>5, <2>6
  <1> QED
    BY <1>9, <1>10

\* Every round of the loop ends after ten steps at most, whatever the database
\* answers, and leaves the executor at rest.
THEOREM RoundsAdvance == Spec => [][RoundAdvances]_vars
  <1>1. ExecutorInv /\ [Next]_vars => [RoundAdvances]_vars
    BY NextAdvances
  <1> QED
    BY <1>1, Invariance, PTL DEF Spec

\* close() needs thirteen steps at most: its own, those of the round under way and
\* the answers they wait for; nothing the runtime or an operator does adds to them.
THEOREM ClosesAdvance == Spec => [][CloseAdvances]_vars
  <1>1. ExecutorInv /\ [Next]_vars => [CloseAdvances]_vars
    BY NextAdvances
  <1> QED
    BY <1>1, Invariance, PTL DEF Spec

----------------------------------------------------------------------------
(* The executor against the life cycle the task queue promises.  It claims *)
(* tasks that are only read, so that no execution phase is ever recorded.  *)

Lifecycle == INSTANCE TaskLifecycle
               WITH Placing <- {}, status <- rows,
                    phase <- [t \in Tasks |-> "not_started"]

RowsFollowLifecycle == Lifecycle!Spec

\* A step leaves the rows alone, or one row goes one of the ways known.
LEMMA RowSteps ==
  ASSUME ExecutorInv, [Next]_vars
  PROVE  \/ UNCHANGED rows
         \/ \E t \in Tasks, to \in RowStatus : Moved(t, to)
         \/ \E t \in Tasks : \/ Operator(t, "absent", "queued")
                             \/ Operator(t, "queued", "cancelled")
  <1>1. CASE Loop \/ Close \/ StopAnswered \/ CloseReturns \/ Crash
    BY <1>1
       DEF Loop, Poll, Exit, ClaimAnswered, Begin, Work, AfterWork, FinishAnswered,
       DenialAnswered, HaltAnswered, FailAnswered, Close, StopAnswered, CloseReturns,
       Crash
  <1>2. ASSUME NEW p \in {"executor", "closer"}, Serve(p) \/ Break(p)
        PROVE  UNCHANGED rows \/ \E t \in Tasks, to \in RowStatus : Moved(t, to)
    <2>1. /\ call[p].answer = "pending"
          /\ UNCHANGED rows \/ \E e \in Effects(call[p]) : rows' = e.rows
      BY <1>2 DEF Serve, Break
    <2>2. ASSUME NEW e \in Effects(call[p]), rows' = e.rows
          PROVE  UNCHANGED rows \/ \E t \in Tasks, to \in RowStatus : Moved(t, to)
      <3>1. UNCHANGED rows \/ Moved(e.task, call[p].to)
        BY <2>1, <2>2, EffectMoves
      <3> QED
        BY <3>1 DEF Moved, RowStatus
    <2> QED
      BY <2>1, <2>2
  <1>3. ASSUME NEW c \in RuntimeCommands, Runtime(c)
        PROVE  UNCHANGED rows
    BY <1>3 DEF Runtime
  <1>4. CASE UNCHANGED vars
    BY <1>4 DEF vars
  <1> QED
    BY <1>1, <1>2, <1>3, <1>4 DEF Next

\* Whatever the executor, close(), lost answers and crashes make of the rows, a
\* task only goes the ways of the life cycle: what was claimed is finished or
\* stays claimed, and never goes back to the queue.
THEOREM KeepsLifecycle == Spec => RowsFollowLifecycle
  <1>1. Init => Lifecycle!Init
    BY DEF Init, Lifecycle!Init
  <1>2. ASSUME ExecutorInv, [Next]_vars
        PROVE  [Lifecycle!Next]_(Lifecycle!vars)
    <2>1. CASE UNCHANGED rows
      BY <2>1 DEF Lifecycle!vars
    <2>2. ASSUME NEW t \in Tasks, NEW to \in RowStatus, Moved(t, to)
          PROVE  Lifecycle!Next
      BY <2>2 DEF Moved, Outcome, Lifecycle!Next, Lifecycle!Claim, Lifecycle!Finish,
         Lifecycle!Move, Lifecycle!Outcome
    <2>3. ASSUME NEW t \in Tasks,
                 Operator(t, "absent", "queued") \/ Operator(t, "queued", "cancelled")
          PROVE  Lifecycle!Next
      BY <2>3 DEF Operator, Lifecycle!Next, Lifecycle!Enqueue, Lifecycle!Cancel,
         Lifecycle!Move
    <2> QED
      BY <1>2, <2>1, <2>2, <2>3, RowSteps
  <1>3. ExecutorInv /\ [Next]_vars => [Lifecycle!Next]_(Lifecycle!vars)
    BY <1>2
  <1> QED
    BY <1>1, <1>3, Invariance, PTL DEF Spec, RowsFollowLifecycle, Lifecycle!Spec
=============================================================================
