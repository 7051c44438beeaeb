----------------------------- MODULE StateStore -----------------------------
(***************************************************************************)
(* InMemoryStateStore: one snapshot, changed by synchronous commands, and  *)
(* the delivery of every change to the subscribers in a later microtask.   *)
(*                                                                         *)
(* A listener may itself dispatch, subscribe or unsubscribe, so these may  *)
(* happen between any two calls of listeners, also inside one microtask.   *)
(***************************************************************************)
EXTENDS WorkSafetyPolicy, Sequences

CONSTANTS
  Commands,      \* the commands the program dispatches
  Subscribers,   \* subscriptions: each is made once and may be cancelled once
  MaxRevision    \* bound: no command is dispatched at this revision

ASSUME StoreAssumption ==
  /\ MaxRevision \in Nat
  /\ Commands \subseteq Command
  \* The supervisor reports a spawn with minecraft.spawn.update only.
  /\ [type |-> "minecraft.connection.transition", to |-> "spawned"]
       \notin Commands

VARIABLES
  snapshot,        \* #snapshot without its revision
  revision,        \* its revision
  subscriptions,   \* #subscriptions, in the order of the Set
  microtasks,      \* the queued notifications: an event and whom to call
  since,           \* since[s]: the revision at which s subscribed
  delivered        \* delivered[s]: the revisions s was called with

vars == <<snapshot, revision, subscriptions, microtasks, since, delivered>>

NotYet == -1
Active == {subscriptions[i] : i \in DOMAIN subscriptions}

Init ==
  /\ snapshot = InitialSnapshot
  /\ revision = 0
  /\ subscriptions = <<>>
  /\ microtasks = <<>>
  /\ since = [s \in Subscribers |-> NotYet]
  /\ delivered = [s \in Subscribers |-> <<>>]

\* Seeded fault: a change is not notified while a notification is under way.
NotifyUnlessBusy(event) ==
  IF event.call = <<>> \/ microtasks # <<>> THEN microtasks
  ELSE Append(microtasks, event)

\* #notify: the listeners are chosen now and called in a microtask.  (One
\* that calls nobody is not represented.)
Notify(event) ==
  IF event.call = <<>> THEN microtasks ELSE Append(microtasks, event)

\* A command that throws changes nothing, nor does one without an effect.
Dispatch(c) ==
  /\ revision < MaxRevision
  /\ Accepts(snapshot, c)
  /\ Changes(snapshot, c)
  /\ snapshot' = After(snapshot, c)
  /\ revision' = revision + 1
  /\ microtasks' = Notify([revision |-> revision + 1, call |-> subscriptions])
  /\ UNCHANGED <<subscriptions, since, delivered>>

Subscribe(s) ==
  /\ since[s] = NotYet
  /\ subscriptions' = Append(subscriptions, s)
  /\ since' = [since EXCEPT ![s] = revision]
  /\ UNCHANGED <<snapshot, revision, microtasks, delivered>>

Unsubscribe(s) ==
  /\ \E i \in DOMAIN subscriptions :
       /\ subscriptions[i] = s
       /\ subscriptions' = [j \in 1..(Len(subscriptions) - 1) |->
                             subscriptions[IF j < i THEN j ELSE j + 1]]
  /\ UNCHANGED <<snapshot, revision, microtasks, since, delivered>>

Receives(s) == s \in Active

\* The oldest microtask calls its next listener, unless it unsubscribed; an
\* exception of a listener is reported and changes nothing here.
Deliver ==
  /\ microtasks # <<>>
  /\ LET event == Head(microtasks)
         s     == Head(event.call)
     IN
     /\ microtasks' = IF Len(event.call) = 1 THEN Tail(microtasks)
                      ELSE [microtasks EXCEPT ![1].call = Tail(@)]
     /\ delivered' = IF Receives(s)
                     THEN [delivered EXCEPT ![s] = Append(@, event.revision)]
                     ELSE delivered
  /\ UNCHANGED <<snapshot, revision, subscriptions, since>>

Next ==
  \/ \E c \in Commands : Dispatch(c)
  \/ \E s \in Subscribers : Subscribe(s) \/ Unsubscribe(s)
  \/ Deliver

Spec == Init /\ [][Next]_vars

----------------------------------------------------------------------------
(* Properties of the snapshot                                              *)

\* The variables have their types.
TypeOK ==
  /\ snapshot \in Snapshot
  /\ revision \in Nat
  /\ subscriptions \in Seq(Subscribers)
  /\ microtasks \in Seq([revision : Nat, call : Seq(Subscribers)])
  /\ since \in [Subscribers -> Nat \cup {NotYet}]
  /\ delivered \in [Subscribers -> Seq(Nat)]

\* spawnCompleted and connection are written by three commands; they always
\* agree, so that the two checks of the safety policy can never differ.
SpawnAgrees ==
  snapshot.minecraft.spawned <=> snapshot.minecraft.connection = "spawned"

\* A snapshot without valid telemetry holds no reading at all: a later partial
\* report can not revive the health of an earlier connection.
NoStaleTelemetry ==
  LET m == snapshot.minecraft IN
  m.telemetry # "valid" =>
    m.place = NoValue /\ m.health = NoValue /\ m.hunger = NoValue

\* Once another player was seen the runtime is on its way out, and no order of
\* commands brings it back to connecting, ready or reconnecting.
DetectionStops ==
  snapshot.minecraft.other =>
    snapshot.runtime \in {"stopping", "stopped", "failed"}

\* The times of the task record agree with its state: finishedAt exactly in the
\* terminal states, startedAt wherever work has been running.
TaskTimesAgree ==
  LET t == snapshot.task IN
  /\ t.finished <=> t.state \in TerminalTask
  /\ t.state \in {"running", "paused", "completed"} => t.started
  /\ t.id = NoValue <=> t.state = "idle"
  /\ t.progress = NoValue <=> t.state = "idle"

\* A denial that is not resumable is never taken back: whatever is dispatched
\* later, no work is allowed again and the denial stays not resumable.
DenialIsFinal ==
  [][~Resumable(snapshot) => ~Resumable(snapshot') /\ ~Allows(snapshot')]_vars

\* What several commands write stays in agreement, in every order of commands:
\* spawn and connection, telemetry and readings, detection and runtime, the
\* task and its times.
FieldsAgree ==
  SpawnAgrees /\ NoStaleTelemetry /\ DetectionStops /\ TaskTimesAgree

----------------------------------------------------------------------------
(* Properties of the delivery                                              *)

\* A subscriber is called with consecutive revisions, starting with the first
\* change after its subscription: none twice, none skipped, none overtaken.
DeliveredInOrder ==
  \A s \in Subscribers :
    delivered[s] = [i \in 1..Len(delivered[s]) |-> since[s] + i]

\* With no microtask left, whoever is still subscribed has seen every change.
CaughtUp ==
  microtasks = <<>> =>
    \A s \in Active : Len(delivered[s]) = revision - since[s]

\* Every subscriber sees every change once, in order.
EveryChangeOnce == DeliveredInOrder /\ CaughtUp

\* After unsubscribing a listener is never called again, even for changes that
\* were made while it was subscribed.
SilentAfterUnsubscribe ==
  [][\A s \in Subscribers :
       since[s] # NotYet /\ s \notin Active => delivered'[s] = delivered[s]]_vars
=============================================================================
