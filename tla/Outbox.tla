------------------------------- MODULE Outbox -------------------------------
(***************************************************************************)
(* The delivery of stored notifications.  The dispatcher of every run      *)
(* claims the first row that is not settled, for a lease, sends it and     *)
(* marks what became of it.  The rows outlive the runs: what one run left  *)
(* is delivered by another.  Each SQL statement or transaction is a step;  *)
(* a call may fail, before or after its commit.  Times in the rows are     *)
(* relative to the present: Tick brings them nearer.                       *)
(***************************************************************************)
EXTENDS StatePersistence

CONSTANTS
  MaxAttempts,  \* delivery attempts of a notification
  Lease,        \* leaseDurationMs, in ticks
  LockWait,     \* how long claimNext may wait for the claim lock
  SendTime,     \* how long the notification port may take
  RetryBase, RetryMax

ASSUME OutboxAssumption ==
  /\ MaxAttempts \in Nat \ {0}
  /\ LockWait \in Nat /\ SendTime \in Nat
  /\ RetryBase \in Nat \ {0} /\ RetryMax \in Nat \ {0}
  /\ Lease \in Nat

\* 10 s for the lock and 15 s for Discord are less than 30 s.
ASSUME LeaseAssumption == LockWait + SendTime < Lease

Nobody == "none"
Nothing == <<>>

VARIABLES
  worker,   \* of each run: where its dispatcher is ("polling", "claiming",
            \* "sending", "marking", "failing", "ended")
  claimed,  \* the message it has claimed, and at which attempt, or Nothing
  age       \* how long its claim, or its send, has taken

workerVars == <<worker, claimed, age>>
vars == <<persistenceVars, workerVars>>

Init ==
  /\ PersistenceInit
  /\ worker = [r \in Runs |-> "polling"]
  /\ claimed = [r \in Runs |-> Nothing]
  /\ age = [r \in Runs |-> 0]

----------------------------------------------------------------------------
(* The rows                                                                *)

Settled(m) == outbox[m].status \in {"delivered", "failed"}

Open(m) == outbox[m].status \in {"pending", "delivering"}

\* Seeded fault: rows are taken by time alone.
PrecedesByTime(m, n) == outbox[m].stamp < outbox[n].stamp

\* ORDER BY occurred_at, source_revision.  Messages that agree in both are of
\* different runs, and their order, that of the run ids, is left open.
Precedes(m, n) ==
  \/ outbox[m].stamp < outbox[n].stamp
  \/ outbox[m].stamp = outbox[n].stamp /\ m[2] < n[2]

Heads == {m \in Messages : Open(m) /\ \A n \in Messages : Open(n) => ~Precedes(n, m)}

\* Seeded faults: a lease is not waited for, and one that ran out is not taken
\* over.
AvailableDespiteLease(m, ago) ==
  outbox[m].status = "delivering" \/ outbox[m].attempts = 0 \/ outbox[m].due + ago <= 0

AvailableIfPending(m, ago) ==
  outbox[m].status = "pending" /\ (outbox[m].attempts = 0 \/ outbox[m].due + ago <= 0)

\* A row that was never tried has no next_attempt_at; the other times are
\* compared with the one at which the claim was asked for.
Available(m, ago) == outbox[m].attempts = 0 \/ outbox[m].due + ago <= 0

Owns(r, m) == outbox[m].status = "delivering" /\ outbox[m].owner = r

Exhausted(m) == outbox[m].attempts >= MaxAttempts

\* An attempt n that failed: doubling delays up to a limit.
Delay(n) ==
  LET doubled == RetryBase * 2 ^ (n - 1)
  IN  IF doubled \in 0..RetryMax THEN doubled ELSE RetryMax

Settles(m, status) ==
  outbox' = [outbox EXCEPT ![m] =
    [@ EXCEPT !.status = status, !.due = 0, !.owner = Nobody]]

----------------------------------------------------------------------------
(* The dispatcher                                                          *)

Goes(r, place) == worker' = [worker EXCEPT ![r] = place]

Idles(r) ==
  /\ Goes(r, "polling")
  /\ claimed' = [claimed EXCEPT ![r] = Nothing]
  /\ age' = [age EXCEPT ![r] = 0]

FailsHere == failures < MaxFailures /\ failures' = failures + 1

OutboxOnly == UNCHANGED <<life, subscriberVars, history, snapshot, checkpoint, ends>>

\* dispatchAvailable looks for the next message, unless it is told to stop.
Ask(r) ==
  /\ life[r] = "live" /\ worker[r] = "polling"
  /\ Goes(r, "claiming")
  /\ age' = [age EXCEPT ![r] = 0]
  /\ UNCHANGED <<persistenceVars, claimed>>

\* The transaction of claimNext on a head that may be taken.
Takes(r, m) ==
  outbox' = [outbox EXCEPT ![m] =
    [@ EXCEPT !.status = "delivering", !.attempts = outbox[m].attempts + 1,
              !.due = Lease - age[r], !.owner = r]]

Claim(r) ==
  /\ Running(r) /\ worker[r] = "claiming"
  /\ \/ /\ \A m \in Heads : ~Available(m, age[r])
        /\ Idles(r) /\ UNCHANGED <<outbox, failures>>
     \/ \E m \in Heads :
          /\ Available(m, age[r]) /\ Exhausted(m)
          /\ Settles(m, "failed")
          /\ Idles(r) /\ UNCHANGED failures
     \/ \E m \in Heads :
          /\ Available(m, age[r]) /\ ~Exhausted(m)
          /\ Takes(r, m)
          /\ \/ /\ Goes(r, "sending")
                /\ claimed' = [claimed EXCEPT ![r] = <<m, outbox[m].attempts + 1>>]
                /\ age' = [age EXCEPT ![r] = 0]
                /\ UNCHANGED failures
             \/ FailsHere /\ Idles(r)
     \/ FailsHere /\ Idles(r) /\ UNCHANGED outbox
  /\ OutboxOnly

\* The port's send resolves, or rejects, perhaps after the message has arrived:
\* the worker cannot tell.
Send(r) ==
  /\ Running(r) /\ worker[r] = "sending"
  /\ Goes(r, "marking") \/ Goes(r, "failing")
  /\ age' = [age EXCEPT ![r] = 0]
  /\ UNCHANGED <<persistenceVars, claimed>>

\* An error of markDelivered is handled as one of the port.
MarkDelivered(r) ==
  /\ Running(r) /\ worker[r] = "marking"
  /\ \/ /\ IF Owns(r, claimed[r][1])
           THEN Settles(claimed[r][1], "delivered") ELSE UNCHANGED outbox
        /\ Idles(r) /\ UNCHANGED failures
     \/ /\ FailsHere /\ Goes(r, "failing")
        /\ \/ UNCHANGED outbox
           \/ Owns(r, claimed[r][1]) /\ Settles(claimed[r][1], "delivered")
        /\ UNCHANGED <<claimed, age>>
  /\ OutboxOnly

\* The attempts compared are those of the row, the delay is that of the copy.
Postpones(r, m) ==
  IF ~Owns(r, m) THEN UNCHANGED outbox
  ELSE IF Exhausted(m) THEN Settles(m, "failed")
  ELSE outbox' = [outbox EXCEPT ![m] =
    [@ EXCEPT !.status = "pending", !.due = Delay(claimed[r][2]), !.owner = Nobody]]

MarkFailed(r) ==
  /\ Running(r) /\ worker[r] = "failing"
  /\ \/ Postpones(r, claimed[r][1]) /\ UNCHANGED failures
     \/ FailsHere /\ (UNCHANGED outbox \/ Postpones(r, claimed[r][1]))
  /\ Idles(r)
  /\ OutboxOnly

\* stop() resolves when the loop has ended; then the flush begins.
EndLoop(r) ==
  /\ life[r] = "stopping" /\ worker[r] = "polling"
  /\ Goes(r, "ended")
  /\ Becomes(r, "flushing")
  /\ UNCHANGED <<subscriberVars, tables, failures, ends, claimed, age>>

----------------------------------------------------------------------------
(* Runs and time                                                           *)

Subscriber(r) == Accept(r) \/ Persist(r) \/ GiveUp(r)

Lifetime(r) ==
  /\ RequestClose(r) \/ CloseSubscriber(r)
  /\ UNCHANGED <<subscriberVars, workerVars>>

Ends(r) ==
  /\ ClosePool(r) \/ Crash(r)
  /\ Forgets(r)
  /\ Goes(r, "ended")
  /\ claimed' = [claimed EXCEPT ![r] = Nothing]
  /\ age' = [age EXCEPT ![r] = 0]

Limit(r) == IF worker[r] = "claiming" THEN LockWait ELSE SendTime

Timed(r) == worker[r] \in {"claiming", "sending"}

\* A claim and a send end within their limits, so time does not pass them.
\* Past times need not be told apart further back than a claim can look.
Tick ==
  /\ \A r \in Runs : Timed(r) => age[r] < Limit(r)
  /\ age' = [r \in Runs |-> IF Timed(r) THEN age[r] + 1 ELSE age[r]]
  /\ outbox' = [m \in Messages |->
       IF Open(m) /\ outbox[m].due > -LockWait
       THEN [outbox[m] EXCEPT !.due = @ - 1] ELSE outbox[m]]
  /\ OutboxOnly /\ UNCHANGED <<failures, worker, claimed>>

Dispatcher(r) ==
  \/ Ask(r) \/ Claim(r) \/ Send(r) \/ MarkDelivered(r) \/ MarkFailed(r) \/ EndLoop(r)

Session(r) ==
  \/ Subscriber(r) /\ UNCHANGED workerVars
  \/ (Lifetime(r) \/ Ends(r)) /\ UNCHANGED <<tables, failures>>

Next == Tick \/ \E r \in Runs : Dispatcher(r) \/ Session(r)

Spec == Init /\ [][Next]_vars

\* The loop of a live dispatcher polls for ever, its calls return and time goes
\* on.  Nothing is assumed of the rest of the session.
Fairness == WF_vars(Tick) /\ \A r \in Runs : WF_vars(Dispatcher(r))

FairSpec == Spec /\ Fairness

----------------------------------------------------------------------------
(* Properties                                                              *)

Row == [status : {"none", "pending", "delivering", "delivered", "failed"},
        attempts : 0..MaxAttempts, due : Int,
        owner : Runs \union {Nobody}, stamp : 0..MaxStamp]

Event ==
  [revision : 1..MaxRevision, stamp : 0..MaxStamp, announced : BOOLEAN, working : BOOLEAN]

TypeOK ==
  /\ life \in [Runs -> {"live", "stopping", "flushing", "closing", "gone"}]
  /\ revision \in [Runs -> Nat] /\ changes \in 0..MaxRevision /\ stamp \in 0..MaxStamp
  /\ queue \in [Runs -> Seq(Event)] /\ tries \in [Runs -> Nat]
  /\ history \in [Runs -> SUBSET Event]
  /\ snapshot \in [Runs -> [revision : Nat, content : Nat]]
  /\ checkpoint \in [Runs -> [revision : Nat, content : Nat]]
  /\ outbox \in [Messages -> Row]
  /\ worker \in [Runs -> {"polling", "claiming", "sending", "marking", "failing", "ended"}]
  /\ claimed \in [Runs -> {Nothing} \union (Messages \X (1..MaxAttempts))]
  /\ age \in [Runs -> Nat]

\* A row that was overwritten by each of the events holds the last one.
Latest(events, row) ==
  /\ row.content = row.revision
  /\ \A e \in events : e.revision <= row.revision
  /\ row = NoRow \/ \E e \in events : e.revision = row.revision

\* What one transaction writes stays together, whatever was retried or lost:
\* the snapshot and the checkpoint are those of the latest stored change, and
\* a notification is in the outbox if and only if its change is stored.
StoredTogether ==
  \A r \in Runs :
    /\ Latest(history[r], snapshot[r])
    /\ Latest({e \in history[r] : e.working}, checkpoint[r])
    /\ \A v \in 1..MaxRevision : outbox[<<r, v>>].status # "none"
          <=> \E e \in history[r] : e.revision = v /\ e.announced

\* Whoever sends a notification, all earlier ones of the same run are settled,
\* and no earlier change is still to be stored.
SentInOrder ==
  \A r \in Runs : worker[r] = "sending" =>
    LET q == claimed[r][1][1]
        v == claimed[r][1][2]
    IN  /\ \A u \in 1..(v - 1) : ~Open(<<q, u>>)
        /\ \A i \in 1..Len(queue[q]) : queue[q][i].revision >= v

\* Two workers never send the same notification at the same time: the lease is
\* longer than the wait for the lock and the send together.
SentByOne ==
  \A r, q \in Runs : r # q /\ worker[r] = "sending" /\ worker[q] = "sending"
    => claimed[r][1] # claimed[q][1]

\* A notification is claimed for sending MaxAttempts times at most, however
\* many workers claim it, fail, lose their lease or die.
ClaimsBounded == \A m \in Messages : outbox[m].attempts <= MaxAttempts

\* Delivered and failed are final: a repeated insert, a late worker or another
\* claim leaves the row alone.
SettledIsFinal == [][\A m \in Messages : Settled(m) => outbox'[m] = outbox[m]]_vars

\* While some run stays live (MaxEnds leaves one) every stored notification is
\* delivered or given up, also if the worker that had claimed it is gone.
EverythingSettles == <>[](\A m \in Messages : ~Open(m))
=============================================================================
