-------------------------- MODULE TaskQueueProofs --------------------------
(***************************************************************************)
(* What holds of the task queue for any number of tasks and clients, any   *)
(* instruction and any clock.  Two commands may carry the same timestamp   *)
(* everywhere but in the part on how often a task is claimed.  And what    *)
(* holds of the migrations of its tables, for any number of callers and of *)
(* connections that are lost.                                              *)
(***************************************************************************)
EXTENDS TaskQueue, Migrations, TLAPS

\* What every version of a row satisfies, the ones clients remember included.
RowOK(t, r) ==
  /\ r.status = "queued" => r.attempts < MaxAttempts[t]
  /\ r.status = "claimed" => r.attempts \in 1..MaxAttempts[t]
  /\ r.phase # "not_started" =>
       t \in Placing /\ r.status \in {"claimed"} \cup Outcome
  /\ r.owner # NoClient \/ r.expiresAt # NoLease => r.status = "claimed"

\* A client that is about to write holds a row its command accepts; a client
\* inside a claim holds the lock of the queued row it read.
ClientOK(c) ==
  /\ pc[c] \in {"insert", "find", "replace", "commit"} => req[c].task \in Tasks
  /\ pc[c] \in {"find", "replace"} => req[c].op \in Update
  /\ pc[c] = "replace" =>
       /\ RowOK(req[c].task, seen[c])
       /\ Accepts(req[c].op, req[c].task, seen[c])
  /\ pc[c] = "commit" =>
       /\ lock[req[c].task] = c
       /\ seen[c] = row[req[c].task]
       /\ seen[c].status = "queued"

IInv ==
  /\ TypeOK
  /\ \A t \in Tasks : RowOK(t, row[t])
  /\ DeliveredOnce
  /\ \A c \in Clients : ClientOK(c)

LEMMA RowTypeFields ==
  ASSUME NEW r \in Row
  PROVE  /\ r.status \in Status /\ r.attempts \in Nat /\ r.phase \in Phase
         /\ r.createdAt \in Stamp /\ r.updatedAt \in Stamp
         /\ r.owner \in Clients \cup {NoClient}
         /\ r.expiresAt \in Stamp \cup {NoLease}
  BY DEF Row

\* What a replacing UPDATE stores is a row, and nothing but the six columns
\* is touched.
LEMMA ReplacedRow ==
  ASSUME NEW r \in Row, NEW s \in Status, NEW n \in Nat, NEW p \in Phase,
         NEW at \in Stamp
  PROVE  /\ Replaced(r, s, n, p, at) \in Row
         /\ Replaced(r, s, n, p, at).status = s
         /\ Replaced(r, s, n, p, at).attempts = n
         /\ Replaced(r, s, n, p, at).phase = p
         /\ Replaced(r, s, n, p, at).updatedAt = at
         /\ Replaced(r, s, n, p, at).owner = NoClient
         /\ Replaced(r, s, n, p, at).expiresAt = NoLease
  BY DEF Replaced, Row

\* An accepted command leads from a good row to a good row, wherever it is
\* applied: only what was read decides.
LEMMA UpdateKeepsRowOK ==
  ASSUME QueueAssumption,
         NEW t \in Tasks, NEW op \in Update, NEW e \in Row, NEW r \in Row,
         NEW at \in Stamp, RowOK(t, e), Accepts(op, t, e)
  PROVE  /\ UpdatedStatus(op, t, e) \in Status
         /\ UpdatedPhase(op, e) \in Phase
         /\ RowOK(t, Replaced(r, UpdatedStatus(op, t, e), e.attempts,
                              UpdatedPhase(op, e), at))
         /\ e.status \in {"queued", "claimed"}
  <1> DEFINE s == UpdatedStatus(op, t, e)
             p == UpdatedPhase(op, e)
  <1>1. /\ e.attempts \in Nat /\ e.status \in Status /\ e.phase \in Phase
        /\ MaxAttempts[t] \in Nat \ {0}
        /\ t \in Placing => MaxAttempts[t] = 1
    BY DEF Row, QueueAssumption
  <1>2. op \in {"completed", "failed", "stopped", "cancel", "release",
                "mark_delivery_started", "mark_verified"}
    BY DEF Update, Outcome
  <1>3. /\ s \in Status /\ p \in Phase
        /\ e.status \in {"queued", "claimed"}
        /\ s = "queued" => e.attempts < MaxAttempts[t]
        /\ s = "claimed" => e.attempts \in 1..MaxAttempts[t]
        /\ p # "not_started" =>
             t \in Placing /\ s \in {"claimed"} \cup Outcome
    BY <1>1, <1>2 DEF UpdatedStatus, UpdatedPhase, ReleasedStatus, Accepts,
       AllowedTransition, RowOK, Status, Terminal, Outcome, Phase
  <1> HIDE DEF s, p
  <1>4. RowOK(t, Replaced(r, s, e.attempts, p, at))
    BY <1>1, <1>3, ReplacedRow DEF RowOK
  <1> QED
    BY <1>3, <1>4 DEF s, p

LEMMA InitIInv == ASSUME QueueAssumption, Init PROVE IInv
  BY DEF QueueAssumption, Init, IInv, TypeOK, DeliveredOnce, ClientOK, RowOK,
     AbsentRow, NoRequest, Row, Request, Status, Terminal, Outcome, Phase,
     Stamp, Step, NoLease, Update

----------------------------------------------------------------------------
(* One lemma per kind of step.                                             *)

\* A client that returns is out of every obligation.
LEMMA ReturnClientOK ==
  ASSUME NEW c \in Clients, TypeOK, Return(c)
  PROVE  /\ pc' \in [Clients -> Step] /\ req' \in [Clients -> Request]
         /\ seen' \in [Clients -> Row]
         /\ ClientOK(c)'
         /\ \A d \in Clients \ {c} :
              pc'[d] = pc[d] /\ req'[d] = req[d] /\ seen'[d] = seen[d]
  <1>1. NoRequest \in Request /\ AbsentRow \in Row
    BY DEF NoRequest, Request, AbsentRow, Row, Status, Phase, Stamp, NoLease
  <1>2. "idle" \in Step
    BY DEF Step
  <1> QED
    BY <1>1, <1>2 DEF TypeOK, Return, ClientOK

LEMMA DispatchStep ==
  ASSUME QueueAssumption, IInv, NEW c \in Clients,
         NEW op \in Update \cup {"enqueue", "claim_next"},
         NEW t \in Tasks \cup {NoTask}, NEW step \in {"insert", "find", "select"},
         step = "find" => op \in Update, step # "select" => t \in Tasks,
         Dispatch(c, op, t, step)
  PROVE  IInv'
  <1>1. TypeOK'
    BY DEF IInv, TypeOK, Dispatch, history, Request, Step, Stamp
  <1>2. (\A u \in Tasks : RowOK(u, row[u]))' /\ DeliveredOnce'
    BY DEF IInv, Dispatch, history, RowOK, DeliveredOnce
  <1>3. ASSUME NEW d \in Clients PROVE ClientOK(d)'
    <2>1. CASE d = c
      BY <2>1 DEF IInv, TypeOK, Dispatch, ClientOK
    <2>2. CASE d # c
      BY <2>2 DEF IInv, TypeOK, Dispatch, ClientOK, RowOK, Accepts,
         AllowedTransition, history
    <2> QED
      BY <2>1, <2>2
  <1> QED
    BY <1>1, <1>2, <1>3 DEF IInv

LEMMA InsertStep ==
  ASSUME QueueAssumption, IInv, NEW c \in Clients, Insert(c)
  PROVE  IInv'
  <1> DEFINE t == req[c].task
  <1>1. t \in Tasks /\ req[c].at \in Stamp /\ Return(c)
    BY DEF IInv, TypeOK, ClientOK, Insert, Request
  <1>2. row' \in [Tasks -> Row] /\ (\A u \in Tasks : RowOK(u, row'[u]))
    <2> DEFINE new == [AbsentRow EXCEPT !.status = "queued",
                                        !.createdAt = req[c].at,
                                        !.updatedAt = req[c].at]
    <2>1. new \in Row
      BY <1>1 DEF AbsentRow, Row, Status, Phase, Stamp, NoLease
    <2>2. RowOK(t, new)
      BY <1>1 DEF AbsentRow, RowOK, QueueAssumption
    <2>3. row' = row \/ row' = [row EXCEPT ![t] = new]
      BY DEF Insert
    <2> QED
      BY <1>1, <2>1, <2>2, <2>3 DEF IInv, TypeOK
  <1>3. DeliveredOnce'
    BY <1>1 DEF IInv, TypeOK, Insert, DeliveredOnce, RowOK, AbsentRow, history,
       Outcome
  <1>4. ASSUME NEW d \in Clients PROVE ClientOK(d)'
    <2>1. \A u \in Tasks : row[u].status # "absent" => row'[u] = row[u]
      BY <1>1 DEF Insert, IInv, TypeOK
    <2> QED
      BY <1>1, <2>1, ReturnClientOK DEF IInv, ClientOK, Insert
  <1> QED
    BY <1>1, <1>2, <1>3, <1>4, ReturnClientOK DEF IInv, TypeOK, Insert, history

LEMMA FindStep ==
  ASSUME QueueAssumption, IInv, NEW c \in Clients, Find(c)
  PROVE  IInv'
  <1>1. req[c].task \in Tasks /\ req[c].op \in Update
    BY DEF IInv, ClientOK, Find
  <1>2. (\A u \in Tasks : RowOK(u, row[u]))' /\ DeliveredOnce'
    BY DEF IInv, Find, history, RowOK, DeliveredOnce
  <1>3. CASE Return(c)
    BY <1>2, <1>3, ReturnClientOK DEF IInv, TypeOK, ClientOK, Find, history
  <1>4. CASE /\ Accepts(req[c].op, req[c].task, row[req[c].task])
             /\ seen' = [seen EXCEPT ![c] = row[req[c].task]]
             /\ pc' = [pc EXCEPT ![c] = "replace"]
             /\ UNCHANGED req
    <2>1. TypeOK'
      BY <1>1, <1>4 DEF IInv, TypeOK, Find, history, Step
    <2>2. ASSUME NEW d \in Clients PROVE ClientOK(d)'
      <3>1. CASE d = c
        BY <1>1, <1>4, <3>1 DEF IInv, TypeOK, ClientOK, Accepts, RowOK,
           AllowedTransition
      <3>2. CASE d # c
        BY <1>4, <3>2 DEF IInv, TypeOK, ClientOK, Find
      <3> QED
        BY <3>1, <3>2
    <2> QED
      BY <1>2, <2>1, <2>2 DEF IInv
  <1> QED
    BY <1>3, <1>4 DEF Find

LEMMA WriteStep ==
  ASSUME QueueAssumption, IInv, NEW c \in Clients, Write(c)
  PROVE  IInv'
  <1> DEFINE t   == req[c].task
             op  == req[c].op
             e   == seen[c]
             new == Replaced(row[t], UpdatedStatus(op, t, e), e.attempts,
                             UpdatedPhase(op, e), req[c].at)
  <1>1. /\ t \in Tasks /\ op \in Update /\ req[c].at \in Stamp
        /\ e \in Row /\ row[t] \in Row /\ e.attempts \in Nat
        /\ RowOK(t, e) /\ Accepts(op, t, e) /\ lock[t] = NoClient
        /\ Return(c)
    BY DEF IInv, TypeOK, ClientOK, Write, Request, Row
  <1>2. /\ new \in Row /\ RowOK(t, new)
        /\ new.phase = UpdatedPhase(op, e)
    BY <1>1, UpdateKeepsRowOK, ReplacedRow
  <1>3. CASE ~Unchanged(row[t], e)
    <2>1. UNCHANGED <<row, deliveries, now, lock, claims>>
      BY <1>3 DEF Write
    <2>2. ASSUME NEW d \in Clients PROVE ClientOK(d)'
      BY <1>1, <2>1, ReturnClientOK DEF IInv, ClientOK
    <2> QED
      BY <1>1, <2>1, <2>2, ReturnClientOK DEF IInv, TypeOK, DeliveredOnce
  <1>4. CASE Unchanged(row[t], e)
    <2>1. /\ row' = [row EXCEPT ![t] = new]
          /\ deliveries' = IF op = "mark_delivery_started"
                           THEN [deliveries EXCEPT ![t] = @ + 1]
                           ELSE deliveries
          /\ UNCHANGED <<now, lock, claims>>
      BY <1>4 DEF Write
    <2>2. row[t].phase = e.phase /\ e.phase \in Phase
      BY <1>1, <1>4 DEF Unchanged, Row
    <2>3. TypeOK'
      BY <1>1, <1>2, <2>1, ReturnClientOK DEF IInv, TypeOK
    <2>4. (\A u \in Tasks : RowOK(u, row[u]))'
      BY <1>1, <1>2, <2>1 DEF IInv, TypeOK, RowOK
    <2>5. DeliveredOnce'
      <3>1. op = "mark_delivery_started" =>
              e.phase = "not_started" /\ new.phase # "not_started"
        BY <1>1, <1>2 DEF Accepts, UpdatedPhase, Outcome
      <3>2. op # "mark_delivery_started" =>
              (new.phase = "not_started" <=> e.phase = "not_started")
        BY <1>1, <1>2 DEF Accepts, UpdatedPhase, Outcome, Update,
           AllowedTransition
      <3> HIDE DEF new
      <3> QED
        BY <1>1, <2>1, <2>2, <3>1, <3>2 DEF IInv, TypeOK, DeliveredOnce
    <2>6. ASSUME NEW d \in Clients PROVE ClientOK(d)'
      <3>1. CASE d = c
        BY <1>1, <3>1, ReturnClientOK DEF IInv
      <3>2. CASE d # c
        <4>1. ClientOK(d) /\ pc'[d] = pc[d] /\ req'[d] = req[d]
                /\ seen'[d] = seen[d]
          BY <1>1, <3>2, ReturnClientOK DEF IInv
        <4>2. pc[d] = "commit" => lock[req[d].task] = d /\ req[d].task # t
          BY <1>1, <4>1 DEF ClientOK, QueueAssumption
        <4> QED
          BY <1>1, <2>1, <4>1, <4>2 DEF ClientOK, IInv, TypeOK
      <3> QED
        BY <3>1, <3>2
    <2> QED
      BY <2>3, <2>4, <2>5, <2>6 DEF IInv
  <1> QED
    BY <1>3, <1>4

LEMMA SelectStep ==
  ASSUME QueueAssumption, IInv, NEW c \in Clients, Select(c)
  PROVE  IInv'
  <1>1. UNCHANGED <<now, row, claims, deliveries>>
    BY DEF Select, history
  <1>2. (\A u \in Tasks : RowOK(u, row[u]))' /\ DeliveredOnce'
    BY <1>1 DEF IInv, RowOK, DeliveredOnce
  <1>3. CASE Candidates(c) = {}
    <2>1. Return(c) /\ UNCHANGED lock
      BY <1>3 DEF Select
    <2>2. ASSUME NEW d \in Clients PROVE ClientOK(d)'
      BY <1>1, <2>1, ReturnClientOK DEF IInv, ClientOK
    <2> QED
      BY <1>1, <1>2, <2>1, <2>2, ReturnClientOK DEF IInv, TypeOK
  <1>4. ASSUME NEW t \in Candidates(c),
               lock' = [lock EXCEPT ![t] = c],
               seen' = [seen EXCEPT ![c] = row[t]],
               req' = [req EXCEPT ![c].task = t],
               pc' = [pc EXCEPT ![c] = "commit"]
        PROVE  IInv'
    <2>1. t \in Tasks /\ row[t].status = "queued" /\ lock[t] = NoClient
      BY <1>4 DEF Candidates, QueueAssumption
    <2>2. TypeOK'
      <3>1. [req[c] EXCEPT !.task = t] \in Request
        BY <2>1 DEF IInv, TypeOK, Request
      <3>2. req' \in [Clients -> Request]
        BY <1>4, <3>1 DEF IInv, TypeOK
      <3> QED
        BY <1>1, <1>4, <2>1, <3>2 DEF IInv, TypeOK, Step
    <2>3. ASSUME NEW d \in Clients PROVE ClientOK(d)'
      <3>1. CASE d = c
        BY <1>1, <1>4, <2>1, <3>1 DEF IInv, TypeOK, ClientOK, Request
      <3>2. CASE d # c
        <4>1. ClientOK(d) /\ pc'[d] = pc[d] /\ req'[d] = req[d]
                /\ seen'[d] = seen[d]
          BY <1>4, <3>2 DEF IInv, TypeOK
        <4>2. pc[d] = "commit" => req[d].task # t
          BY <2>1, <4>1 DEF ClientOK, QueueAssumption
        <4> QED
          BY <1>1, <1>4, <2>1, <4>1, <4>2 DEF ClientOK, IInv, TypeOK
      <3> QED
        BY <3>1, <3>2
    <2> QED
      BY <1>2, <2>2, <2>3 DEF IInv
  <1> QED
    BY <1>3, <1>4 DEF Select

LEMMA CommitStep ==
  ASSUME QueueAssumption, IInv, NEW c \in Clients, Commit(c)
  PROVE  IInv'
  <1> DEFINE t   == req[c].task
             e   == seen[c]
             r   == Replaced(row[t], "claimed", e.attempts + 1, e.phase,
                             req[c].at)
             new == IF c \in Leased
                    THEN [r EXCEPT !.owner = c,
                                   !.expiresAt = req[c].at + LeaseMs]
                    ELSE r
  <1>1. /\ t \in Tasks /\ lock[t] = c /\ e = row[t] /\ e.status = "queued"
        /\ e \in Row /\ req[c].at \in Stamp /\ Return(c)
        /\ RowOK(t, e)
    BY DEF IInv, TypeOK, ClientOK, Commit, Request
  <1>2. /\ row' = [row EXCEPT ![t] = new]
        /\ lock' = [lock EXCEPT ![t] = NoClient]
        /\ claims' = [claims EXCEPT ![t] = @ + 1]
        /\ UNCHANGED <<now, deliveries>>
    BY DEF Commit
  <1>3. /\ e.attempts \in Nat /\ e.phase \in Phase /\ "claimed" \in Status
        /\ e.attempts < MaxAttempts[t] /\ MaxAttempts[t] \in Nat
        /\ e.phase = "not_started"
    BY <1>1 DEF Row, Status, RowOK, QueueAssumption, Outcome
  <1>4. /\ r \in Row /\ r.status = "claimed" /\ r.attempts = e.attempts + 1
        /\ r.phase = e.phase
    BY <1>1, <1>3, ReplacedRow
  <1>5. /\ new \in Row /\ new.status = "claimed"
        /\ new.attempts = e.attempts + 1 /\ new.phase = e.phase
    <2> HIDE DEF r
    <2>1. req[c].at + LeaseMs \in Stamp
      BY <1>1 DEF QueueAssumption, Stamp
    <2>2. CASE c \in Leased
      BY <1>4, <2>1, <2>2 DEF Row
    <2>3. CASE c \notin Leased
      BY <1>4, <2>3
    <2> QED
      BY <2>2, <2>3
  <1> HIDE DEF new
  <1>6. TypeOK'
    BY <1>1, <1>2, <1>5, ReturnClientOK DEF IInv, TypeOK
  <1>7. (\A u \in Tasks : RowOK(u, row[u]))' /\ DeliveredOnce'
    BY <1>1, <1>2, <1>3, <1>5 DEF IInv, TypeOK, RowOK, DeliveredOnce
  <1>8. ASSUME NEW d \in Clients PROVE ClientOK(d)'
    <2>1. CASE d = c
      BY <1>1, <2>1, ReturnClientOK DEF IInv
    <2>2. CASE d # c
      <3>1. ClientOK(d) /\ pc'[d] = pc[d] /\ req'[d] = req[d]
              /\ seen'[d] = seen[d]
        BY <1>1, <2>2, ReturnClientOK DEF IInv
      <3>2. pc[d] = "commit" => req[d].task # t
        BY <1>1, <2>2, <3>1 DEF ClientOK
      <3> QED
        BY <1>1, <1>2, <3>1, <3>2 DEF ClientOK, IInv, TypeOK
    <2> QED
      BY <2>1, <2>2
  <1> QED
    BY <1>6, <1>7, <1>8 DEF IInv

LEMMA FailStep ==
  ASSUME QueueAssumption, IInv, NEW c \in Clients, Fail(c)
  PROVE  IInv'
  <1>1. Return(c) /\ UNCHANGED <<now, row, claims, deliveries>>
    BY DEF Fail, history
  <1>2. TypeOK' /\ (\A u \in Tasks : RowOK(u, row[u]))' /\ DeliveredOnce'
    BY <1>1, ReturnClientOK DEF IInv, TypeOK, RowOK, DeliveredOnce, Fail
  <1>3. ASSUME NEW d \in Clients PROVE ClientOK(d)'
    BY <1>1, ReturnClientOK DEF IInv, TypeOK, ClientOK, Fail
  <1> QED
    BY <1>2, <1>3 DEF IInv

\* Losing the lease changes nothing a later command looks at, and a row that
\* a client is about to claim is queued, so it is not touched.
LEMMA RecoverStep ==
  ASSUME QueueAssumption, IInv, RecoverExpiredClaims
  PROVE  IInv'
  <1>1. UNCHANGED <<now, lock, pc, req, seen, claims, deliveries>>
    BY DEF RecoverExpiredClaims, client, history
  <1>2. PICK expired \in SUBSET {t \in Tasks : row[t].status = "claimed"} :
          row' = [t \in Tasks |->
                    IF t \in expired
                    THEN [row[t] EXCEPT !.owner = NoClient, !.expiresAt = NoLease]
                    ELSE row[t]]
    BY DEF RecoverExpiredClaims
  <1>3. \A t \in Tasks :
          /\ row'[t] \in Row
          /\ row'[t].status = row[t].status
          /\ row'[t].attempts = row[t].attempts
          /\ row'[t].phase = row[t].phase
          /\ row'[t].owner # NoClient \/ row'[t].expiresAt # NoLease =>
               row[t].owner # NoClient \/ row[t].expiresAt # NoLease
          /\ row[t].status = "queued" => row'[t] = row[t]
    <2> SUFFICES ASSUME NEW t \in Tasks
                 PROVE  /\ row'[t] \in Row
                        /\ row'[t].status = row[t].status
                        /\ row'[t].attempts = row[t].attempts
                        /\ row'[t].phase = row[t].phase
                        /\ row'[t].owner # NoClient \/ row'[t].expiresAt # NoLease =>
                             row[t].owner # NoClient \/ row[t].expiresAt # NoLease
                        /\ row[t].status = "queued" => row'[t] = row[t]
      OBVIOUS
    <2>1. row[t] \in Row
      BY DEF IInv, TypeOK
    <2>2. CASE t \notin expired
      BY <1>2, <2>1, <2>2
    <2>3. CASE t \in expired
      <3>1. /\ row[t].status = "claimed"
            /\ row'[t] = [row[t] EXCEPT !.owner = NoClient, !.expiresAt = NoLease]
        BY <1>2, <2>3
      <3> QED
        BY <2>1, <3>1 DEF Row
    <2> QED
      BY <2>2, <2>3
  <1>4. TypeOK'
    BY <1>1, <1>2, <1>3 DEF IInv, TypeOK
  <1>5. (\A u \in Tasks : RowOK(u, row[u]))' /\ DeliveredOnce'
    BY <1>1, <1>3 DEF IInv, RowOK, DeliveredOnce
  <1>6. ASSUME NEW d \in Clients PROVE ClientOK(d)'
    BY <1>1, <1>3 DEF IInv, ClientOK, RowOK, Accepts, AllowedTransition
  <1> QED
    BY <1>4, <1>5, <1>6 DEF IInv

LEMMA NextIInv ==
  ASSUME QueueAssumption, IInv, [Next]_vars
  PROVE  IInv'
  <1>1. ASSUME NEW c \in Clients, NEW t \in Tasks, Enqueue(c, t) PROVE IInv'
    BY <1>1, DispatchStep DEF Enqueue
  <1>2. ASSUME NEW c \in Clients, NEW t \in Tasks, NEW op \in Update,
               Change(c, op, t)
        PROVE  IInv'
    BY <1>2, DispatchStep DEF Change
  <1>3. ASSUME NEW c \in Clients, ClaimNext(c) PROVE IInv'
    BY <1>3, DispatchStep DEF ClaimNext
  <1>4. ASSUME NEW c \in Clients, DatabaseCall(c) PROVE IInv'
    BY <1>4, InsertStep, FindStep, WriteStep, SelectStep, CommitStep
       DEF DatabaseCall
  <1>5. ASSUME Tick \/ UNCHANGED vars PROVE IInv'
    <2>1. UNCHANGED <<row, lock, pc, req, seen, claims, deliveries>>
          /\ now' \in Stamp
      BY <1>5 DEF Tick, vars, client, history, IInv, TypeOK, Stamp
    <2> QED
      BY <2>1 DEF IInv, TypeOK, RowOK, DeliveredOnce, ClientOK, Accepts,
         AllowedTransition
  <1> QED
    BY <1>1, <1>2, <1>3, <1>4, <1>5, FailStep, RecoverStep DEF Next

\* The strengthening that the invariants below follow from.
THEOREM Invariance == ASSUME QueueAssumption PROVE Spec => []IInv
  <1>1. Init => IInv
    BY InitIInv
  <1>2. IInv /\ [Next]_vars => IInv'
    BY NextIInv
  <1> QED
    BY <1>1, <1>2, PTL DEF Spec

----------------------------------------------------------------------------
(* The theorems.                                                           *)

\* The variables keep their types.
THEOREM TypeCorrect == ASSUME QueueAssumption PROVE Spec => []TypeOK
  BY Invariance, PTL DEF IInv

\* The persisted attempts stay within the instruction's limit, although they
\* are computed from a row that was read earlier.
THEOREM AttemptsBounded ==
  ASSUME QueueAssumption PROVE Spec => []AttemptsWithinLimit
  <1>1. IInv => AttemptsWithinLimit
    BY DEF IInv, RowOK, AttemptsWithinLimit
  <1> QED
    BY <1>1, Invariance, PTL

\* A task whose delivery has started is never queued or cancelled again.
THEOREM NeverResent == ASSUME QueueAssumption PROVE Spec => []NoResend
  <1>1. IInv => NoResend
    BY DEF IInv, RowOK, NoResend
  <1> QED
    BY <1>1, Invariance, PTL

\* Delivery is started at most once per task.
THEOREM AtMostOneDelivery ==
  ASSUME QueueAssumption PROVE Spec => []DeliveredOnce
  BY Invariance, PTL DEF IInv

\* Leases exist only on claimed rows.
THEOREM LeasesAreClaims ==
  ASSUME QueueAssumption PROVE Spec => []LeaseOnlyWhileClaimed
  <1>1. IInv => LeaseOnlyWhileClaimed
    BY DEF IInv, RowOK, LeaseOnlyWhileClaimed
  <1> QED
    BY <1>1, Invariance, PTL

----------------------------------------------------------------------------
(* What a step does to the table.                                          *)

\* One row, moved one edge along the life cycle of its task.
LegalMove(t, old, new) ==
  \/ /\ old.status = "absent" /\ new.status = "queued"
     /\ old.phase = new.phase
  \/ /\ old.status = "queued" /\ new.status \in {"claimed", "cancelled"}
     /\ old.phase = new.phase
  \/ /\ old.status = "claimed" /\ new.status \in Outcome
     /\ old.phase = new.phase
  \/ /\ old.status = "claimed" /\ new.status = "queued"
     /\ old.phase = "not_started" /\ new.phase = "not_started"
     /\ t \notin Placing
  \/ /\ old.status = "claimed" /\ new.status = "claimed"
     /\ old.phase = "not_started" /\ new.phase = "delivery_started"
     /\ t \in Placing
  \/ /\ old.status = "claimed" /\ new.status = "claimed"
     /\ old.phase = "delivery_started" /\ new.phase = "verified"

MovesOneRow ==
  \E t \in Tasks, new \in Row :
    row' = [row EXCEPT ![t] = new] /\ LegalMove(t, row[t], new)

\* Only the lease columns of claimed rows change.
LosesLeases ==
  /\ row' \in [Tasks -> Row]
  /\ \A t \in Tasks :
       /\ row'[t].status = row[t].status
       /\ row'[t].phase = row[t].phase
       /\ row'[t] # row[t] => row[t].status = "claimed"

LEMMA AcceptedMove ==
  ASSUME QueueAssumption,
         NEW t \in Tasks, NEW op \in Update, NEW e \in Row, NEW new \in Row,
         RowOK(t, e), Accepts(op, t, e),
         new.status = UpdatedStatus(op, t, e), new.phase = UpdatedPhase(op, e)
  PROVE  LegalMove(t, e, new)
  <1>1. /\ e.attempts \in Nat /\ e.status \in Status /\ e.phase \in Phase
        /\ MaxAttempts[t] \in Nat \ {0}
        /\ t \in Placing => MaxAttempts[t] = 1
    BY DEF Row, QueueAssumption
  <1>2. op \in {"completed", "failed", "stopped", "cancel", "release",
                "mark_delivery_started", "mark_verified"}
    BY DEF Update, Outcome
  <1> QED
    BY <1>1, <1>2 DEF LegalMove, UpdatedStatus, UpdatedPhase, ReleasedStatus,
       Accepts, AllowedTransition, RowOK, Outcome

LEMMA InsertMoves ==
  ASSUME QueueAssumption, IInv, NEW c \in Clients, Insert(c)
  PROVE  row' = row \/ MovesOneRow
  <1> DEFINE t   == req[c].task
             new == [AbsentRow EXCEPT !.status = "queued",
                                      !.createdAt = req[c].at,
                                      !.updatedAt = req[c].at]
  <1>1. /\ t \in Tasks /\ req[c].at \in Stamp /\ row[t] \in Row
        /\ RowOK(t, row[t])
    BY DEF IInv, TypeOK, ClientOK, Insert, Request
  <1>2. new \in Row /\ new.status = "queued" /\ new.phase = "not_started"
    BY <1>1 DEF AbsentRow, Row, Status, Phase, Stamp, NoLease
  <1>3. CASE row[t].status = "absent"
    <2>1. row[t].phase = "not_started"
      BY <1>1, <1>3 DEF RowOK, Outcome
    <2>2. row' = [row EXCEPT ![t] = new]
      BY <1>3 DEF Insert
    <2> HIDE DEF new
    <2> QED
      BY <1>1, <1>2, <1>3, <2>1, <2>2 DEF MovesOneRow, LegalMove
  <1> QED
    BY <1>3 DEF Insert

LEMMA WriteMoves ==
  ASSUME QueueAssumption, IInv, NEW c \in Clients, Write(c)
  PROVE  row' = row \/ MovesOneRow
  <1> DEFINE t   == req[c].task
             op  == req[c].op
             e   == seen[c]
             new == Replaced(row[t], UpdatedStatus(op, t, e), e.attempts,
                             UpdatedPhase(op, e), req[c].at)
  <1>1. /\ t \in Tasks /\ op \in Update /\ req[c].at \in Stamp
        /\ e \in Row /\ row[t] \in Row /\ e.attempts \in Nat
        /\ RowOK(t, e) /\ Accepts(op, t, e)
    BY DEF IInv, TypeOK, ClientOK, Write, Request, Row
  <1>2. /\ new \in Row
        /\ new.status = UpdatedStatus(op, t, e)
        /\ new.phase = UpdatedPhase(op, e)
    BY <1>1, UpdateKeepsRowOK, ReplacedRow
  <1> HIDE DEF new
  <1>3. LegalMove(t, e, new)
    BY <1>1, <1>2, AcceptedMove
  <1>4. CASE Unchanged(row[t], e)
    <2>1. LegalMove(t, row[t], new)
      BY <1>3, <1>4 DEF LegalMove, Unchanged
    <2>2. row' = [row EXCEPT ![t] = new]
      BY <1>4 DEF Write, new
    <2> QED
      BY <1>1, <1>2, <2>1, <2>2 DEF MovesOneRow
  <1> QED
    BY <1>4 DEF Write

LEMMA CommitMoves ==
  ASSUME QueueAssumption, IInv, NEW c \in Clients, Commit(c)
  PROVE  MovesOneRow
  <1> DEFINE t   == req[c].task
             new == row'[t]
  <1>1. t \in Tasks /\ row[t].status = "queued" /\ row[t] = seen[c]
    BY DEF IInv, ClientOK, Commit
  <1>2. row' \in [Tasks -> Row]
    BY CommitStep DEF IInv, TypeOK
  <1>3. row' = [row EXCEPT ![t] = new]
    BY <1>1 DEF IInv, TypeOK, Commit
  <1>4. new.status = "claimed" /\ new.phase = row[t].phase
    BY <1>1 DEF IInv, TypeOK, Commit, Replaced, Row
  <1> QED
    BY <1>1, <1>2, <1>3, <1>4 DEF MovesOneRow, LegalMove

LEMMA RecoverMoves ==
  ASSUME QueueAssumption, IInv, RecoverExpiredClaims
  PROVE  LosesLeases
  <1>1. row' \in [Tasks -> Row]
    BY RecoverStep DEF IInv, TypeOK
  <1>2. \A t \in Tasks :
          \/ row'[t] = row[t]
          \/ /\ row[t].status = "claimed"
             /\ row'[t] = [row[t] EXCEPT !.owner = NoClient, !.expiresAt = NoLease]
    BY DEF RecoverExpiredClaims, IInv, TypeOK
  <1>3. \A t \in Tasks : row[t] \in Row
    BY DEF IInv, TypeOK
  <1>4. \A t \in Tasks :
          /\ row'[t].status = row[t].status
          /\ row'[t].phase = row[t].phase
          /\ row'[t] # row[t] => row[t].status = "claimed"
    <2> TAKE t \in Tasks
    <2>1. row[t] \in Row
      BY <1>3
    <2>2. [row[t] EXCEPT !.owner = NoClient, !.expiresAt = NoLease].status
            = row[t].status
          /\ [row[t] EXCEPT !.owner = NoClient, !.expiresAt = NoLease].phase
            = row[t].phase
      BY <2>1 DEF Row
    <2> QED
      BY <1>2, <2>2
  <1> QED
    BY <1>1, <1>4 DEF LosesLeases

\* Every step of the system leaves the table alone, moves one row, or takes
\* leases away.
LEMMA RowSteps ==
  ASSUME QueueAssumption, IInv, [Next]_vars
  PROVE  row' = row \/ MovesOneRow \/ LosesLeases
  BY InsertMoves, WriteMoves, CommitMoves, RecoverMoves
     DEF Next, DatabaseCall, Enqueue, Change, ClaimNext, Dispatch, Find, Select,
         Fail, Tick, vars, history

\* A finished or cancelled row is never written again.
THEOREM TerminalRowsAreFinal ==
  ASSUME QueueAssumption PROVE Spec => TerminalFinal
  <1>1. ASSUME IInv, [Next]_vars, NEW t \in Tasks, row[t].status \in Terminal
        PROVE  row'[t] = row[t]
    <2>1. CASE MovesOneRow
      BY <1>1, <2>1 DEF MovesOneRow, LegalMove, IInv, TypeOK, Terminal, Outcome
    <2>2. CASE LosesLeases
      BY <1>1, <2>2 DEF LosesLeases, Terminal, Outcome
    <2> QED
      BY <1>1, <2>1, <2>2, RowSteps
  <1>2. IInv /\ [Next]_vars =>
          [\A t \in Tasks : row[t].status \in Terminal => row'[t] = row[t]]_vars
    BY <1>1
  <1> QED
    BY <1>2, Invariance, PTL DEF Spec, TerminalFinal

\* The table implements the life cycle of TaskLifecycle, for any clients.
THEOREM ImplementsLifecycle ==
  ASSUME QueueAssumption PROVE Spec => RefinesLifecycle
  <1> DEFINE st == [t \in Tasks |-> row[t].status]
             ph == [t \in Tasks |-> row[t].phase]
  <1>1. Init => Lifecycle!Init
    BY DEF Init, Lifecycle!Init, AbsentRow
  <1>2. ASSUME IInv, [Next]_vars PROVE [Lifecycle!Next]_(Lifecycle!vars)
    <2>1. CASE row' = row
      BY <2>1 DEF Lifecycle!vars
    <2>2. CASE LosesLeases
      <3>1. st' = st /\ ph' = ph
        BY <2>2 DEF LosesLeases
      <3> QED
        BY <3>1 DEF Lifecycle!vars
    <2>3. CASE MovesOneRow
      <3>1. PICK t \in Tasks, new \in Row :
              row' = [row EXCEPT ![t] = new] /\ LegalMove(t, row[t], new)
        BY <2>3 DEF MovesOneRow
      <3>2. /\ st' = [st EXCEPT ![t] = new.status]
            /\ ph' = [ph EXCEPT ![t] = new.phase]
            /\ st[t] = row[t].status /\ ph[t] = row[t].phase
        BY <1>2, <3>1 DEF IInv, TypeOK
      <3>3. new.phase = row[t].phase => ph' = ph
        BY <3>2
      <3>4. new.status = row[t].status => st' = st
        BY <3>2
      <3> HIDE DEF st, ph
      <3>5. Lifecycle!Next
        BY <3>1, <3>2, <3>3, <3>4 DEF LegalMove, Outcome, st, ph,
           Lifecycle!Next, Lifecycle!Enqueue, Lifecycle!Claim, Lifecycle!Cancel,
           Lifecycle!Finish, Lifecycle!Requeue, Lifecycle!StartDelivery,
           Lifecycle!Verify, Lifecycle!Move, Lifecycle!Advance, Lifecycle!Outcome
      <3> QED
        BY <3>5
    <2> QED
      BY <1>2, <2>1, <2>2, <2>3, RowSteps
  <1>3. IInv /\ [Next]_vars => [Lifecycle!Next]_(Lifecycle!vars)
    BY <1>2
  <1> QED
    BY <1>1, <1>3, Invariance, PTL DEF Spec, RefinesLifecycle, Lifecycle!Spec

----------------------------------------------------------------------------
(* How often a task is claimed.  Here, and only here, no two dispatches    *)
(* fall in the same millisecond.                                           *)

\* The attempts column counts the claims.
CountOK(t) ==
  /\ claims[t] = row[t].attempts
  /\ row[t].attempts <= MaxAttempts[t]
  /\ row[t].status = "absent" => row[t].attempts = 0

\* A pending dispatch has a time of the past that no row, no other dispatch and
\* nothing that a client read has.
FreshStamp(c) ==
  /\ req[c].at < now
  /\ \A t \in Tasks : row[t].status # "absent" => row[t].updatedAt # req[c].at
  /\ \A d \in Clients :
       /\ d # c /\ pc[d] # "idle" => req[d].at # req[c].at
       /\ pc[d] = "replace" => seen[d].updatedAt # req[c].at

\* A row that still has the stamp a client read has the attempts it read.
SeenOK(c) ==
  LET r == row[req[c].task] IN
  /\ r.status # "absent"
  /\ seen[c].updatedAt < now
  /\ r.updatedAt = seen[c].updatedAt => r.attempts = seen[c].attempts

StampInv ==
  /\ \A t \in Tasks : CountOK(t) /\ (row[t].status # "absent" => row[t].updatedAt < now)
  /\ \A c \in Clients : pc[c] # "idle" => FreshStamp(c)
  /\ \A c \in Clients : pc[c] = "replace" => SeenOK(c)

LEMMA InitStampInv == ASSUME QueueAssumption, Init PROVE StampInv
  BY DEF QueueAssumption, Init, StampInv, CountOK, AbsentRow

LEMMA DispatchStamps ==
  ASSUME QueueAssumption, DistinctStamps, IInv, StampInv, NEW c \in Clients,
         NEW op, NEW t, NEW step \in {"insert", "find", "select"},
         Dispatch(c, op, t, step)
  PROVE  StampInv'
  <1>1. /\ now \in Nat /\ now' = now + 1 /\ pc[c] = "idle"
        /\ pc' = [pc EXCEPT ![c] = step]
        /\ req' = [req EXCEPT ![c] = [op |-> op, task |-> t, at |-> now]]
        /\ UNCHANGED <<row, seen, claims>>
    BY DEF IInv, TypeOK, Stamp, Dispatch, history
  <1>2. /\ pc'[c] = step /\ req'[c].at = now
        /\ \A d \in Clients \ {c} : pc'[d] = pc[d] /\ req'[d] = req[d]
    BY <1>1 DEF IInv, TypeOK
  <1>3. /\ \A u \in Tasks : row[u].updatedAt \in Nat
        /\ \A d \in Clients : req[d].at \in Nat /\ seen[d].updatedAt \in Nat
    BY DEF IInv, TypeOK, Row, Request, Stamp
  <1>4. (\A u \in Tasks :
           CountOK(u) /\ (row[u].status # "absent" => row[u].updatedAt < now))'
    BY <1>1, <1>3 DEF StampInv, CountOK
  <1>5. ASSUME NEW d \in Clients, pc'[d] # "idle" PROVE FreshStamp(d)'
    <2>1. CASE d = c
      BY <1>1, <1>2, <1>3, <2>1 DEF StampInv, FreshStamp, SeenOK
    <2>2. CASE d # c
      BY <1>1, <1>2, <1>3, <1>5, <2>2 DEF StampInv, FreshStamp
    <2> QED
      BY <2>1, <2>2
  <1>6. ASSUME NEW d \in Clients, pc'[d] = "replace" PROVE SeenOK(d)'
    BY <1>1, <1>2, <1>3, <1>6 DEF StampInv, SeenOK
  <1> QED
    BY <1>4, <1>5, <1>6 DEF StampInv

\* A step that ends a dispatch and leaves the table alone.
LEMMA ReturnStamps ==
  ASSUME IInv, StampInv, NEW c \in Clients, Return(c),
         UNCHANGED <<now, row, claims>>
  PROVE  StampInv'
  <1>1. /\ pc'[c] = "idle"
        /\ \A d \in Clients \ {c} :
             pc'[d] = pc[d] /\ req'[d] = req[d] /\ seen'[d] = seen[d]
    BY DEF IInv, TypeOK, Return
  <1> QED
    BY <1>1 DEF StampInv, CountOK, FreshStamp, SeenOK

\* A step that ends a dispatch and writes its row with its stamp.
LEMMA WriteStamps ==
  ASSUME IInv, StampInv, NEW c \in Clients, NEW t \in Tasks, NEW r \in Row,
         pc[c] # "idle", Return(c), now' = now,
         row' = [row EXCEPT ![t] = r],
         r.status # "absent", r.updatedAt = req[c].at,
         r.attempts <= MaxAttempts[t],
         claims' \in [Tasks -> Nat], claims'[t] = r.attempts,
         \A u \in Tasks \ {t} : claims'[u] = claims[u]
  PROVE  StampInv'
  <1>1. /\ pc'[c] = "idle"
        /\ \A d \in Clients \ {c} :
             pc'[d] = pc[d] /\ req'[d] = req[d] /\ seen'[d] = seen[d]
    BY DEF IInv, TypeOK, Return
  <1>2. /\ row'[t] = r
        /\ \A u \in Tasks \ {t} : row'[u] = row[u]
    BY DEF IInv, TypeOK
  <1>3. (\A u \in Tasks :
           CountOK(u) /\ (row[u].status # "absent" => row[u].updatedAt < now))'
    BY <1>2 DEF StampInv, CountOK, FreshStamp
  <1>4. ASSUME NEW d \in Clients, pc'[d] # "idle" PROVE FreshStamp(d)'
    BY <1>1, <1>2, <1>4 DEF StampInv, FreshStamp
  <1>5. ASSUME NEW d \in Clients, pc'[d] = "replace" PROVE SeenOK(d)'
    BY <1>1, <1>2, <1>5 DEF StampInv, FreshStamp, SeenOK
  <1> QED
    BY <1>3, <1>4, <1>5 DEF StampInv

LEMMA InsertStamps ==
  ASSUME QueueAssumption, IInv, StampInv, NEW c \in Clients, Insert(c)
  PROVE  StampInv'
  <1> DEFINE t   == req[c].task
             new == [AbsentRow EXCEPT !.status = "queued",
                                      !.createdAt = req[c].at,
                                      !.updatedAt = req[c].at]
  <1>1. /\ t \in Tasks /\ pc[c] # "idle" /\ Return(c)
        /\ UNCHANGED <<now, claims>> /\ req[c].at \in Stamp
    BY DEF IInv, TypeOK, ClientOK, Insert, Request, history
  <1>2. CASE row[t].status = "absent"
    <2>1. row' = [row EXCEPT ![t] = new]
      BY <1>2 DEF Insert
    <2>2. /\ new \in Row /\ new.status # "absent" /\ new.updatedAt = req[c].at
          /\ new.attempts = 0
      BY <1>1 DEF AbsentRow, Row, Status, Phase, Stamp, NoLease
    <2>3. claims[t] = 0 /\ 0 <= MaxAttempts[t]
      BY <1>1, <1>2 DEF StampInv, CountOK, QueueAssumption
    <2>4. claims' \in [Tasks -> Nat]
      BY <1>1 DEF IInv, TypeOK
    <2> HIDE DEF new, t
    <2> QED
      BY <1>1, <2>1, <2>2, <2>3, <2>4, WriteStamps
  <1>3. CASE row[t].status # "absent"
    BY <1>1, <1>3, ReturnStamps DEF Insert
  <1> QED
    BY <1>2, <1>3

LEMMA FindStamps ==
  ASSUME QueueAssumption, IInv, StampInv, NEW c \in Clients, Find(c)
  PROVE  StampInv'
  <1> DEFINE t == req[c].task
  <1>1. /\ t \in Tasks /\ req[c].op \in Update /\ pc[c] = "find"
        /\ UNCHANGED <<now, row, claims>>
    BY DEF IInv, ClientOK, Find, history
  <1>2. CASE Return(c)
    BY <1>1, <1>2, ReturnStamps
  <1>3. CASE /\ Accepts(req[c].op, t, row[t])
             /\ seen' = [seen EXCEPT ![c] = row[t]]
             /\ pc' = [pc EXCEPT ![c] = "replace"]
             /\ UNCHANGED req
    <2>1. row[t].status # "absent"
      BY <1>1, <1>3 DEF Accepts, AllowedTransition
    <2>2. /\ pc'[c] = "replace" /\ seen'[c] = row[t]
          /\ \A d \in Clients \ {c} : pc'[d] = pc[d] /\ seen'[d] = seen[d]
      BY <1>3 DEF IInv, TypeOK
    <2> HIDE DEF t
    <2>3. ASSUME NEW d \in Clients, pc'[d] # "idle" PROVE FreshStamp(d)'
      <3>1. FreshStamp(d)
        BY <1>1, <2>2, <2>3 DEF StampInv
      <3> QED
        BY <1>1, <1>3, <2>1, <2>2, <3>1 DEF FreshStamp
    <2>4. ASSUME NEW d \in Clients, pc'[d] = "replace" PROVE SeenOK(d)'
      BY <1>1, <1>3, <2>1, <2>2, <2>4 DEF StampInv, SeenOK, t
    <2> QED
      BY <1>1, <2>3, <2>4 DEF StampInv, CountOK
  <1> QED
    BY <1>2, <1>3 DEF Find

\* The comparison of the three columns guards the attempts too.
LEMMA UpdateStamps ==
  ASSUME QueueAssumption, IInv, StampInv, NEW c \in Clients, Write(c)
  PROVE  StampInv'
  <1> DEFINE t   == req[c].task
             op  == req[c].op
             e   == seen[c]
             new == Replaced(row[t], UpdatedStatus(op, t, e), e.attempts,
                             UpdatedPhase(op, e), req[c].at)
  <1>1. /\ t \in Tasks /\ op \in Update /\ req[c].at \in Stamp
        /\ e \in Row /\ row[t] \in Row /\ RowOK(t, e) /\ Accepts(op, t, e)
        /\ pc[c] = "replace" /\ Return(c) /\ UNCHANGED <<now, claims>>
    BY DEF IInv, TypeOK, ClientOK, Write, Request
  <1>2. CASE ~Unchanged(row[t], e)
    BY <1>1, <1>2, ReturnStamps DEF Write
  <1>3. CASE Unchanged(row[t], e)
    <2>1. row' = [row EXCEPT ![t] = new]
      BY <1>3 DEF Write
    <2>2. /\ new \in Row /\ new.attempts = e.attempts
          /\ new.status = UpdatedStatus(op, t, e)
          /\ new.updatedAt = req[c].at
      <3>1. /\ row[t] \in Row /\ e.attempts \in Nat /\ req[c].at \in Stamp
            /\ UpdatedStatus(op, t, e) \in Status /\ UpdatedPhase(op, e) \in Phase
        BY <1>1, UpdateKeepsRowOK, RowTypeFields
      <3> QED
        BY <3>1, ReplacedRow
    <2>3. UpdatedStatus(op, t, e) # "absent"
      BY <1>1 DEF UpdatedStatus, ReleasedStatus, Accepts, AllowedTransition,
         Update, Outcome
    <2>4. e.attempts = row[t].attempts
      BY <1>1, <1>3 DEF StampInv, SeenOK, Unchanged
    <2>5. claims' \in [Tasks -> Nat] /\ claims'[t] = e.attempts
          /\ e.attempts <= MaxAttempts[t]
      BY <1>1, <2>4 DEF IInv, TypeOK, StampInv, CountOK
    <2> HIDE DEF new, t, e, op
    <2> QED
      BY <1>1, <2>1, <2>2, <2>3, <2>5, WriteStamps
  <1> QED
    BY <1>2, <1>3

LEMMA SelectStamps ==
  ASSUME QueueAssumption, IInv, StampInv, NEW c \in Clients, Select(c)
  PROVE  StampInv'
  <1>1. UNCHANGED <<now, row, claims>> /\ pc[c] = "select"
    BY DEF Select, history
  <1>2. CASE Candidates(c) = {}
    BY <1>1, <1>2, ReturnStamps DEF Select
  <1>3. ASSUME NEW t \in Candidates(c),
               seen' = [seen EXCEPT ![c] = row[t]],
               req' = [req EXCEPT ![c].task = t],
               pc' = [pc EXCEPT ![c] = "commit"]
        PROVE  StampInv'
    <2>1. /\ pc'[c] = "commit" /\ req'[c].at = req[c].at
          /\ \A d \in Clients \ {c} :
               pc'[d] = pc[d] /\ req'[d] = req[d] /\ seen'[d] = seen[d]
      BY <1>3 DEF IInv, TypeOK, Request
    <2> QED
      BY <1>1, <2>1 DEF StampInv, CountOK, FreshStamp, SeenOK
  <1> QED
    BY <1>2, <1>3 DEF Select

LEMMA CommitStamps ==
  ASSUME QueueAssumption, IInv, StampInv, NEW c \in Clients, Commit(c)
  PROVE  StampInv'
  <1> DEFINE t   == req[c].task
             e   == seen[c]
             r   == Replaced(row[t], "claimed", e.attempts + 1, e.phase,
                             req[c].at)
             new == IF c \in Leased
                    THEN [r EXCEPT !.owner = c,
                                   !.expiresAt = req[c].at + LeaseMs]
                    ELSE r
  <1>1. /\ t \in Tasks /\ e = row[t] /\ e.status = "queued" /\ e \in Row
        /\ RowOK(t, e) /\ req[c].at \in Stamp /\ Return(c)
        /\ pc[c] = "commit" /\ now' = now
        /\ claims' = [claims EXCEPT ![t] = @ + 1]
        /\ row' = [row EXCEPT ![t] = new]
    BY DEF IInv, TypeOK, ClientOK, Commit, Request
  <1>2. /\ e.attempts \in Nat /\ e.attempts < MaxAttempts[t]
        /\ MaxAttempts[t] \in Nat /\ claims[t] = e.attempts
    BY <1>1, RowTypeFields DEF RowOK, QueueAssumption, StampInv, CountOK
  <1>3. /\ new \in Row /\ new.status = "claimed"
        /\ new.attempts = e.attempts + 1 /\ new.updatedAt = req[c].at
    <2>1. req[c].at + LeaseMs \in Stamp
      BY <1>1 DEF QueueAssumption, Stamp
    <2>2. /\ r \in Row /\ r.status = "claimed" /\ r.attempts = e.attempts + 1
          /\ r.updatedAt = req[c].at
      <3>1. /\ row[t] \in Row /\ req[c].at \in Stamp
            /\ e.attempts + 1 \in Nat /\ e.phase \in Phase /\ "claimed" \in Status
        BY <1>1, <1>2, RowTypeFields DEF Status
      <3> QED
        BY <3>1, ReplacedRow
    <2> HIDE DEF r
    <2> QED
      BY <2>1, <2>2 DEF Row
  <1>4. /\ claims' \in [Tasks -> Nat] /\ claims'[t] = new.attempts
        /\ \A u \in Tasks \ {t} : claims'[u] = claims[u]
    BY <1>1, <1>2, <1>3 DEF IInv, TypeOK
  <1> HIDE DEF new, t, e
  <1>5. new.attempts <= MaxAttempts[t]
    BY <1>2, <1>3
  <1> QED
    BY <1>1, <1>3, <1>4, <1>5, WriteStamps

LEMMA RecoverStamps ==
  ASSUME IInv, StampInv, RecoverExpiredClaims
  PROVE  StampInv'
  <1>1. UNCHANGED <<now, pc, req, seen, claims>>
    BY DEF RecoverExpiredClaims, client, history
  <1>2. \A t \in Tasks :
          \/ row'[t] = row[t]
          \/ row'[t] = [row[t] EXCEPT !.owner = NoClient, !.expiresAt = NoLease]
    BY DEF RecoverExpiredClaims, IInv, TypeOK
  <1>3. \A t \in Tasks :
          /\ row'[t].status = row[t].status
          /\ row'[t].attempts = row[t].attempts
          /\ row'[t].updatedAt = row[t].updatedAt
    <2> TAKE t \in Tasks
    <2>1. row[t] \in Row
      BY DEF IInv, TypeOK
    <2> QED
      BY <1>2, <2>1 DEF Row
  <1>4. \A c \in Clients : pc[c] = "replace" => req[c].task \in Tasks
    BY DEF IInv, ClientOK
  <1>5. ASSUME NEW c \in Clients, pc[c] = "replace" PROVE SeenOK(c)'
    BY <1>1, <1>3, <1>4, <1>5 DEF StampInv, SeenOK
  <1> QED
    BY <1>1, <1>3, <1>5 DEF StampInv, CountOK, FreshStamp

LEMMA NextStampInv ==
  ASSUME QueueAssumption, DistinctStamps, IInv, StampInv, [Next]_vars
  PROVE  StampInv'
  <1>1. ASSUME NEW c \in Clients, NEW t \in Tasks,
               Enqueue(c, t) \/ (\E op \in Update : Change(c, op, t))
        PROVE  StampInv'
    BY <1>1, DispatchStamps DEF Enqueue, Change
  <1>2. ASSUME NEW c \in Clients, ClaimNext(c) PROVE StampInv'
    BY <1>2, DispatchStamps DEF ClaimNext
  <1>3. ASSUME NEW c \in Clients, DatabaseCall(c) PROVE StampInv'
    BY <1>3, InsertStamps, FindStamps, UpdateStamps, SelectStamps, CommitStamps
       DEF DatabaseCall
  <1>4. ASSUME NEW c \in Clients, Fail(c) PROVE StampInv'
    BY <1>4, ReturnStamps DEF Fail, history
  <1>5. ASSUME Tick \/ UNCHANGED vars PROVE StampInv'
    <2>1. /\ UNCHANGED <<row, pc, req, seen, claims>>
          /\ now \in Nat /\ (now' = now \/ now' = now + 1)
      BY <1>5 DEF Tick, vars, client, history, IInv, TypeOK, Stamp
    <2>2. /\ \A u \in Tasks : row[u].updatedAt \in Nat
          /\ \A d \in Clients : req[d].at \in Nat /\ seen[d].updatedAt \in Nat
      BY DEF IInv, TypeOK, Row, Request, Stamp
    <2> QED
      BY <2>1, <2>2 DEF StampInv, CountOK, FreshStamp, SeenOK
  <1> QED
    BY <1>1, <1>2, <1>3, <1>4, <1>5, RecoverStamps DEF Next

\* Unless two dispatches fall in the same millisecond, no task is claimed more
\* often than its instruction allows: the updates that compare updated_at never
\* take an attempt back.
THEOREM ClaimsCounted ==
  ASSUME QueueAssumption, DistinctStamps PROVE Spec => []ClaimsWithinLimit
  <1>1. Init => StampInv
    BY InitStampInv
  <1>2. IInv /\ StampInv /\ [Next]_vars => StampInv'
    BY NextStampInv
  <1>3. StampInv => ClaimsWithinLimit
    BY DEF StampInv, CountOK, ClaimsWithinLimit
  <1> QED
    BY <1>1, <1>2, <1>3, Invariance, PTL DEF Spec

----------------------------------------------------------------------------
(* Row locks and the end of a dispatch                                     *)

\* Every row lock belongs to the one open claim that will give it back.
LockInv ==
  \A t \in Tasks :
    lock[t] # NoClient => pc[lock[t]] = "commit" /\ req[lock[t]].task = t

LEMMA LockStep ==
  ASSUME QueueAssumption, IInv, LockInv, [Next]_vars
  PROVE  LockInv'
  <1>1. /\ lock \in [Tasks -> Clients \cup {NoClient}]
        /\ pc \in [Clients -> Step] /\ req \in [Clients -> Request]
    BY DEF IInv, TypeOK
  <1>2. ASSUME NEW c \in Clients, pc[c] # "commit", lock' = lock,
               \A d \in Clients \ {c} : pc'[d] = pc[d] /\ req'[d] = req[d]
        PROVE  LockInv'
    BY <1>1, <1>2 DEF LockInv
  <1>3. ASSUME NEW c \in Clients, NEW op, NEW t, NEW step, Dispatch(c, op, t, step)
        PROVE  LockInv'
    <2>1. /\ pc[c] # "commit" /\ lock' = lock
          /\ \A d \in Clients \ {c} : pc'[d] = pc[d] /\ req'[d] = req[d]
      BY <1>1, <1>3 DEF Dispatch
    <2> QED
      BY <1>2, <2>1
  <1>4. ASSUME NEW c \in Clients, Insert(c) \/ Find(c) \/ Write(c)
        PROVE  LockInv'
    <2>1. /\ pc[c] # "commit" /\ lock' = lock
          /\ \A d \in Clients \ {c} : pc'[d] = pc[d] /\ req'[d] = req[d]
      BY <1>1, <1>4 DEF Insert, Find, Write, Return
    <2> QED
      BY <1>2, <2>1
  <1>5. ASSUME NEW c \in Clients, Select(c) PROVE LockInv'
    <2>1. CASE lock' = lock
      <3>1. /\ pc[c] # "commit"
            /\ \A d \in Clients \ {c} : pc'[d] = pc[d] /\ req'[d] = req[d]
        BY <1>1, <1>5 DEF Select, Return
      <3> QED
        BY <1>2, <2>1, <3>1
    <2>2. ASSUME NEW t \in Candidates(c),
                 lock' = [lock EXCEPT ![t] = c],
                 req' = [req EXCEPT ![c].task = t],
                 pc' = [pc EXCEPT ![c] = "commit"]
          PROVE  LockInv'
      <3>1. pc[c] # "commit" /\ pc'[c] = "commit" /\ req'[c].task = t
        BY <1>1, <1>5, <2>2 DEF Select, Request
      <3>2. \A d \in Clients \ {c} : pc'[d] = pc[d] /\ req'[d] = req[d]
        BY <1>1, <2>2
      <3>3. \A u \in Tasks : lock'[u] = IF u = t THEN c ELSE lock[u]
        BY <1>1, <2>2
      <3> QED
        BY <1>1, <3>1, <3>2, <3>3 DEF LockInv
    <2> QED
      BY <1>5, <2>1, <2>2 DEF Select
  <1>6. ASSUME NEW c \in Clients, Commit(c) \/ Fail(c) PROVE LockInv'
    <2>1. \A d \in Clients \ {c} : pc'[d] = pc[d] /\ req'[d] = req[d]
      BY <1>1, <1>6 DEF Commit, Fail, Return
    <2>2. \A u \in Tasks : lock[u] = c => lock'[u] = NoClient
      BY <1>1, <1>6 DEF Commit, Fail, LockInv
    <2>3. \A u \in Tasks : lock'[u] \in {lock[u], NoClient}
      BY <1>1, <1>6 DEF Commit, Fail
    <2> QED
      BY <1>1, <2>1, <2>2, <2>3 DEF LockInv
  <1>7. RecoverExpiredClaims \/ Tick \/ UNCHANGED vars => UNCHANGED <<lock, pc, req>>
    BY DEF RecoverExpiredClaims, Tick, vars, client
  <1>8. UNCHANGED <<lock, pc, req>> => LockInv'
    BY DEF LockInv
  <1> QED
    BY <1>3, <1>4, <1>5, <1>6, <1>7, <1>8
       DEF Next, Enqueue, Change, ClaimNext, DatabaseCall

\* A row lock is held inside a claim only, and a claim locks one row: whatever
\* dispatches fail or die, no lock is left behind.
THEOREM LocksAreGivenBack == ASSUME QueueAssumption PROVE Spec => []LockInv
  <1>1. Init => LockInv
    BY DEF Init, LockInv
  <1>2. IInv /\ LockInv /\ [Next]_vars => LockInv'
    BY LockStep
  <1> QED
    BY <1>1, <1>2, Invariance, PTL DEF Spec

\* Whoever others wait for waits for nobody: the next statement of a client that
\* holds a row lock, its COMMIT, needs no other lock and finds the row it read.
HoldersGoOn ==
  \A t \in Tasks :
    lock[t] # NoClient =>
      LET c == lock[t] IN pc[c] = "commit" /\ Unchanged(row[req[c].task], seen[c])

\* Row locks never deadlock, for any number of clients: the wait-for graph has
\* paths of one edge only, and no claim reports a conflict.
THEOREM NoLockDeadlock == ASSUME QueueAssumption PROVE Spec => []HoldersGoOn
  <1>1. IInv /\ LockInv => HoldersGoOn
    BY DEF IInv, TypeOK, ClientOK, LockInv, HoldersGoOn, Unchanged
  <1> QED
    BY <1>1, Invariance, LocksAreGivenBack, PTL

\* What is left of a dispatch, counted in statements.
CallsLeft(c) ==
  IF pc[c] = "idle" THEN 0 ELSE IF pc[c] \in {"find", "select"} THEN 2 ELSE 1

\* A statement brings its own dispatch nearer to its end, and nobody's takes
\* another one back.
DispatchesAdvance ==
  \A c \in Clients :
    /\ DatabaseCall(c) \/ Fail(c) => CallsLeft(c)' < CallsLeft(c)
    /\ pc[c] # "idle" => CallsLeft(c)' <= CallsLeft(c)

\* A dispatch ends after two statements at most, found or lost, also when its row
\* was changed or locked in between: nothing in the queue is tried again.
THEOREM DispatchesAreShort ==
  ASSUME QueueAssumption PROVE Spec => [][DispatchesAdvance]_vars
  <1>1. ASSUME IInv, [Next]_vars, NEW c \in Clients
        PROVE  /\ DatabaseCall(c) \/ Fail(c) => CallsLeft(c)' < CallsLeft(c)
               /\ pc[c] # "idle" => CallsLeft(c)' <= CallsLeft(c)
    <2>1. pc \in [Clients -> Step]
      BY <1>1 DEF IInv, TypeOK
    <2>2. DatabaseCall(c) \/ Fail(c) => CallsLeft(c)' < CallsLeft(c)
      BY <2>1 DEF DatabaseCall, Insert, Find, Write, Select, Commit, Fail, Return,
         CallsLeft, Step
    <2>3. pc'[c] = pc[c] => CallsLeft(c)' = CallsLeft(c)
      BY DEF CallsLeft
    <2>4. CallsLeft(c) \in 0..2 /\ CallsLeft(c)' \in 0..2
      BY DEF CallsLeft
    <2>5. ASSUME NEW d \in Clients, d # c, DatabaseCall(d) \/ Fail(d)
          PROVE  pc'[c] = pc[c]
      BY <2>1, <2>5 DEF DatabaseCall, Insert, Find, Write, Select, Commit, Fail, Return
    <2>6. ASSUME NEW d \in Clients, NEW op, NEW t, NEW step, Dispatch(d, op, t, step),
                 pc[c] # "idle"
          PROVE  pc'[c] = pc[c]
      BY <2>1, <2>6 DEF Dispatch
    <2>7. RecoverExpiredClaims \/ Tick \/ UNCHANGED vars => pc'[c] = pc[c]
      BY DEF RecoverExpiredClaims, Tick, vars, client
    <2> QED
      BY <1>1, <2>2, <2>3, <2>4, <2>5, <2>6, <2>7
         DEF Next, Enqueue, Change, ClaimNext
  <1>2. IInv /\ [Next]_vars => [DispatchesAdvance]_vars
    BY <1>1 DEF DispatchesAdvance
  <1> QED
    BY <1>2, Invariance, PTL DEF Spec

\* What is written is computed from a row that was read some time before, and yet
\* it is what the command makes of the row it replaces.
ActsOnRow(c) ==
  LET t == req[c].task
      r == row[t]
  IN
  /\ Write(c) =>
       \/ UNCHANGED <<row, deliveries>>
       \/ /\ Accepts(req[c].op, t, r)
          /\ row' = [row EXCEPT ![t] =
                       Replaced(r, UpdatedStatus(req[c].op, t, r), r.attempts,
                                UpdatedPhase(req[c].op, r), req[c].at)]
  /\ Commit(c) => r.status = "queued" /\ seen[c] = r

\* Three compared columns are enough: unless two dispatches fall in the same
\* millisecond, every command takes effect at once and on the row as it is, or
\* not at all, whatever was written between its read and its write.
THEOREM UpdatesAreAtomic ==
  ASSUME QueueAssumption, DistinctStamps
  PROVE  Spec => [][\A c \in Clients : ActsOnRow(c)]_vars
  <1>1. ASSUME IInv, StampInv, NEW c \in Clients
        PROVE  ActsOnRow(c)
    <2> DEFINE t == req[c].task
               op == req[c].op
               r == row[t]
               e == seen[c]
    <2>1. ASSUME Write(c), ~UNCHANGED <<row, deliveries>>
          PROVE  /\ Accepts(op, t, r)
                 /\ row' = [row EXCEPT ![t] =
                              Replaced(r, UpdatedStatus(op, t, r), r.attempts,
                                       UpdatedPhase(op, r), req[c].at)]
      <3>1. /\ pc[c] = "replace" /\ Unchanged(r, e)
            /\ row' = [row EXCEPT ![t] =
                         Replaced(r, UpdatedStatus(op, t, e), e.attempts,
                                  UpdatedPhase(op, e), req[c].at)]
        BY <2>1 DEF Write
      <3>2. Accepts(op, t, e)
        BY <1>1, <3>1 DEF IInv, ClientOK
      <3>3. /\ r.status = e.status /\ r.phase = e.phase
            /\ r.attempts = e.attempts
        BY <1>1, <3>1 DEF Unchanged, StampInv, SeenOK
      <3> HIDE DEF t, op, r, e
      <3>4. Accepts(op, t, r)
        BY <3>2, <3>3 DEF Accepts
      <3>5. /\ UpdatedStatus(op, t, r) = UpdatedStatus(op, t, e)
            /\ UpdatedPhase(op, r) = UpdatedPhase(op, e)
        BY <3>3 DEF UpdatedStatus, ReleasedStatus, UpdatedPhase
      <3> QED
        BY <3>1, <3>3, <3>4, <3>5
    <2>2. ASSUME Commit(c) PROVE r.status = "queued" /\ seen[c] = r
      BY <1>1, <2>2 DEF Commit, IInv, ClientOK
    <2> QED
      BY <2>1, <2>2 DEF ActsOnRow
  <1>2. Init => StampInv
    BY InitStampInv
  <1>3. IInv /\ StampInv /\ [Next]_vars => StampInv'
    BY NextStampInv
  <1>4. IInv /\ StampInv => [\A c \in Clients : ActsOnRow(c)]_vars
    BY <1>1
  <1> QED
    BY <1>2, <1>3, <1>4, Invariance, PTL DEF Spec

----------------------------------------------------------------------------
(* Migrations: the inductive invariant                                     *)

\* A caller between GET_LOCK and RELEASE_LOCK.
Holding(s) ==
  /\ s.pc \notin {"idle", "locking"}
  /\ s.pc = "releasing" => s.result # "unavailable"

\* A call starts with the first version.
Entered(s) ==
  /\ s.pc # "idle" => s.op \in {"migrate", "rollback"}
  /\ s.pc \in {"locking", "creating"} => s.version = 1

\* Where the caller is that has the lock.
Holder == IF namedLock = NoCaller THEN Idle ELSE call[namedLock]

\* It is in the middle of version v.
WorksOn(s, op, v) == s.pc \in {"running", "recording"} /\ s.op = op /\ s.version = v

\* migrate() records the versions in their order, each after its statements.
MigrateOK(d, s) ==
  s.op = "migrate" =>
    /\ s.pc \notin {"inspecting", "dropping"}
    /\ s.pc \in {"checking", "running", "recording"} =>
         d.table /\ s.version \in Versions /\ 1..(s.version - 1) \subseteq d.recorded
    /\ s.pc = "running" =>
         /\ s.version \notin d.recorded /\ s.statement <= Scripts[s.version]
         /\ d.made[s.version] >= s.statement - 1
    /\ s.pc = "recording" =>
         s.version \notin d.recorded /\ d.made[s.version] = Scripts[s.version]
    /\ s.pc = "releasing" /\ s.result = "ok" => d.recorded = Versions

\* rollbackAll() takes them back from the last one recorded.
RollbackOK(d, s) ==
  s.op = "rollback" =>
    /\ s.pc \notin {"creating", "checking"}
    /\ s.pc \in {"running", "recording"} =>
         s.version \in d.recorded /\ d.recorded = {v \in s.found : v <= s.version}
    /\ s.pc = "running" =>
         /\ s.statement <= Scripts[s.version]
         /\ d.made[s.version] <= Scripts[s.version] - s.statement + 1
    /\ s.pc = "recording" => d.made[s.version] = 0
    /\ s.pc = "dropping" => d.recorded = {}
    /\ s.pc = "releasing" /\ s.result = "ok" => d.recorded = {} /\ ~d.table

\* Versions are recorded in the table, and a version has the objects of its
\* script at most.
TableOK(d) ==
  /\ d.recorded # {} => d.table
  /\ \A v \in Versions : d.made[v] <= Scripts[v]

NoRollbackTorn(t) == \A x \in t : x.op # "rollback"

\* Unless a caller was cut off in the middle of a rollback: what is recorded is
\* in place, but for the version that is being rolled back.
RecordedIsWhole(d, s, t) ==
  NoRollbackTorn(t) =>
    \A v \in d.recorded :
      \/ d.made[v] = Scripts[v]
      \/ WorksOn(s, "rollback", v) /\ (s.pc = "running" => s.statement > 1)

\* At most version 1 was cut off while it was made.
FirstOnly(t) == t \subseteq {[op |-> "migrate", version |-> 1]}

\* What is neither recorded nor being made does not exist, but for what is left
\* of version 1.
NothingElse(d, s, t) ==
  FirstOnly(t) =>
    \A v \in Versions \ d.recorded :
      (v # 1 \/ t = {}) /\ ~WorksOn(s, "migrate", v) => d.made[v] = 0

\* ... what is being made exists as far as its statements were run, and no
\* statement fails.
NoFailure(d, s, t) ==
  FirstOnly(t) =>
    /\ s.op = "migrate" /\ s.pc = "running" /\ s.version # 1
         => d.made[s.version] = s.statement - 1
    /\ s.pc = "releasing" => s.result # "statement"

SchemaOK(d, s, t) ==
  /\ TableOK(d) /\ MigrateOK(d, s) /\ RollbackOK(d, s)
  /\ RecordedIsWhole(d, s, t) /\ NothingElse(d, s, t) /\ NoFailure(d, s, t)

MigrationsInv ==
  /\ MigrationsTypeOK
  /\ \A c \in Callers : Holding(call[c]) <=> namedLock = c
  /\ \A c \in Callers : Entered(call[c])
  /\ SchemaOK(db, Holder, torn)
----------------------------------------------------------------------------
(* Migrations: the scripts                                                 *)

LEMMA Script ==
  /\ Versions = 1..5 /\ Len(Scripts) = 5
  /\ Scripts[1] = 5 /\ \A v \in 2..5 : Scripts[v] = 1
  /\ \A v \in Versions : Scripts[v] \in 1..5
  BY DEF Scripts, Versions

\* An alteration alters an object of an earlier version.
LEMMA Alteration ==
  ASSUME NEW v \in Alterations
  PROVE  /\ v \in 3..5
         /\ Altered[v].version \in 1..2 /\ Altered[v].version < v
         /\ Altered[v].object \in 1..Scripts[Altered[v].version]
  <1>1. v \in 3..5
    BY DEF Alterations, Altered
  <1>2. CASE v = 4
    <2>1. Altered[4] = [version |-> 1, object |-> 5]
      BY DEF Altered
    <2>. QED BY <1>1, <1>2, <2>1, Script
  <1>3. CASE v # 4
    <2>1. Altered[v] = [version |-> 2, object |-> 1]
      BY <1>1, <1>3 DEF Altered
    <2>. QED BY <1>1, <1>3, <2>1, Script
  <1>. QED BY <1>2, <1>3

LEMMA MaxOfTwo ==
  ASSUME NEW a \in Nat, NEW b \in Nat
  PROVE  Max({a, b}) = IF a > b THEN a ELSE b
  <1>. DEFINE m == IF a > b THEN a ELSE b
  <1>1. m \in {a, b} /\ \A y \in {a, b} : m >= y
    OBVIOUS
  <1>2. \A x \in {a, b} : (\A y \in {a, b} : x >= y) => x = m
    OBVIOUS
  <1>. QED BY <1>1, <1>2 DEF Max

LEMMA MinOfTwo ==
  ASSUME NEW a \in Nat, NEW b \in Nat
  PROVE  Min({a, b}) = IF a > b THEN b ELSE a
  <1>. DEFINE m == IF a > b THEN b ELSE a
  <1>1. m \in {a, b} /\ \A y \in {a, b} : m =< y
    OBVIOUS
  <1>2. \A x \in {a, b} : (\A y \in {a, b} : x =< y) => x = m
    OBVIOUS
  <1>. QED BY <1>1, <1>2 DEF Min

LEMMA LastVersion ==
  ASSUME NEW S \in SUBSET Versions, S # {}
  PROVE  Max(S) \in S /\ \A v \in S : v <= Max(S)
  <1>1. \E x \in S : \A y \in S : x >= y
    <2>1. S \subseteq 1..5
      BY Script
    <2>2. CASE 5 \in S
      BY <2>1, <2>2
    <2>3. CASE 5 \notin S /\ 4 \in S
      BY <2>1, <2>3
    <2>4. CASE 5 \notin S /\ 4 \notin S /\ 3 \in S
      BY <2>1, <2>4
    <2>5. CASE 5 \notin S /\ 4 \notin S /\ 3 \notin S /\ 2 \in S
      BY <2>1, <2>5
    <2>6. CASE 5 \notin S /\ 4 \notin S /\ 3 \notin S /\ 2 \notin S
      <3>1. \A y \in S : y = 1
        BY <2>1, <2>6
      <3>. QED BY <3>1
    <2>. QED BY <2>1, <2>2, <2>3, <2>4, <2>5, <2>6
  <1>. QED BY <1>1, Script DEF Max

\* A statement of an up script makes the next object of its version.
LEMMA UpEffect ==
  ASSUME db \in Database, NEW v \in Versions, NEW k \in 1..5
  PROVE  /\ Up(v, k) \in Database
         /\ Up(v, k).recorded = db.recorded /\ Up(v, k).table = db.table
         /\ Up(v, k).made[v] = IF db.made[v] > k THEN db.made[v] ELSE k
         /\ \A w \in Versions \ {v} : Up(v, k).made[w] = db.made[w]
  <1>1. db.made \in [Versions -> 0..5]
    BY DEF Database
  <1>2. Max({db.made[v], k}) = IF db.made[v] > k THEN db.made[v] ELSE k
    BY <1>1, MaxOfTwo
  <1>3. Up(v, k) = [db EXCEPT !.made = [db.made EXCEPT ![v] = Max({db.made[v], k})]]
    BY <1>1 DEF Up, Database
  <1>4. Max({db.made[v], k}) \in 0..5
    BY <1>1, <1>2
  <1>. QED BY <1>1, <1>2, <1>3, <1>4 DEF Database

\* A statement of a down script drops the last object of its version, and with
\* it what later versions have altered.
LEMMA DownEffect ==
  ASSUME db \in Database, NEW v \in Versions, NEW k \in 1..5, k <= Scripts[v]
  PROVE  /\ Down(v, k) \in Database
         /\ Down(v, k).recorded = db.recorded /\ Down(v, k).table = db.table
         /\ Down(v, k).made[v] = IF db.made[v] > Scripts[v] - k THEN Scripts[v] - k
                                                              ELSE db.made[v]
         /\ \A w \in Versions \ {v} :
              \/ Down(v, k).made[w] = db.made[w]
              \/ Down(v, k).made[w] = 0 /\ w > v
  <1>. DEFINE n == Scripts[v] - k + 1
              gone(w) == w \in Alterations /\ Altered[w] = [version |-> v, object |-> n]
              made == [w \in Versions |-> IF w = v THEN Min({db.made[w], n - 1})
                                          ELSE IF gone(w) THEN 0 ELSE db.made[w]]
  <1>1. db.made \in [Versions -> 0..5]
    BY DEF Database
  <1>2. Scripts[v] - k \in 0..4 /\ n - 1 = Scripts[v] - k
    BY Script
  <1>3. Min({db.made[v], n - 1}) = IF db.made[v] > Scripts[v] - k THEN Scripts[v] - k
                                                                ELSE db.made[v]
    BY <1>1, <1>2, MinOfTwo
  <1>4. \A w \in Versions : gone(w) => v < w
    BY Alteration
  <1>5. Down(v, k) = [db EXCEPT !.made = made]
    BY DEF Down
  <1>6. made \in [Versions -> 0..5]
    BY <1>1, <1>2, <1>3
  <1>7. made[v] = Min({db.made[v], n - 1})
    OBVIOUS
  <1>8. \A w \in Versions \ {v} : made[w] = db.made[w] \/ (made[w] = 0 /\ w > v)
    BY <1>4
  <1>9. /\ Down(v, k).made = made /\ Down(v, k) \in Database
        /\ Down(v, k).recorded = db.recorded /\ Down(v, k).table = db.table
    BY <1>5, <1>6 DEF Database
  <1>. HIDE DEF made, gone
  <1>. QED BY <1>3, <1>7, <1>8, <1>9

----------------------------------------------------------------------------
(* Migrations: who has the lock                                            *)

LEMMA IdleState ==
  /\ Idle \in CallerState /\ Idle.pc = "idle" /\ Idle.op = "none"
  /\ Idle.version = 1 /\ ~Holding(Idle) /\ Entered(Idle)
  BY Script DEF Idle, CallerState, Holding, Entered

LEMMA HolderState ==
  ASSUME MigrationsInv
  PROVE  /\ Holder \in CallerState
         /\ \A c \in Callers : Holding(call[c]) => namedLock = c /\ Holder = call[c]
  BY IdleState, MigrationsAssumption DEF MigrationsInv, MigrationsTypeOK, Holder

\* What a caller does that does not have the lock leaves the schema alone.
LEMMA Bystander ==
  ASSUME MigrationsInv, NEW c \in Callers, namedLock # c,
         NEW s \in CallerState, ~Holding(s), Entered(s),
         call' = [call EXCEPT ![c] = s],
         UNCHANGED <<db, namedLock, torn>>, cuts' \in 0..MaxCuts
  PROVE  MigrationsInv'
  <1>1. call \in [Callers -> CallerState]
    BY DEF MigrationsInv, MigrationsTypeOK
  <1>2. call'[c] = s /\ \A d \in Callers \ {c} : call'[d] = call[d]
    BY <1>1
  <1>3. MigrationsTypeOK'
    BY <1>1 DEF MigrationsInv, MigrationsTypeOK
  <1>4. Holder' = Holder
    BY <1>2 DEF Holder, MigrationsInv, MigrationsTypeOK
  <1>5. \A d \in Callers : Holding(call'[d]) <=> namedLock' = d
    BY <1>2 DEF MigrationsInv
  <1>6. \A d \in Callers : Entered(call'[d])
    BY <1>2 DEF MigrationsInv
  <1>7. SchemaOK(db', Holder', torn')
    BY <1>4 DEF MigrationsInv
  <1>. QED BY <1>3, <1>5, <1>6, <1>7 DEF MigrationsInv

\* What the caller does that has the lock, or gets it.
LEMMA HolderActs ==
  ASSUME MigrationsInv, NEW c \in Callers, namedLock \in {c, NoCaller}, namedLock' = c,
         NEW s \in CallerState, Holding(s), Entered(s),
         call' = [call EXCEPT ![c] = s],
         db' \in Database, SchemaOK(db', s, torn),
         UNCHANGED <<torn, cuts>>
  PROVE  MigrationsInv'
  <1>1. call \in [Callers -> CallerState]
    BY DEF MigrationsInv, MigrationsTypeOK
  <1>2. call'[c] = s /\ \A d \in Callers \ {c} : call'[d] = call[d]
    BY <1>1
  <1>3. MigrationsTypeOK'
    BY <1>1 DEF MigrationsInv, MigrationsTypeOK
  <1>4. Holder' = s
    BY <1>2, MigrationsAssumption DEF Holder
  <1>5. \A d \in Callers : Holding(call'[d]) <=> namedLock' = d
    BY <1>2, MigrationsAssumption DEF MigrationsInv
  <1>6. \A d \in Callers : Entered(call'[d])
    BY <1>2 DEF MigrationsInv
  <1>7. SchemaOK(db', Holder', torn')
    BY <1>4
  <1>. QED BY <1>3, <1>5, <1>6, <1>7 DEF MigrationsInv

\* It gives the lock back, or loses it.
LEMMA HolderLeaves ==
  ASSUME MigrationsInv, NEW c \in Callers, namedLock = c, namedLock' = NoCaller,
         call' = [call EXCEPT ![c] = Idle],
         db' \in Database, SchemaOK(db', Idle, torn'),
         torn' \subseteq [op : {"migrate", "rollback"}, version : Versions],
         cuts' \in 0..MaxCuts
  PROVE  MigrationsInv'
  <1>1. call \in [Callers -> CallerState]
    BY DEF MigrationsInv, MigrationsTypeOK
  <1>2. call'[c] = Idle /\ \A d \in Callers \ {c} : call'[d] = call[d]
    BY <1>1
  <1>3. MigrationsTypeOK'
    BY <1>1, IdleState DEF MigrationsInv, MigrationsTypeOK
  <1>4. Holder' = Idle
    BY DEF Holder
  <1>5. \A d \in Callers : Holding(call'[d]) <=> namedLock' = d
    BY <1>2, IdleState, MigrationsAssumption DEF MigrationsInv
  <1>6. \A d \in Callers : Entered(call'[d])
    BY <1>2, IdleState DEF MigrationsInv
  <1>7. SchemaOK(db', Holder', torn')
    BY <1>4
  <1>. QED BY <1>3, <1>5, <1>6, <1>7 DEF MigrationsInv

----------------------------------------------------------------------------
(* Migrations: what each step of the caller with the lock does             *)

LEMMA StatementState ==
  ASSUME NEW s \in CallerState, NEW v, NEW k, v \in Versions, k \in 1..5
  PROVE  /\ AtStatement(s, v, k) \in CallerState
         /\ AtStatement(s, v, k).op = s.op /\ AtStatement(s, v, k).found = s.found
         /\ AtStatement(s, v, k).pc = "running"
         /\ AtStatement(s, v, k).version = v /\ AtStatement(s, v, k).statement = k
  <1>1. v \in 1..(Len(Scripts) + 1)
    BY Script
  <1>. QED BY <1>1 DEF CallerState, AtStatement

LEMMA FirstStatement ==
  ASSUME NEW s \in CallerState, NEW v \in Versions, NEW r, r = AtStatement(s, v, 1)
  PROVE  /\ r \in CallerState /\ r.op = s.op /\ r.found = s.found
         /\ r.pc = "running" /\ r.version = v /\ r.statement = 1
  <1>. DEFINE k == 1
  <1>1. k \in 1..5
    OBVIOUS
  <1>2. r = AtStatement(s, v, k)
    OBVIOUS
  <1>. HIDE DEF k
  <1>3. /\ r \in CallerState /\ r.op = s.op /\ r.found = s.found
        /\ r.pc = "running" /\ r.version = v /\ r.statement = k
    BY <1>1, <1>2, StatementState
  <1>. QED BY <1>3 DEF k

\* After a version, migrate() looks at the next one, or is done.
LEMMA MigrateOnward ==
  ASSUME NEW s \in CallerState, s.op = "migrate", s.version \in Versions
  PROVE  /\ Onward(s) \in CallerState /\ Onward(s).op = s.op
         /\ \/ /\ s.version = 5
               /\ Onward(s).pc = "releasing" /\ Onward(s).result = "ok"
            \/ /\ s.version < 5
               /\ Onward(s).pc = "checking" /\ Onward(s).version = s.version + 1
  <1>1. CASE s.version = 5
    BY <1>1, Script DEF Onward, Ending, CallerState
  <1>2. CASE s.version # 5
    <2>1. Onward(s) = [s EXCEPT !.pc = "checking", !.version = s.version + 1]
      BY <1>2, Script DEF Onward, CallerState
    <2>2. s.version < 5 /\ s.version + 1 \in 1..(Len(Scripts) + 1)
      BY <1>2, Script
    <2>. QED BY <2>1, <2>2 DEF CallerState
  <1>. QED BY <1>1, <1>2

\* Before the first version and after each, rollbackAll() takes the last one
\* that is left, or drops the table.
LEMMA RollbackOnward ==
  ASSUME NEW s \in CallerState, s.op = "rollback"
  PROVE  /\ Onward(s) \in CallerState /\ Onward(s).op = s.op
         /\ \/ /\ {v \in s.found : v < s.version} = {}
               /\ Onward(s).pc = "dropping"
            \/ /\ Onward(s).pc = "running" /\ Onward(s).statement = 1
               /\ Onward(s).found = s.found
               /\ Onward(s).version \in {v \in s.found : v < s.version}
               /\ \A v \in s.found : v < s.version => v <= Onward(s).version
  <1>. DEFINE left == {v \in s.found : v < s.version}
  <1>1. left \in SUBSET Versions
    BY DEF CallerState
  <1>2. CASE left = {}
    <2>1. Onward(s) = [s EXCEPT !.pc = "dropping"]
      BY <1>2 DEF Onward
    <2>. QED BY <1>2, <2>1 DEF CallerState
  <1>3. CASE left # {}
    <2>1. Onward(s) = AtStatement(s, Max(left), 1)
      BY <1>3 DEF Onward
    <2>2. Max(left) \in left /\ \A v \in left : v <= Max(left)
      BY <1>1, <1>3, LastVersion
    <2>3. Max(left) \in Versions
      BY <1>1, <2>2
    <2>. HIDE DEF left
    <2>4. /\ Onward(s) \in CallerState /\ Onward(s).op = s.op
          /\ Onward(s).pc = "running" /\ Onward(s).statement = 1
          /\ Onward(s).found = s.found /\ Onward(s).version = Max(left)
      BY <2>1, <2>3, FirstStatement
    <2>. QED BY <2>2, <2>4 DEF left
  <1>. QED BY <1>2, <1>3

\* The caller that is between the two has the lock.
LEMMA TheHolder ==
  ASSUME MigrationsInv, NEW c \in Callers, Holding(call[c])
  PROVE  /\ namedLock = c /\ call[c] \in CallerState
         /\ call[c].op \in {"migrate", "rollback"} /\ call[c].found \subseteq Versions
         /\ db \in Database /\ SchemaOK(db, call[c], torn)
         /\ torn \subseteq [op : {"migrate", "rollback"}, version : Versions]
         /\ cuts \in 0..MaxCuts
  <1>1. namedLock = c /\ Holder = call[c] /\ call[c] \in CallerState
    BY HolderState DEF MigrationsInv, MigrationsTypeOK
  <1>2. call[c].op \in {"migrate", "rollback"}
    BY DEF MigrationsInv, Entered, Holding
  <1>3. call[c].found \subseteq Versions
    BY <1>1 DEF CallerState
  <1>. QED BY <1>1, <1>2, <1>3 DEF MigrationsInv, MigrationsTypeOK

LEMMA GetLockKeeps ==
  ASSUME MigrationsInv, NEW c \in Callers, GetLock(c)
  PROVE  MigrationsInv'
  <1>. DEFINE s == [call[c] EXCEPT !.pc = IF call[c].op = "migrate"
                                            THEN "creating" ELSE "inspecting"]
  <1>1. /\ call[c] \in CallerState /\ db \in Database
        /\ namedLock = NoCaller /\ namedLock' = c /\ call' = [call EXCEPT ![c] = s]
        /\ UNCHANGED <<db, torn, cuts>>
    BY DEF MigrationsInv, MigrationsTypeOK, GetLock, Granted, Goes
  <1>2. call[c].op \in {"migrate", "rollback"} /\ call[c].version = 1
    BY DEF MigrationsInv, Entered, GetLock
  <1>3. /\ s \in CallerState /\ Holding(s) /\ Entered(s)
        /\ s.pc = IF s.op = "migrate" THEN "creating" ELSE "inspecting"
    BY <1>1, <1>2 DEF CallerState, Holding, Entered
  <1>4. SchemaOK(db, Idle, torn)
    BY <1>1 DEF MigrationsInv, Holder
  <1>. HIDE DEF s
  <1>5. SchemaOK(db, s, torn)
    BY <1>3, <1>4, IdleState DEF SchemaOK, MigrateOK, RollbackOK, RecordedIsWhole, NothingElse,
       NoFailure, WorksOn
  <1>. QED BY <1>1, <1>3, <1>5, HolderActs

LEMMA CreateTableKeeps ==
  ASSUME MigrationsInv, NEW c \in Callers, CreateTable(c)
  PROVE  MigrationsInv'
  <1>. DEFINE s == [call[c] EXCEPT !.pc = "checking"]
  <1>1. call[c].pc = "creating" /\ Holding(call[c])
    BY DEF CreateTable, Holding
  <1>2. db' = [db EXCEPT !.table = TRUE]
    BY <1>1 DEF CreateTable, Executed
  <1>3. call' = [call EXCEPT ![c] = s] /\ UNCHANGED <<namedLock, torn, cuts>>
    BY DEF CreateTable, Goes
  <1>4. call[c].op = "migrate" /\ call[c].version = 1
    BY <1>1, TheHolder DEF SchemaOK, RollbackOK, MigrationsInv, Entered
  <1>5. /\ s \in CallerState /\ Holding(s) /\ Entered(s)
        /\ s.pc = "checking" /\ s.op = "migrate" /\ s.version = 1
    BY <1>1, <1>4, TheHolder DEF CallerState, Holding, Entered
  <1>6. /\ db' \in Database /\ db'.table
        /\ db'.made = db.made /\ db'.recorded = db.recorded
    BY <1>1, <1>2, TheHolder DEF Database
  <1>. HIDE DEF s
  <1>7. SchemaOK(db', s, torn)
    BY <1>1, <1>5, <1>6, TheHolder, Script DEF SchemaOK, TableOK, MigrateOK, RollbackOK,
       RecordedIsWhole, NothingElse, NoFailure, WorksOn
  <1>. QED BY <1>1, <1>3, <1>5, <1>6, <1>7, HolderActs, TheHolder

LEMMA CheckKeeps ==
  ASSUME MigrationsInv, NEW c \in Callers, Check(c)
  PROVE  MigrationsInv'
  <1>1. call[c].pc = "checking" /\ Holding(call[c])
    BY DEF Check, Holding
  <1>2. UNCHANGED <<db, namedLock, torn, cuts>>
    BY DEF Check
  <1>3. /\ call[c].op = "migrate" /\ call[c].version \in Versions
        /\ 1..(call[c].version - 1) \subseteq db.recorded /\ db.table
    BY <1>1, TheHolder DEF SchemaOK, RollbackOK, MigrateOK
  <1>4. CASE call[c].version \in db.recorded
    <2>. DEFINE s == Onward(call[c])
    <2>1. call' = [call EXCEPT ![c] = s]
      BY <1>4 DEF Check, Goes
    <2>2. /\ s \in CallerState /\ s.op = "migrate"
          /\ \/ call[c].version = 5 /\ s.pc = "releasing" /\ s.result = "ok"
             \/ call[c].version < 5 /\ s.pc = "checking" /\ s.version = call[c].version + 1
      BY <1>1, <1>3, MigrateOnward, TheHolder
    <2>3. Holding(s) /\ Entered(s)
      BY <2>2 DEF Holding, Entered
    <2>. HIDE DEF s
    <2>4. 1..call[c].version \subseteq db.recorded /\ db.recorded \subseteq Versions
      BY <1>1, <1>3, <1>4, TheHolder, Script DEF Database
    <2>5. MigrateOK(db, s)
      BY <1>3, <2>2, <2>4, Script DEF MigrateOK
    <2>6. SchemaOK(db, s, torn)
      BY <1>1, <2>2, <2>5, TheHolder DEF SchemaOK, RollbackOK, RecordedIsWhole, NothingElse,
         NoFailure, WorksOn
    <2>. QED BY <1>1, <1>2, <2>1, <2>2, <2>3, <2>6, HolderActs, TheHolder
  <1>5. CASE call[c].version \notin db.recorded
    <2>. DEFINE s == AtStatement(call[c], call[c].version, 1)
    <2>1. call' = [call EXCEPT ![c] = s]
      BY <1>5 DEF Check, Goes
    <2>2. /\ s \in CallerState /\ s.op = "migrate" /\ s.pc = "running" /\ s.statement = 1
          /\ s.version = call[c].version
      BY <1>1, <1>3, FirstStatement, TheHolder
    <2>3. Holding(s) /\ Entered(s)
      BY <2>2 DEF Holding, Entered
    <2>. HIDE DEF s
    <2>4. db.made[s.version] \in Nat /\ Scripts[s.version] >= 1
      BY <1>1, <1>3, <2>2, TheHolder, Script DEF Database
    <2>5. MigrateOK(db, s) /\ RollbackOK(db, s)
      BY <1>3, <1>5, <2>2, <2>4 DEF MigrateOK, RollbackOK
    <2>6. SchemaOK(db, s, torn)
      BY <1>1, <1>3, <1>5, <2>2, <2>5, TheHolder
      DEF SchemaOK, RecordedIsWhole, NothingElse, NoFailure, WorksOn
    <2>. QED BY <1>1, <1>2, <2>1, <2>2, <2>3, <2>6, HolderActs, TheHolder
  <1>. QED BY <1>4, <1>5

LEMMA InspectKeeps ==
  ASSUME MigrationsInv, NEW c \in Callers, Inspect(c)
  PROVE  MigrationsInv'
  <1>1. call[c].pc = "inspecting" /\ Holding(call[c])
    BY DEF Inspect, Holding
  <1>2. UNCHANGED <<db, namedLock, torn, cuts>>
    BY DEF Inspect
  <1>3. call[c].op = "rollback"
    BY <1>1, TheHolder DEF SchemaOK, MigrateOK
  <1>4. CASE ~db.table
    <2>. DEFINE s == Ending(call[c], "ok")
    <2>1. call' = [call EXCEPT ![c] = s]
      BY <1>4 DEF Inspect, Goes
    <2>2. s \in CallerState /\ s.op = "rollback" /\ s.pc = "releasing" /\ s.result = "ok"
      BY <1>1, <1>3, TheHolder DEF CallerState, Ending
    <2>3. Holding(s) /\ Entered(s)
      BY <2>2 DEF Holding, Entered
    <2>. HIDE DEF s
    <2>4. SchemaOK(db, s, torn)
      BY <1>1, <1>4, <2>2, TheHolder DEF SchemaOK, TableOK, MigrateOK, RollbackOK,
         RecordedIsWhole, NothingElse, NoFailure, WorksOn
    <2>. QED BY <1>1, <1>2, <2>1, <2>2, <2>3, <2>4, HolderActs, TheHolder
  <1>5. CASE db.table
    <2>. DEFINE s0 == [call[c] EXCEPT !.found = db.recorded, !.version = Len(Scripts) + 1]
                s == Onward(s0)
    <2>1. call' = [call EXCEPT ![c] = s]
      BY <1>5 DEF Inspect, Goes
    <2>2. s0 \in CallerState /\ s0.op = "rollback" /\ s0.found = db.recorded /\ s0.version = 6
      <3>. DEFINE v0 == Len(Scripts) + 1
      <3>1. v0 \in 1..(Len(Scripts) + 1) /\ v0 = 6
        BY Script
      <3>2. db.recorded \subseteq Versions
        BY <1>1, TheHolder DEF Database
      <3>3. s0 = [call[c] EXCEPT !.found = db.recorded, !.version = v0]
        OBVIOUS
      <3>. HIDE DEF s0, v0
      <3>. QED BY <1>1, <1>3, <3>1, <3>2, <3>3, TheHolder DEF CallerState
    <2>. HIDE DEF s0
    <2>3. /\ s \in CallerState /\ s.op = "rollback"
          /\ \/ {v \in db.recorded : v < 6} = {} /\ s.pc = "dropping"
             \/ /\ s.pc = "running" /\ s.statement = 1 /\ s.found = db.recorded
                /\ s.version \in {v \in db.recorded : v < 6}
                /\ \A v \in db.recorded : v < 6 => v <= s.version
      BY <2>2, RollbackOnward
    <2>4. db.recorded \subseteq Versions /\ {v \in db.recorded : v < 6} = db.recorded
      BY <1>1, TheHolder, Script DEF Database
    <2>. HIDE DEF s
    <2>5. Holding(s) /\ Entered(s)
      BY <2>3 DEF Holding, Entered
    <2>6. RollbackOK(db, s)
      <3>1. CASE s.pc = "dropping"
        BY <2>3, <2>4, <3>1 DEF RollbackOK
      <3>2. CASE s.pc = "running"
        <4>1. /\ s.version \in db.recorded /\ s.version \in Versions
              /\ db.recorded = {v \in s.found : v <= s.version}
          BY <2>3, <2>4, <3>2, Script
        <4>2. db.made[s.version] <= Scripts[s.version] /\ db.made[s.version] \in Nat
              /\ Scripts[s.version] \in Nat /\ Scripts[s.version] >= 1
          BY <1>1, <4>1, TheHolder, Script DEF SchemaOK, TableOK, Database
        <4>. QED BY <2>3, <3>2, <4>1, <4>2 DEF RollbackOK
      <3>. QED BY <2>3, <3>1, <3>2
    <2>7. SchemaOK(db, s, torn)
      BY <1>1, <2>3, <2>6, TheHolder DEF SchemaOK, MigrateOK,
         RecordedIsWhole, NothingElse, NoFailure, WorksOn
    <2>. QED BY <1>1, <1>2, <2>1, <2>3, <2>5, <2>7, HolderActs, TheHolder
  <1>. QED BY <1>4, <1>5, TheHolder, <1>1 DEF Database

\* Unless somebody was cut off, a statement does not fail: what migrate() makes
\* is not there and what it alters is; what rollbackAll() takes back is there.
LEMMA StatementSucceeds ==
  ASSUME MigrationsInv, NEW c \in Callers, call[c].pc = "running",
         StatementFails(call[c])
  PROVE  /\ ~FirstOnly(torn)
         /\ call[c].op = "rollback" => ~NoRollbackTorn(torn)
  <1>. DEFINE v == call[c].version
              k == call[c].statement
  <1>0. Holding(call[c])
    BY DEF Holding
  <1>1. /\ SchemaOK(db, call[c], torn) /\ call[c].op \in {"migrate", "rollback"}
        /\ db.made \in [Versions -> 0..5] /\ db.recorded \subseteq Versions
        /\ k \in 1..5 /\ call[c] \in CallerState
    BY <1>0, TheHolder DEF Database, CallerState
  <1>2. FirstOnly(torn) => NoRollbackTorn(torn)
    BY DEF FirstOnly, NoRollbackTorn
  <1>3. CASE call[c].op = "migrate"
    <2>1. /\ v \in Versions /\ 1..(v - 1) \subseteq db.recorded
          /\ \A w \in db.recorded : NoRollbackTorn(torn) => db.made[w] = Scripts[w]
          /\ FirstOnly(torn) /\ v # 1 => db.made[v] = k - 1
      BY <1>1, <1>3 DEF SchemaOK, MigrateOK, RecordedIsWhole, NoFailure, WorksOn
    <2>2. UpFails(v, k)
      BY <1>3 DEF StatementFails
    <2>3. CASE v \notin Repeatable /\ db.made[v] >= k
      BY <1>1, <2>1, <2>3, <1>3 DEF Repeatable
    <2>4. CASE v \in Alterations /\ ~BaseExists(v)
      <3>1. /\ Altered[v].version \in 1..(v - 1) /\ Altered[v].version \in 1..2
            /\ Altered[v].object \in 1..Scripts[Altered[v].version]
        BY <2>4, Alteration
      <3>2. db.made[Altered[v].version] < Altered[v].object
            \/ db.made[Altered[v].version] # Scripts[Altered[v].version]
        <4>1. db.made[Altered[v].version] \in Int
          BY <1>1, <3>1, Script
        <4>. QED BY <2>4, <4>1, <3>1 DEF BaseExists
      <3>3. NoRollbackTorn(torn) => db.made[Altered[v].version] = Scripts[Altered[v].version]
        BY <2>1, <3>1
      <3>4. NoRollbackTorn(torn) => BaseExists(v)
        BY <3>1, <3>3, Script DEF BaseExists
      <3>. QED BY <1>2, <1>3, <2>4, <3>4
    <2>. QED BY <2>2, <2>3, <2>4 DEF UpFails
  <1>4. CASE call[c].op = "rollback"
    <2>1. /\ v \in db.recorded /\ k <= Scripts[v]
          /\ NoRollbackTorn(torn) => db.made[v] = Scripts[v] \/ k > 1
      BY <1>1, <1>4 DEF SchemaOK, RollbackOK, RecordedIsWhole, WorksOn
    <2>2. v \in Alterations /\ db.made[v] = 0
      BY <1>4 DEF StatementFails, DownFails
    <2>3. Scripts[v] = 1
      BY <2>2, Alteration, Script
    <2>. QED BY <1>1, <1>2, <2>1, <2>2, <2>3
  <1>. QED BY <1>1, <1>3, <1>4

LEMMA RunKeeps ==
  ASSUME MigrationsInv, NEW c \in Callers, Run(c)
  PROVE  MigrationsInv'
  <1>. DEFINE v == call[c].version
              k == call[c].statement
  <1>1. call[c].pc = "running" /\ Holding(call[c])
    BY DEF Run, Holding
  <1>2. UNCHANGED <<namedLock, torn, cuts>> /\ db' = Executed(call[c])
    BY DEF Run
  <1>3. /\ SchemaOK(db, call[c], torn) /\ call[c] \in CallerState /\ db \in Database
        /\ call[c].op \in {"migrate", "rollback"} /\ namedLock = c
    BY <1>1, TheHolder
  <1>4. v \in Versions /\ k \in 1..5 /\ k <= Scripts[v] /\ Scripts[v] \in 1..5
        /\ db.recorded \subseteq Versions /\ db.made \in [Versions -> 0..5]
    BY <1>1, <1>3, Script DEF SchemaOK, MigrateOK, RollbackOK, CallerState, Database
  <1>5. CASE StatementFails(call[c])
    <2>. DEFINE s == Ending(call[c], "statement")
    <2>1. call' = [call EXCEPT ![c] = s]
      BY <1>5 DEF Run, Goes
    <2>2. db' = db
      BY <1>1, <1>2, <1>5 DEF Executed
    <2>3. /\ s \in CallerState /\ s.op = call[c].op
          /\ s.pc = "releasing" /\ s.result = "statement"
      BY <1>3 DEF CallerState, Ending
    <2>. HIDE DEF s
    <2>4. Holding(s) /\ Entered(s)
      BY <1>3, <2>3 DEF Holding, Entered
    <2>5. ~FirstOnly(torn) /\ (call[c].op = "rollback" => ~NoRollbackTorn(torn))
      BY <1>1, <1>5, StatementSucceeds
    <2>6. SchemaOK(db, s, torn)
      BY <1>1, <1>3, <2>3, <2>5 DEF SchemaOK, MigrateOK, RollbackOK,
         RecordedIsWhole, NothingElse, NoFailure, WorksOn
    <2>. QED BY <1>2, <1>3, <2>1, <2>2, <2>3, <2>4, <2>6, HolderActs
  <1>6. CASE ~StatementFails(call[c])
    <2>. DEFINE s == IF k < Scripts[v] THEN AtStatement(call[c], v, k + 1)
                     ELSE [call[c] EXCEPT !.pc = "recording"]
    <2>1. call' = [call EXCEPT ![c] = s]
      BY <1>6 DEF Run, Goes
    <2>2. /\ s \in CallerState /\ s.op = call[c].op /\ s.version = v /\ s.found = call[c].found
          /\ \/ k < Scripts[v] /\ s.pc = "running" /\ s.statement = k + 1
             \/ k = Scripts[v] /\ s.pc = "recording"
      <3>1. CASE k < Scripts[v]
        <4>1. k + 1 \in 1..5
          BY <1>4, <3>1
        <4>. QED BY <1>3, <1>4, <3>1, <4>1, StatementState
      <3>2. CASE ~(k < Scripts[v])
        <4>1. k = Scripts[v]
          BY <1>4, <3>2
        <4>2. s = [call[c] EXCEPT !.pc = "recording"]
          BY <3>2
        <4>. HIDE DEF s
        <4>. QED BY <1>3, <4>1, <4>2 DEF CallerState
      <3>. QED BY <3>1, <3>2
    <2>. HIDE DEF s
    <2>3. Holding(s) /\ Entered(s)
      BY <1>3, <2>2 DEF Holding, Entered
    <2>4. CASE call[c].op = "migrate"
      <3>1. /\ db' \in Database /\ db'.recorded = db.recorded /\ db'.table = db.table
            /\ db'.made[v] = IF db.made[v] > k THEN db.made[v] ELSE k
            /\ \A w \in Versions \ {v} : db'.made[w] = db.made[w]
        <4>1. db' = Up(v, k)
          BY <1>1, <1>2, <1>6, <2>4 DEF Executed
        <4>. QED BY <1>3, <1>4, <4>1, UpEffect
      <3>2. /\ db.table /\ 1..(v - 1) \subseteq db.recorded /\ v \notin db.recorded
            /\ db.made[v] <= Scripts[v] /\ db.made[v] \in 0..5
            /\ \A w \in Versions : db.made[w] <= Scripts[w]
        BY <1>1, <1>3, <1>4, <2>4 DEF SchemaOK, MigrateOK, TableOK
      <3>3. k <= db'.made[v] /\ db'.made[v] <= Scripts[v] /\ db'.made[v] \in 0..5
        BY <1>4, <3>1, <3>2
      <3>4. TableOK(db') /\ MigrateOK(db', s) /\ RollbackOK(db', s)
        <4>1. TableOK(db')
          BY <3>1, <3>2, <3>3 DEF TableOK
        <4>2. MigrateOK(db', s)
          BY <1>4, <2>2, <2>4, <3>1, <3>2, <3>3 DEF MigrateOK
        <4>. QED BY <2>2, <2>4, <4>1, <4>2 DEF RollbackOK
      <3>5. RecordedIsWhole(db', s, torn)
        BY <1>3, <1>4, <2>2, <2>4, <3>1, <3>2 DEF SchemaOK, RecordedIsWhole, WorksOn
      <3>6. NothingElse(db', s, torn)
        BY <1>3, <1>4, <2>2, <2>4, <3>1, <3>2 DEF SchemaOK, NothingElse, WorksOn
      <3>7. NoFailure(db', s, torn)
        <4>1. v # 1 => k = Scripts[v]
          BY <1>4, Script
        <4>. QED BY <1>4, <2>2, <2>4, <4>1 DEF NoFailure
      <3>. QED BY <1>2, <1>3, <2>1, <2>2, <2>3, <3>1, <3>4, <3>5, <3>6, <3>7, HolderActs DEF SchemaOK
    <2>5. CASE call[c].op = "rollback"
      <3>1. /\ db' \in Database /\ db'.recorded = db.recorded /\ db'.table = db.table
            /\ db'.made[v] = IF db.made[v] > Scripts[v] - k THEN Scripts[v] - k ELSE db.made[v]
            /\ \A w \in Versions \ {v} : \/ db'.made[w] = db.made[w]
                                         \/ db'.made[w] = 0 /\ w > v
        <4>1. db' = Down(v, k)
          BY <1>1, <1>2, <1>6, <2>5 DEF Executed
        <4>. QED BY <1>3, <1>4, <4>1, DownEffect
      <3>2. /\ v \in db.recorded /\ db.recorded = {w \in call[c].found : w <= v}
            /\ \A w \in Versions : db.made[w] <= Scripts[w] /\ db.made[w] \in 0..5
            /\ db.recorded # {} => db.table
        BY <1>1, <1>3, <1>4, <2>5 DEF SchemaOK, RollbackOK, TableOK
      <3>3. db'.made[v] <= Scripts[v] - k /\ db'.made[v] \in 0..5 /\ db'.made[v] <= Scripts[v]
        BY <1>4, <3>1, <3>2
      <3>4. TableOK(db') /\ MigrateOK(db', s) /\ RollbackOK(db', s)
        <4>1. TableOK(db')
          BY <3>1, <3>2, <3>3, Script DEF TableOK
        <4>2. RollbackOK(db', s)
          <5>1. s.pc = "running" => db'.made[v] <= Scripts[v] - s.statement + 1
            BY <1>4, <2>2, <3>3
          <5>2. s.pc = "recording" => db'.made[v] = 0
            BY <1>4, <2>2, <3>3
          <5>. QED BY <1>4, <2>2, <2>5, <3>1, <3>2, <5>1, <5>2 DEF RollbackOK
        <4>. QED BY <2>2, <2>5, <4>1, <4>2 DEF MigrateOK
      <3>5. RecordedIsWhole(db', s, torn)
        <4>1. \A w \in db.recorded \ {v} : db'.made[w] = db.made[w]
          BY <1>4, <3>1, <3>2, Script
        <4>2. WorksOn(s, "rollback", v) /\ (s.pc = "running" => s.statement > 1)
          BY <1>4, <2>2, <2>5 DEF WorksOn
        <4>3. \A w \in db.recorded \ {v} : NoRollbackTorn(torn) => db.made[w] = Scripts[w]
          BY <1>3 DEF SchemaOK, RecordedIsWhole, WorksOn
        <4>. QED BY <3>1, <4>1, <4>2, <4>3 DEF RecordedIsWhole
      <3>6. NothingElse(db', s, torn)
        BY <1>3, <1>4, <2>2, <2>5, <3>1, <3>2 DEF SchemaOK, NothingElse, WorksOn
      <3>7. NoFailure(db', s, torn)
        BY <2>2, <2>5 DEF NoFailure
      <3>. QED BY <1>2, <1>3, <2>1, <2>2, <2>3, <3>1, <3>4, <3>5, <3>6, <3>7, HolderActs DEF SchemaOK
    <2>. QED BY <1>3, <2>4, <2>5
  <1>. QED BY <1>5, <1>6

LEMMA RecordKeeps ==
  ASSUME MigrationsInv, NEW c \in Callers, Record(c)
  PROVE  MigrationsInv'
  <1>. DEFINE v == call[c].version
              s == Onward(call[c])
  <1>1. call[c].pc = "recording" /\ Holding(call[c])
    BY DEF Record, Holding
  <1>2. /\ UNCHANGED <<namedLock, torn, cuts>> /\ db' = Executed(call[c])
        /\ call' = [call EXCEPT ![c] = s]
    BY DEF Record, Goes
  <1>3. /\ SchemaOK(db, call[c], torn) /\ call[c] \in CallerState /\ db \in Database
        /\ call[c].op \in {"migrate", "rollback"} /\ namedLock = c
    BY <1>1, TheHolder
  <1>4. v \in Versions /\ db.recorded \subseteq Versions /\ db.made \in [Versions -> 0..5]
        /\ call[c].found \subseteq Versions
    BY <1>1, <1>3, Script DEF SchemaOK, MigrateOK, RollbackOK, CallerState, Database
  <1>5. /\ db'.made = db.made /\ db'.table = db.table /\ db' \in Database
        /\ db'.recorded = IF call[c].op = "migrate" THEN db.recorded \cup {v}
                                                    ELSE db.recorded \ {v}
    <2>1. db' = [db EXCEPT !.recorded = IF call[c].op = "migrate" THEN db.recorded \cup {v}
                                                                ELSE db.recorded \ {v}]
      BY <1>1, <1>2 DEF Executed
    <2>. QED BY <1>3, <1>4, <2>1 DEF Database
  <1>6. CASE call[c].op = "migrate"
    <2>1. /\ s \in CallerState /\ s.op = "migrate"
          /\ \/ v = 5 /\ s.pc = "releasing" /\ s.result = "ok"
             \/ v < 5 /\ s.pc = "checking" /\ s.version = v + 1
      BY <1>3, <1>4, <1>6, MigrateOnward
    <2>. HIDE DEF s
    <2>2. Holding(s) /\ Entered(s)
      BY <2>1 DEF Holding, Entered
    <2>3. /\ db.table /\ 1..(v - 1) \subseteq db.recorded /\ v \notin db.recorded
          /\ db.made[v] = Scripts[v]
      BY <1>1, <1>3, <1>6 DEF SchemaOK, MigrateOK
    <2>4. MigrateOK(db', s)
      <3>1. 1..v \subseteq db'.recorded /\ db'.recorded \subseteq Versions
        BY <1>4, <1>5, <1>6, <2>3, Script
      <3>. QED BY <1>4, <1>5, <2>1, <2>3, <3>1, Script DEF MigrateOK
    <2>5. TableOK(db') /\ RollbackOK(db', s)
      BY <1>3, <1>5, <2>1, <2>3 DEF SchemaOK, TableOK, RollbackOK
    <2>6. RecordedIsWhole(db', s, torn) /\ NothingElse(db', s, torn) /\ NoFailure(db', s, torn)
      BY <1>3, <1>5, <1>6, <2>1, <2>3
      DEF SchemaOK, RecordedIsWhole, NothingElse, NoFailure, WorksOn
    <2>. QED BY <1>2, <1>3, <1>5, <2>1, <2>2, <2>4, <2>5, <2>6, HolderActs DEF SchemaOK
  <1>7. CASE call[c].op = "rollback"
    <2>1. /\ s \in CallerState /\ s.op = "rollback"
          /\ \/ {w \in call[c].found : w < v} = {} /\ s.pc = "dropping"
             \/ /\ s.pc = "running" /\ s.statement = 1 /\ s.found = call[c].found
                /\ s.version \in {w \in call[c].found : w < v}
                /\ \A w \in call[c].found : w < v => w <= s.version
      BY <1>3, <1>7, RollbackOnward
    <2>. HIDE DEF s
    <2>2. Holding(s) /\ Entered(s)
      BY <2>1 DEF Holding, Entered
    <2>3. /\ v \in db.recorded /\ db.recorded = {w \in call[c].found : w <= v}
          /\ db.made[v] = 0
          /\ \A w \in Versions : db.made[w] <= Scripts[w]
          /\ db.recorded # {} => db.table
      BY <1>1, <1>3, <1>7 DEF SchemaOK, RollbackOK, TableOK
    <2>4. db'.recorded = {w \in call[c].found : w < v}
      BY <1>4, <1>5, <1>7, <2>3, Script
    <2>5. RollbackOK(db', s)
      <3>1. CASE s.pc = "dropping"
        BY <2>1, <2>4, <3>1 DEF RollbackOK
      <3>2. CASE s.pc = "running"
        <4>1. /\ s.version \in db'.recorded /\ s.version \in Versions /\ s.version < v
              /\ db'.recorded = {w \in s.found : w <= s.version}
          BY <1>4, <2>1, <2>4, <3>2, Script
        <4>2. /\ db'.made[s.version] <= Scripts[s.version] /\ db'.made[s.version] \in Nat
              /\ Scripts[s.version] \in 1..5
          BY <1>4, <1>5, <2>3, <4>1, Script
        <4>. QED BY <2>1, <3>2, <4>1, <4>2 DEF RollbackOK
      <3>. QED BY <2>1, <3>1, <3>2
    <2>6. TableOK(db') /\ MigrateOK(db', s)
      BY <1>5, <1>7, <2>1, <2>3 DEF TableOK, MigrateOK
    <2>7. RecordedIsWhole(db', s, torn) /\ NothingElse(db', s, torn) /\ NoFailure(db', s, torn)
      BY <1>3, <1>5, <1>7, <2>1, <2>3
      DEF SchemaOK, RecordedIsWhole, NothingElse, NoFailure, WorksOn
    <2>. QED BY <1>2, <1>3, <1>5, <2>1, <2>2, <2>5, <2>6, <2>7, HolderActs DEF SchemaOK
  <1>. QED BY <1>3, <1>6, <1>7

LEMMA DropTableKeeps ==
  ASSUME MigrationsInv, NEW c \in Callers, DropTable(c)
  PROVE  MigrationsInv'
  <1>. DEFINE s == Ending(call[c], "ok")
  <1>1. call[c].pc = "dropping" /\ Holding(call[c])
    BY DEF DropTable, Holding
  <1>2. /\ UNCHANGED <<namedLock, torn, cuts>>
        /\ call' = [call EXCEPT ![c] = s]
        /\ db' = [db EXCEPT !.table = FALSE, !.recorded = {}]
    BY <1>1 DEF DropTable, Goes, Executed
  <1>3. call[c].op = "rollback" /\ db.recorded = {}
    BY <1>1, TheHolder DEF SchemaOK, MigrateOK, RollbackOK
  <1>4. /\ s \in CallerState /\ s.op = "rollback" /\ s.pc = "releasing" /\ s.result = "ok"
    BY <1>1, <1>3, TheHolder DEF CallerState, Ending
  <1>. HIDE DEF s
  <1>5. Holding(s) /\ Entered(s)
    BY <1>4 DEF Holding, Entered
  <1>6. db' \in Database /\ db'.made = db.made /\ db'.recorded = {} /\ ~db'.table
    BY <1>1, <1>2, TheHolder DEF Database
  <1>7. SchemaOK(db', s, torn)
    BY <1>1, <1>3, <1>4, <1>6, TheHolder DEF SchemaOK, TableOK, MigrateOK, RollbackOK,
       RecordedIsWhole, NothingElse, NoFailure, WorksOn
  <1>. QED BY <1>1, <1>2, <1>4, <1>5, <1>6, <1>7, HolderActs, TheHolder

LEMMA CallKeeps ==
  ASSUME MigrationsInv, NEW c \in Callers, Call(c) \/ LockTimesOut(c)
  PROVE  MigrationsInv'
  <1>1. /\ call[c].pc \in {"idle", "locking"} /\ call[c] \in CallerState
        /\ Entered(call[c]) /\ namedLock # c /\ cuts \in 0..MaxCuts
        /\ UNCHANGED <<db, namedLock, torn, cuts>>
    BY DEF Call, LockTimesOut, MigrationsInv, MigrationsTypeOK, Holding
  <1>2. CASE Call(c)
    <2>1. PICK op \in {"migrate", "rollback"} :
            call' = [call EXCEPT ![c] = [Idle EXCEPT !.op = op, !.pc = "locking"]]
      BY <1>2 DEF Call, Goes
    <2>. DEFINE s == [Idle EXCEPT !.op = op, !.pc = "locking"]
    <2>2. /\ s \in CallerState /\ s.op = op /\ s.pc = "locking" /\ s.version = 1
      BY IdleState DEF CallerState
    <2>. HIDE DEF s
    <2>3. ~Holding(s) /\ Entered(s)
      BY <2>2 DEF Holding, Entered
    <2>. QED BY <1>1, <2>1, <2>2, <2>3, Bystander DEF s
  <1>3. CASE LockTimesOut(c)
    <2>. DEFINE s == Ending(call[c], "unavailable")
    <2>1. call' = [call EXCEPT ![c] = s]
      BY <1>3 DEF LockTimesOut, Goes
    <2>2. /\ s \in CallerState /\ s.op = call[c].op /\ s.pc = "releasing"
          /\ s.result = "unavailable"
      BY <1>1 DEF CallerState, Ending
    <2>. HIDE DEF s
    <2>3. ~Holding(s) /\ Entered(s)
      BY <1>1, <1>3, <2>2 DEF Holding, Entered, LockTimesOut
    <2>. QED BY <1>1, <2>1, <2>2, <2>3, Bystander
  <1>. QED BY <1>2, <1>3

LEMMA ReleaseKeeps ==
  ASSUME MigrationsInv, NEW c \in Callers, Release(c)
  PROVE  MigrationsInv'
  <1>1. /\ call[c].pc = "releasing" /\ namedLock' = Freed(c)
        /\ call' = [call EXCEPT ![c] = Idle] /\ UNCHANGED <<db, torn, cuts>>
    BY DEF Release, Goes
  <1>2. CASE Holding(call[c])
    <2>1. namedLock' = NoCaller
      BY <1>1, <1>2, TheHolder DEF Freed
    <2>2. SchemaOK(db, Idle, torn)
      BY <1>1, <1>2, TheHolder, IdleState DEF SchemaOK, MigrateOK, RollbackOK,
         RecordedIsWhole, NothingElse, NoFailure, WorksOn
    <2>. QED BY <1>1, <1>2, <2>1, <2>2, TheHolder, HolderLeaves
  <1>3. CASE ~Holding(call[c])
    <2>1. namedLock # c /\ cuts \in 0..MaxCuts
      BY <1>3 DEF MigrationsInv, MigrationsTypeOK
    <2>. QED BY <1>1, <2>1, IdleState, Bystander DEF Freed
  <1>. QED BY <1>2, <1>3

\* A query of the caller that is in the middle of a version, executed or not,
\* is about this version, and about what a rollback takes away with it.
LEMMA WorkEffect ==
  ASSUME MigrationsInv, NEW c \in Callers, call[c].pc \in {"running", "recording"},
         NEW d, d \in {db, Executed(call[c])}
  PROVE  /\ d \in Database /\ TableOK(d) /\ call[c].version \in Versions
         /\ \A w \in Versions \ {call[c].version} :
              /\ w \in d.recorded <=> w \in db.recorded
              /\ \/ d.made[w] = db.made[w]
                 \/ /\ call[c].op = "rollback"
                    /\ d.made[w] = 0 /\ w > call[c].version
         /\ call[c].op = "migrate" /\ call[c].version \in d.recorded
              => d.made[call[c].version] = Scripts[call[c].version]
  <1>. DEFINE v == call[c].version
              k == call[c].statement
  <1>1. Holding(call[c])
    BY DEF Holding
  <1>2. /\ SchemaOK(db, call[c], torn) /\ call[c] \in CallerState /\ db \in Database
        /\ call[c].op \in {"migrate", "rollback"} /\ namedLock = c
    BY <1>1, TheHolder
  <1>3. /\ v \in Versions /\ db.recorded \subseteq Versions /\ db.made \in [Versions -> 0..5]
        /\ TableOK(db) /\ db.table /\ \A w \in Versions : Scripts[w] \in 1..5
    BY <1>2, Script DEF SchemaOK, TableOK, MigrateOK, RollbackOK, CallerState, Database
  <1>4. call[c].op = "migrate" => v \notin db.recorded
    BY <1>2 DEF SchemaOK, MigrateOK
  <1>5. CASE d = db
    BY <1>2, <1>3, <1>4, <1>5
  <1>6. CASE call[c].pc = "running" /\ ~StatementFails(call[c]) /\ d = Executed(call[c])
    <2>1. k \in 1..5 /\ k <= Scripts[v]
      BY <1>2, <1>6 DEF SchemaOK, MigrateOK, RollbackOK, CallerState
    <2>2. CASE call[c].op = "migrate"
      <3>1. d = Up(v, k)
        BY <1>6, <2>2 DEF Executed
      <3>2. /\ d \in Database /\ d.recorded = db.recorded /\ d.table = db.table
            /\ d.made[v] = IF db.made[v] > k THEN db.made[v] ELSE k
            /\ \A w \in Versions \ {v} : d.made[w] = db.made[w]
        <4>1. v \in Versions /\ k \in 1..5 /\ db \in Database
          BY <1>2, <1>3, <2>1
        <4>. HIDE DEF v, k
        <4>. QED BY <4>1, <3>1, UpEffect
      <3>3. d.made[v] <= Scripts[v]
        BY <1>3, <2>1, <3>2 DEF TableOK
      <3>. QED BY <1>2, <1>3, <1>4, <2>2, <3>2, <3>3 DEF TableOK
    <2>3. CASE call[c].op = "rollback"
      <3>1. d = Down(v, k)
        BY <1>6, <2>3 DEF Executed
      <3>2. /\ d \in Database /\ d.recorded = db.recorded /\ d.table = db.table
            /\ d.made[v] = IF db.made[v] > Scripts[v] - k THEN Scripts[v] - k ELSE db.made[v]
            /\ \A w \in Versions \ {v} : d.made[w] = db.made[w] \/ (d.made[w] = 0 /\ w > v)
        <4>1. v \in Versions /\ k \in 1..5 /\ db \in Database /\ k <= Scripts[v]
          BY <1>2, <1>3, <2>1
        <4>. HIDE DEF v, k
        <4>. QED BY <4>1, <3>1, DownEffect
      <3>3. d.made[v] <= Scripts[v]
        BY <1>3, <2>1, <3>2 DEF TableOK
      <3>4. TableOK(d)
        BY <1>3, <3>2, <3>3 DEF TableOK
      <3>. QED BY <1>2, <1>3, <2>3, <3>2, <3>4
    <2>. QED BY <1>2, <2>2, <2>3
  <1>7. CASE call[c].pc = "recording" /\ d = Executed(call[c])
    <2>1. d = [db EXCEPT !.recorded = IF call[c].op = "migrate" THEN db.recorded \cup {v}
                                                              ELSE db.recorded \ {v}]
      BY <1>7 DEF Executed
    <2>2. /\ d \in Database /\ d.made = db.made /\ d.table = db.table
          /\ d.recorded = IF call[c].op = "migrate" THEN db.recorded \cup {v}
                                                    ELSE db.recorded \ {v}
      BY <1>2, <1>3, <2>1 DEF Database
    <2>3. call[c].op = "migrate" => db.made[v] = Scripts[v]
      BY <1>2, <1>7 DEF SchemaOK, MigrateOK
    <2>. QED BY <1>3, <1>2, <2>2, <2>3 DEF TableOK
  <1>8. CASE call[c].pc = "running" /\ StatementFails(call[c]) /\ d = Executed(call[c])
    <2>1. d = db
      BY <1>8 DEF Executed
    <2>. QED BY <1>5, <2>1
  <1>. QED BY <1>5, <1>6, <1>7, <1>8

LEMMA CutKeeps ==
  ASSUME MigrationsInv, NEW c \in Callers, Cut(c)
  PROVE  MigrationsInv'
  <1>. DEFINE v == call[c].version
  <1>1. /\ cuts' \in 0..MaxCuts /\ db' \in {db, Executed(call[c])}
        /\ namedLock' = Freed(c) /\ call' = [call EXCEPT ![c] = Idle]
    BY MigrationsAssumption DEF Cut, Goes, MigrationsInv, MigrationsTypeOK
  <1>2. /\ call[c].pc \in {"running", "recording"} /\ ~Whole(v)
             => torn' = torn \cup {[op |-> call[c].op, version |-> v]}
        /\ ~(call[c].pc \in {"running", "recording"} /\ ~Whole(v)) => torn' = torn
    BY DEF Cut
  <1>3. CASE ~Holding(call[c])
    <2>1. namedLock # c
      BY <1>3 DEF MigrationsInv
    <2>2. call[c].pc \in {"idle", "locking", "releasing"}
      BY <1>3 DEF Holding
    <2>3. db' = db /\ torn' = torn
      BY <1>1, <1>2, <2>2 DEF Executed
    <2>. QED BY <1>1, <2>1, <2>3, IdleState, Bystander DEF Freed
  <1>4. CASE Holding(call[c]) /\ call[c].pc \notin {"running", "recording"}
    <2>1. /\ namedLock' = NoCaller /\ torn' = torn /\ namedLock = c
          /\ SchemaOK(db, call[c], torn) /\ db \in Database
          /\ call[c].op \in {"migrate", "rollback"}
          /\ torn \subseteq [op : {"migrate", "rollback"}, version : Versions]
      BY <1>1, <1>2, <1>4, TheHolder DEF Freed
    <2>2. /\ db' \in Database /\ db'.made = db.made /\ db'.recorded = db.recorded
          /\ TableOK(db')
      <3>1. CASE db' = db
        BY <2>1, <3>1 DEF SchemaOK
      <3>2. CASE call[c].pc = "creating" /\ db' = [db EXCEPT !.table = TRUE]
        BY <2>1, <3>2 DEF Database, SchemaOK, TableOK
      <3>3. CASE call[c].pc = "dropping" /\ db' = [db EXCEPT !.table = FALSE, !.recorded = {}]
        <4>1. db.recorded = {}
          BY <2>1, <3>3 DEF SchemaOK, MigrateOK, RollbackOK
        <4>. QED BY <2>1, <3>3, <4>1 DEF Database, SchemaOK, TableOK
      <3>. QED BY <1>1, <1>4, <3>1, <3>2, <3>3 DEF Executed
    <2>3. SchemaOK(db', Idle, torn')
      BY <1>4, <2>1, <2>2, IdleState DEF SchemaOK, MigrateOK, RollbackOK,
         RecordedIsWhole, NothingElse, NoFailure, WorksOn
    <2>. QED BY <1>1, <2>1, <2>2, <2>3, HolderLeaves
  <1>5. CASE call[c].pc \in {"running", "recording"}
    <2>1. Holding(call[c])
      BY <1>5 DEF Holding
    <2>2. /\ namedLock' = NoCaller /\ namedLock = c
          /\ SchemaOK(db, call[c], torn) /\ db \in Database
          /\ call[c].op \in {"migrate", "rollback"}
          /\ torn \subseteq [op : {"migrate", "rollback"}, version : Versions]
      BY <1>1, <2>1, TheHolder DEF Freed
    <2>3. /\ db' \in Database /\ TableOK(db') /\ v \in Versions
          /\ \A w \in Versions \ {v} :
               /\ w \in db'.recorded <=> w \in db.recorded
               /\ \/ db'.made[w] = db.made[w]
                  \/ call[c].op = "rollback" /\ db'.made[w] = 0 /\ w > v
          /\ call[c].op = "migrate" /\ v \in db'.recorded => db'.made[v] = Scripts[v]
      BY <1>1, <1>5, WorkEffect
    <2>4. /\ torn \subseteq torn'
          /\ torn' \subseteq [op : {"migrate", "rollback"}, version : Versions]
          /\ ~Whole(v) => [op |-> call[c].op, version |-> v] \in torn'
      BY <1>2, <1>5, <2>2, <2>3
    <2>5. /\ NoRollbackTorn(torn') => NoRollbackTorn(torn)
          /\ FirstOnly(torn') => FirstOnly(torn)
          /\ torn' = {} => torn = {}
      BY <2>4 DEF NoRollbackTorn, FirstOnly
    <2>6. RecordedIsWhole(db', Idle, torn')
      <3>. SUFFICES ASSUME NoRollbackTorn(torn'), NEW w \in db'.recorded
                    PROVE  db'.made[w] = Scripts[w]
        BY DEF RecordedIsWhole
      <3>1. w \in Versions
        BY <2>3 DEF Database
      <3>2. CASE w = v
        <4>1. CASE call[c].op = "migrate"
          BY <2>3, <3>2, <4>1
        <4>2. CASE call[c].op = "rollback"
          <5>1. Whole(v)
            BY <2>4, <4>2 DEF NoRollbackTorn
          <5>. QED BY <3>2, <5>1 DEF Whole
        <4>. QED BY <2>2, <4>1, <4>2
      <3>3. CASE w # v
        <4>1. w \in db.recorded /\ db.made[w] = Scripts[w]
          BY <2>2, <2>3, <2>5, <3>1, <3>3 DEF SchemaOK, RecordedIsWhole, WorksOn
        <4>2. call[c].op = "rollback" => ~(w > v)
          BY <1>5, <2>2, <2>3, <3>1, <4>1, Script DEF SchemaOK, RollbackOK
        <4>. QED BY <2>3, <3>1, <3>3, <4>1, <4>2
      <3>. QED BY <3>2, <3>3
    <2>7. NothingElse(db', Idle, torn')
      <3>. SUFFICES ASSUME FirstOnly(torn'), NEW w \in Versions \ db'.recorded,
                           w # 1 \/ torn' = {}
                    PROVE  db'.made[w] = 0
        BY DEF NothingElse
      <3>1. CASE w = v
        <4>1. Whole(v)
          BY <2>4, <3>1 DEF FirstOnly
        <4>. QED BY <3>1, <4>1 DEF Whole
      <3>2. CASE w # v
        <4>1. db.made[w] = 0
          BY <2>2, <2>3, <2>5, <3>2 DEF SchemaOK, NothingElse, WorksOn
        <4>. QED BY <2>3, <3>2, <4>1
      <3>. QED BY <3>1, <3>2
    <2>8. SchemaOK(db', Idle, torn')
      BY <2>3, <2>6, <2>7, IdleState DEF SchemaOK, MigrateOK, RollbackOK, NoFailure
    <2>. QED BY <1>1, <2>2, <2>3, <2>4, <2>8, HolderLeaves
  <1>. QED BY <1>3, <1>4, <1>5

\* The invariant holds for any number of callers and of lost connections.
THEOREM MigrationsInvariance == MigrationsSpec => []MigrationsInv
  <1>1. MigrationsInit => MigrationsInv
    <2>. SUFFICES ASSUME MigrationsInit
                  PROVE  MigrationsInv
      OBVIOUS
    <2>1. /\ db \in Database /\ db.recorded = {} /\ ~db.table
          /\ \A v \in Versions : db.made[v] = 0
      BY DEF MigrationsInit, Database
    <2>2. /\ namedLock = NoCaller /\ torn = {} /\ cuts = 0
          /\ call \in [Callers -> CallerState] /\ \A c \in Callers : call[c] = Idle
      BY IdleState DEF MigrationsInit
    <2>3. MigrationsTypeOK
      BY <2>1, <2>2, MigrationsAssumption DEF MigrationsTypeOK
    <2>4. Holder = Idle
      BY <2>2 DEF Holder
    <2>5. SchemaOK(db, Idle, torn)
      BY <2>1, IdleState, Script DEF SchemaOK, TableOK, MigrateOK, RollbackOK,
         RecordedIsWhole, NothingElse, NoFailure
    <2>. QED BY <2>2, <2>3, <2>4, <2>5, IdleState, MigrationsAssumption DEF MigrationsInv
  <1>2. MigrationsInv /\ [MigrationsNext]_migrationVars => MigrationsInv'
    <2>1. ASSUME MigrationsInv, MigrationsNext
          PROVE  MigrationsInv'
      BY <2>1, CallKeeps, GetLockKeeps, CreateTableKeeps, CheckKeeps, InspectKeeps,
         RunKeeps, RecordKeeps, DropTableKeeps, ReleaseKeeps, CutKeeps DEF MigrationsNext
    <2>2. ASSUME MigrationsInv, UNCHANGED migrationVars
          PROVE  MigrationsInv'
      BY <2>2 DEF migrationVars, MigrationsInv, MigrationsTypeOK, Holder
    <2>. QED BY <2>1, <2>2
  <1>. QED BY <1>1, <1>2, PTL DEF MigrationsSpec

\* The schema, the callers and the recorded versions have their types.
THEOREM MigrationsTypeCorrect == MigrationsSpec => []MigrationsTypeOK
  <1>1. MigrationsInv => MigrationsTypeOK
    BY DEF MigrationsInv
  <1>. QED BY <1>1, MigrationsInvariance, PTL

\* Callers do not disturb one another, however many there are and whenever
\* they are cut off: only a torn version makes a later call fail, or leaves
\* something else than it promises.
THEOREM CallsSucceed == MigrationsSpec => []CallsSucceedUnlessTorn
  <1>1. MigrationsInv => CallsSucceedUnlessTorn
    <2>. SUFFICES ASSUME MigrationsInv, NEW c \in Callers, call[c].pc = "releasing"
                  PROVE  /\ call[c].result = "statement" =>
                              torn \ {[op |-> "migrate", version |-> 1]} # {}
                         /\ call[c].result = "ok" /\ call[c].op = "migrate" =>
                              Complete \/ \E t \in torn : t.op = "rollback"
                         /\ call[c].result = "ok" /\ call[c].op = "rollback" =>
                              Removed \/ torn # {}
      BY DEF CallsSucceedUnlessTorn
    <2>1. CASE call[c].result = "statement"
      <3>1. SchemaOK(db, call[c], torn)
        BY <2>1, TheHolder DEF Holding
      <3>. QED BY <2>1, <3>1 DEF SchemaOK, NoFailure, FirstOnly
    <2>2. CASE call[c].result = "ok"
      <3>1. SchemaOK(db, call[c], torn)
        BY <2>2, TheHolder DEF Holding
      <3>2. call[c].op = "migrate" => Complete \/ \E t \in torn : t.op = "rollback"
        BY <2>2, <3>1
        DEF SchemaOK, MigrateOK, RecordedIsWhole, NoRollbackTorn, WorksOn, Complete
      <3>3. call[c].op = "rollback" => Removed \/ torn # {}
        BY <2>2, <3>1 DEF SchemaOK, RollbackOK, NothingElse, FirstOnly, WorksOn, Removed
      <3>. QED BY <2>2, <3>2, <3>3
    <2>. QED BY <2>1, <2>2
  <1>. QED BY <1>1, MigrationsInvariance, PTL
=============================================================================
