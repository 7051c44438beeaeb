---------------------------- MODULE OutboxProofs ----------------------------
(***************************************************************************)
(* What holds of the outbox for any number of runs, changes, attempts,     *)
(* failures and crashes, and for every lease longer than the wait for the  *)
(* claim lock and the send together; and what holds of the port that       *)
(* sends, for any times, number of attempts and messages.                  *)
(***************************************************************************)
EXTENDS Outbox, DiscordPort, TLAPS

----------------------------------------------------------------------------
(* The inductive invariant                                                 *)

Stored(m) == outbox[m].status # "none"

\* The queue holds the last changes, and times grow along it.
QueueOK(r) ==
  /\ revision[r] <= changes
  /\ Len(queue[r]) <= revision[r]
  /\ \A i \in 1..Len(queue[r]) :
       /\ queue[r][i].revision = revision[r] - Len(queue[r]) + i
       /\ queue[r][i].announced = Kind[queue[r][i].revision].announced
       /\ queue[r][i].working = Kind[queue[r][i].revision].working
       /\ queue[r][i].stamp <= stamp
  /\ \A i, j \in 1..Len(queue[r]) : i < j => queue[r][i].stamp <= queue[r][j].stamp

\* What is stored comes before what is queued; the first event of the queue
\* may be stored already, if the answer was lost.
HistoryOK(r) ==
  \A e \in history[r] :
    /\ e.revision <= revision[r] - Len(queue[r]) + 1
    /\ e.revision <= revision[r]
    /\ e.announced = Kind[e.revision].announced
    /\ e.working = Kind[e.revision].working

StampsOK(r) ==
  /\ \A v \in 1..MaxRevision : Stored(<<r, v>>) => outbox[<<r, v>>].stamp <= stamp
  /\ \A u, v \in 1..MaxRevision :
       u < v /\ Stored(<<r, u>>) /\ Stored(<<r, v>>)
         => outbox[<<r, u>>].stamp <= outbox[<<r, v>>].stamp
  /\ \A u \in 1..MaxRevision : \A i \in 1..Len(queue[r]) :
       Stored(<<r, u>>) => outbox[<<r, u>>].stamp <= queue[r][i].stamp

RowsOK == \A m \in Messages : outbox[m].status = "delivering" => outbox[m].attempts > 0

\* Who sends owns the row, and its lease will not run out before the send ends.
WorkerOK(r) ==
  /\ life[r] = "gone" => worker[r] = "ended"
  /\ worker[r] \in {"sending", "marking", "failing"} => claimed[r] # Nothing
  /\ worker[r] = "claiming" => age[r] <= LockWait
  /\ worker[r] = "sending" =>
       /\ outbox[claimed[r][1]].status = "delivering"
       /\ outbox[claimed[r][1]].owner = r
       /\ outbox[claimed[r][1]].due >= Lease - LockWait - age[r]
       /\ age[r] <= SendTime

StoreInv ==
  /\ TypeOK
  /\ StoredTogether
  /\ \A r \in Runs : QueueOK(r) /\ HistoryOK(r) /\ StampsOK(r)

DeliveryInv ==
  /\ RowsOK
  /\ \A r \in Runs : WorkerOK(r)
  /\ SentInOrder

Inv == StoreInv /\ DeliveryInv

----------------------------------------------------------------------------
(* What the two halves of the program do to the rows                       *)

\* Delivery, and time, neither add nor remove a row nor change its time.
RowsKept ==
  \A m \in Messages :
    /\ outbox'[m].status = "none" <=> outbox[m].status = "none"
    /\ outbox'[m].stamp = outbox[m].stamp

\* Persistence only adds rows, for the changes it comes to.
RowsAdded ==
  \A m \in Messages :
    \/ outbox'[m] = outbox[m]
    \/ /\ outbox[m].status = "none"
       /\ outbox'[m].status = "pending" /\ outbox'[m].attempts = 0
       /\ Len(queue[m[1]]) > 0 /\ queue[m[1]][1].revision = m[2]

Delivery == Tick \/ \E r \in Runs : Dispatcher(r)

LEMMA InitInv == Init => Inv
  <1>. SUFFICES ASSUME Init PROVE Inv
    OBVIOUS
  <1>. USE PersistenceAssumption, OutboxAssumption DEF Init, PersistenceInit
  <1>1. TypeOK
    BY DEF TypeOK, Row, NoMessage, NoRow, Nobody, Nothing
  <1>2. StoredTogether
    BY DEF StoredTogether, Latest, NoRow, NoMessage, Messages
  <1>3. ASSUME NEW r \in Runs PROVE QueueOK(r) /\ HistoryOK(r) /\ StampsOK(r)
    BY DEF QueueOK, HistoryOK, StampsOK, Stored, NoMessage, Messages
  <1>4. DeliveryInv
    BY DEF DeliveryInv, RowsOK, WorkerOK, SentInOrder, NoMessage
  <1>. QED BY <1>1, <1>2, <1>3, <1>4 DEF Inv, StoreInv

----------------------------------------------------------------------------
(* The delivery                                                            *)

SettledKept == \A m \in Messages : Settled(m) => outbox'[m] = outbox[m]

Sound == TypeOK' /\ RowsKept /\ SettledKept /\ RowsOK' /\ \A q \in Runs : WorkerOK(q)'

LEMMA MessageFacts ==
  ASSUME TypeOK, NEW m \in Messages
  PROVE  /\ outbox[m] \in Row /\ outbox[m].due \in Int /\ outbox[m].attempts \in Nat
         /\ outbox[m].stamp \in Nat
         /\ m = <<m[1], m[2]>> /\ m[1] \in Runs /\ m[2] \in 1..MaxRevision
  <1>1. outbox[m] \in Row
    BY DEF TypeOK
  <1>2. /\ outbox[m].due \in Int /\ outbox[m].attempts \in Nat
        /\ outbox[m].stamp \in Nat
    BY <1>1, PersistenceAssumption, OutboxAssumption DEF Row
  <1>3. m = <<m[1], m[2]>> /\ m[1] \in Runs /\ m[2] \in 1..MaxRevision
    BY DEF Messages
  <1> QED
    BY <1>1, <1>2, <1>3

LEMMA ClaimedFacts ==
  ASSUME TypeOK, NEW r \in Runs, claimed[r] # Nothing
  PROVE  /\ claimed[r][1] \in Messages /\ claimed[r][2] \in 1..MaxAttempts
         /\ claimed[r] = <<claimed[r][1], claimed[r][2]>>
  BY DEF TypeOK, Nothing

\* A row that a worker is sending cannot be claimed by another one.
LEMMA LeasedIsTaken ==
  ASSUME Inv, NEW r \in Runs, NEW q \in Runs,
         worker[r] = "claiming", worker[q] = "sending"
  PROVE  ~Available(claimed[q][1], age[r])
  <1>1. claimed[q][1] \in Messages
    BY ClaimedFacts DEF Inv, StoreInv, DeliveryInv, WorkerOK
  <1>2. outbox[claimed[q][1]].due \in Int /\ outbox[claimed[q][1]].attempts \in Nat
    BY <1>1, MessageFacts DEF Inv, StoreInv
  <1>3. outbox[claimed[q][1]].attempts > 0
    BY <1>1 DEF Inv, DeliveryInv, WorkerOK, RowsOK
  <1>4. outbox[claimed[q][1]].due >= Lease - LockWait - age[q] /\ age[q] <= SendTime
    BY DEF Inv, DeliveryInv, WorkerOK
  <1>5. age[r] \in Nat /\ age[q] \in Nat
    BY DEF Inv, StoreInv, TypeOK
  <1>. QED
    BY <1>2, <1>3, <1>4, <1>5, LeaseAssumption, OutboxAssumption DEF Available

LEMMA AskSound == ASSUME Inv, NEW r \in Runs, Ask(r) PROVE Sound
  <1>. USE DEF Ask, Goes, persistenceVars, tables, subscriberVars
  <1>1. TypeOK'
    BY DEF Inv, StoreInv, TypeOK
  <1>2. RowsKept /\ SettledKept /\ RowsOK'
    BY DEF Inv, DeliveryInv, RowsOK, RowsKept, SettledKept
  <1>3. ASSUME NEW q \in Runs PROVE WorkerOK(q)'
    BY OutboxAssumption DEF Inv, StoreInv, TypeOK, DeliveryInv, WorkerOK
  <1>. QED BY <1>1, <1>2, <1>3 DEF Sound

\* A worker that stops sending, or was not, disturbs nobody.
LEMMA WorkersKept ==
  ASSUME Inv, NEW r \in Runs, Running(r), UNCHANGED life,
         NEW place \in {"polling", "marking", "failing"}, Goes(r, place),
         place # "polling" => claimed'[r] # Nothing,
         \A q \in Runs \ {r} : claimed'[q] = claimed[q] /\ age'[q] = age[q],
         \A q \in Runs \ {r} : worker[q] = "sending"
           => outbox'[claimed[q][1]] = outbox[claimed[q][1]]
  PROVE  \A q \in Runs : WorkerOK(q)'
  <1>. SUFFICES ASSUME NEW q \in Runs PROVE WorkerOK(q)'
    OBVIOUS
  <1>0. worker \in [Runs -> {"polling", "claiming", "sending", "marking", "failing", "ended"}]
    BY DEF Inv, StoreInv, TypeOK
  <1>1. CASE q = r
    BY <1>0, <1>1 DEF Running, Goes, WorkerOK
  <1>2. CASE q # r
    <2>1. worker'[q] = worker[q] /\ claimed'[q] = claimed[q] /\ age'[q] = age[q]
      BY <1>0, <1>2 DEF Goes
    <2>2. WorkerOK(q)
      BY DEF Inv, DeliveryInv
    <2>. QED BY <1>2, <2>1, <2>2 DEF WorkerOK
  <1>. QED BY <1>1, <1>2

\* The dispatcher writes to one row, and only if the row is open.
Written(m, row) == outbox' = [outbox EXCEPT ![m] = row]

LEMMA WriteSound ==
  ASSUME Inv, NEW m \in Messages, Open(m), NEW row \in Row, Written(m, row),
         row.status # "none", row.stamp = outbox[m].stamp,
         row.status = "delivering" => row.attempts > 0
  PROVE  /\ outbox' \in [Messages -> Row]
         /\ RowsKept /\ SettledKept /\ RowsOK'
  <1>1. outbox \in [Messages -> Row] /\ RowsOK
    BY DEF Inv, StoreInv, DeliveryInv, TypeOK
  <1>2. \A n \in Messages : outbox'[n] = IF n = m THEN row ELSE outbox[n]
    BY <1>1 DEF Written
  <1>3. outbox' \in [Messages -> Row]
    BY <1>1 DEF Written
  <1>4. RowsKept /\ SettledKept /\ RowsOK'
    BY <1>1, <1>2 DEF RowsKept, SettledKept, RowsOK, Open, Settled
  <1>. QED BY <1>3, <1>4

LEMMA SameSound ==
  ASSUME Inv, UNCHANGED outbox
  PROVE  outbox' \in [Messages -> Row] /\ RowsKept /\ SettledKept /\ RowsOK'
  BY DEF Inv, StoreInv, DeliveryInv, TypeOK, RowsKept, SettledKept, RowsOK

LEMMA SettlesSound ==
  ASSUME Inv, NEW m \in Messages, Open(m), NEW status \in {"delivered", "failed"},
         Settles(m, status)
  PROVE  /\ outbox' \in [Messages -> Row] /\ RowsKept /\ SettledKept /\ RowsOK'
         /\ \A n \in Messages \ {m} : outbox'[n] = outbox[n]
  <1>. DEFINE row == [outbox[m] EXCEPT !.status = status, !.due = 0, !.owner = Nobody]
  <1>1. outbox \in [Messages -> Row] /\ outbox[m] \in Row
    BY DEF Inv, StoreInv, TypeOK
  <1>2. row \in Row /\ row.status = status /\ row.stamp = outbox[m].stamp
    <2>1. 0 \in Int /\ Nobody \in Runs \union {Nobody}
      OBVIOUS
    <2>. QED BY <1>1, <2>1, Zenon DEF Row
  <1>3. outbox' = [outbox EXCEPT ![m] = row]
    BY <1>1 DEF Settles, Row
  <1>. HIDE DEF row
  <1>. QED BY <1>1, <1>2, <1>3, WriteSound DEF Written

LEMMA SendSound == ASSUME Inv, NEW r \in Runs, Send(r) PROVE Sound
  <1>. USE DEF Send, persistenceVars, tables, subscriberVars
  <1>1. TypeOK'
    BY DEF Goes, Inv, StoreInv, TypeOK
  <1>2. outbox' \in [Messages -> Row] /\ RowsKept /\ SettledKept /\ RowsOK'
    BY SameSound
  <1>3. claimed[r] # Nothing
    BY DEF Inv, DeliveryInv, WorkerOK
  <1>4. age \in [Runs -> Nat]
    BY DEF Inv, StoreInv, TypeOK
  <1>5. \E place \in {"marking", "failing"} : Goes(r, place)
    OBVIOUS
  <1>6. \A q \in Runs : WorkerOK(q)'
    BY <1>3, <1>4, <1>5, WorkersKept
  <1>. QED BY <1>1, <1>2, <1>6 DEF Sound

\* A row owned by r is not one that another worker is sending.
LEMMA OwnRow ==
  ASSUME Inv, NEW r \in Runs, NEW q \in Runs \ {r}, worker[q] = "sending",
         NEW m \in Messages, Owns(r, m)
  PROVE  claimed[q][1] # m /\ claimed[q][1] \in Messages
  <1>1. claimed[q][1] \in Messages
    BY ClaimedFacts DEF Inv, StoreInv, DeliveryInv, WorkerOK
  <1>. QED BY <1>1 DEF Owns, Inv, DeliveryInv, WorkerOK

\* After a step of r that leaves all rows but m alone.
LEMMA MarkSound ==
  ASSUME Inv, NEW r \in Runs, Running(r), OutboxOnly,
         NEW m \in Messages, NEW place \in {"polling", "failing"}, Goes(r, place),
         \/ place = "polling" /\ Idles(r)
         \/ UNCHANGED <<claimed, age>> /\ claimed[r] # Nothing,
         outbox' \in [Messages -> Row] /\ RowsKept /\ SettledKept /\ RowsOK',
         \A n \in Messages \ {m} : outbox'[n] = outbox[n],
         outbox' # outbox => \A q \in Runs \ {r} : worker[q] = "sending" => claimed[q][1] # m
  PROVE  Sound
  <1>. USE DEF OutboxOnly, subscriberVars
  <1>1. TypeOK'
    <2>1. TypeOK
      BY DEF Inv, StoreInv
    <2>2. worker' \in [Runs -> {"polling", "claiming", "sending", "marking", "failing", "ended"}]
      BY <2>1 DEF TypeOK, Goes
    <2>3. /\ claimed' \in [Runs -> {Nothing} \union (Messages \X (1..MaxAttempts))]
          /\ age' \in [Runs -> Nat]
      <3>1. CASE Idles(r)
        BY <2>1, <3>1 DEF TypeOK, Idles
      <3>2. CASE UNCHANGED <<claimed, age>>
        BY <2>1, <3>2 DEF TypeOK
      <3>. QED BY <3>1, <3>2
    <2>. QED BY <2>1, <2>2, <2>3 DEF TypeOK
  <1>2. claimed \in [Runs -> {Nothing} \union (Messages \X (1..MaxAttempts))]
        /\ age \in [Runs -> Nat]
    BY DEF Inv, StoreInv, TypeOK
  <1>3. \A q \in Runs \ {r} : claimed'[q] = claimed[q] /\ age'[q] = age[q]
    BY <1>2 DEF Idles
  <1>4. ASSUME NEW q \in Runs \ {r}, worker[q] = "sending"
        PROVE  outbox'[claimed[q][1]] = outbox[claimed[q][1]]
    <2>1. claimed[q][1] \in Messages
      BY <1>4, ClaimedFacts DEF Inv, StoreInv, DeliveryInv, WorkerOK
    <2>. QED BY <1>4, <2>1
  <1>5. \A q \in Runs : WorkerOK(q)'
    BY <1>3, <1>4, WorkersKept
  <1>. QED BY <1>1, <1>5 DEF Sound

LEMMA MarkDeliveredSound == ASSUME Inv, NEW r \in Runs, MarkDelivered(r) PROVE Sound
  <1>. DEFINE m == claimed[r][1]
  <1>1. Running(r) /\ OutboxOnly /\ claimed[r] # Nothing /\ m \in Messages
    BY ClaimedFacts DEF MarkDelivered, Inv, StoreInv, DeliveryInv, WorkerOK
  <1>. HIDE DEF m
  <1>2. Idles(r) \/ (Goes(r, "failing") /\ UNCHANGED <<claimed, age>>)
    BY DEF MarkDelivered
  <1>3. UNCHANGED outbox \/ (Owns(r, m) /\ Settles(m, "delivered"))
    BY DEF MarkDelivered, m
  <1>4. CASE UNCHANGED outbox
    <2>1. outbox' \in [Messages -> Row] /\ RowsKept /\ SettledKept /\ RowsOK'
      BY <1>4, SameSound
    <2>. QED BY <1>1, <1>2, <1>4, <2>1, MarkSound DEF Idles
  <1>5. CASE Owns(r, m) /\ Settles(m, "delivered")
    <2>1. /\ outbox' \in [Messages -> Row] /\ RowsKept /\ SettledKept /\ RowsOK'
          /\ \A n \in Messages \ {m} : outbox'[n] = outbox[n]
      BY <1>1, <1>5, SettlesSound DEF Owns, Open
    <2>2. \A q \in Runs \ {r} : worker[q] = "sending" => claimed[q][1] # m
      BY <1>1, <1>5, OwnRow
    <2>. QED BY <1>1, <1>2, <2>1, <2>2, MarkSound DEF Idles
  <1>. QED BY <1>3, <1>4, <1>5

LEMMA DelayIsNat == \A n \in Nat : Delay(n) \in Int
  BY OutboxAssumption DEF Delay

LEMMA MarkFailedSound == ASSUME Inv, NEW r \in Runs, MarkFailed(r) PROVE Sound
  <1>. DEFINE m == claimed[r][1]
  <1>1. Running(r) /\ OutboxOnly /\ claimed[r] # Nothing /\ m \in Messages
        /\ claimed[r][2] \in Nat /\ Idles(r)
    BY OutboxAssumption, ClaimedFacts DEF MarkFailed, Inv, StoreInv, DeliveryInv, WorkerOK
  <1>. DEFINE row == [outbox[m] EXCEPT !.status = "pending",
                        !.due = Delay(claimed[r][2]), !.owner = Nobody]
  <1>2. UNCHANGED outbox \/ (Owns(r, m) /\ (Settles(m, "failed") \/ Written(m, row)))
    BY DEF MarkFailed, Postpones, Written
  <1>3. outbox[m] \in Row /\ outbox \in [Messages -> Row]
    BY <1>1 DEF Inv, StoreInv, TypeOK
  <1>4. row \in Row /\ row.status = "pending" /\ row.stamp = outbox[m].stamp
    <2>1. Delay(claimed[r][2]) \in Int /\ Nobody \in Runs \union {Nobody}
      BY <1>1, DelayIsNat
    <2>. QED BY <1>3, <2>1, Zenon DEF Row
  <1>. HIDE DEF m, row
  <1>5. CASE UNCHANGED outbox
    <2>1. outbox' \in [Messages -> Row] /\ RowsKept /\ SettledKept /\ RowsOK'
      BY <1>5, SameSound
    <2>. QED BY <1>1, <1>5, <2>1, MarkSound DEF Idles
  <1>6. CASE Owns(r, m) /\ (Settles(m, "failed") \/ Written(m, row))
    <2>1. Open(m)
      BY <1>6 DEF Owns, Open
    <2>2. /\ outbox' \in [Messages -> Row] /\ RowsKept /\ SettledKept /\ RowsOK'
          /\ \A n \in Messages \ {m} : outbox'[n] = outbox[n]
      <3>1. CASE Settles(m, "failed")
        BY <1>1, <2>1, <3>1, SettlesSound
      <3>2. CASE Written(m, row)
        BY <1>1, <1>3, <1>4, <2>1, <3>2, WriteSound DEF Written
      <3>. QED BY <1>6, <3>1, <3>2
    <2>3. \A q \in Runs \ {r} : worker[q] = "sending" => claimed[q][1] # m
      BY <1>1, <1>6, OwnRow
    <2>. QED BY <1>1, <2>2, <2>3, MarkSound DEF Idles
  <1>. QED BY <1>2, <1>5, <1>6

\* The claim takes a head that is free, fails one that is exhausted, or nothing.
LEMMA ClaimSound == ASSUME Inv, NEW r \in Runs, Claim(r) PROVE Sound
  <1>1. TypeOK /\ Running(r) /\ OutboxOnly /\ worker[r] = "claiming"
    BY DEF Claim, Inv, StoreInv
  <1>2. CASE UNCHANGED outbox /\ Idles(r)
    <2>1. outbox' \in [Messages -> Row] /\ RowsKept /\ SettledKept /\ RowsOK'
      BY <1>2, SameSound
    <2>2. \A q \in Runs : WorkerOK(q)'
      <3>1. age \in [Runs -> Nat]
            /\ claimed \in [Runs -> {Nothing} \union (Messages \X (1..MaxAttempts))]
        BY <1>1 DEF TypeOK
      <3>. QED BY <1>1, <1>2, <3>1, WorkersKept DEF Idles, OutboxOnly
    <2>3. TypeOK'
      BY <1>1, <1>2 DEF TypeOK, Idles, Goes, OutboxOnly, subscriberVars
    <2>. QED BY <2>1, <2>2, <2>3 DEF Sound
  <1>3. ASSUME NEW m \in Heads, Available(m, age[r]), Settles(m, "failed"), Idles(r)
        PROVE  Sound
    <2>1. m \in Messages /\ Open(m)
      BY DEF Heads
    <2>2. /\ outbox' \in [Messages -> Row] /\ RowsKept /\ SettledKept /\ RowsOK'
          /\ \A n \in Messages \ {m} : outbox'[n] = outbox[n]
      BY <1>3, <2>1, SettlesSound
    <2>3. \A q \in Runs \ {r} : worker[q] = "sending" => claimed[q][1] # m
      BY <1>1, <1>3, LeasedIsTaken
    <2>. QED BY <1>1, <1>3, <2>1, <2>2, <2>3, MarkSound DEF Idles
  <1>4. ASSUME NEW m \in Heads, Available(m, age[r]), ~Exhausted(m), Takes(r, m),
               \/ Idles(r)
               \/ /\ Goes(r, "sending")
                  /\ claimed' = [claimed EXCEPT ![r] = <<m, outbox[m].attempts + 1>>]
                  /\ age' = [age EXCEPT ![r] = 0]
        PROVE  Sound
    <2>. DEFINE row == [outbox[m] EXCEPT !.status = "delivering",
                                         !.attempts = outbox[m].attempts + 1,
                                         !.due = Lease - age[r], !.owner = r]
    <2>1. m \in Messages /\ Open(m)
      BY DEF Heads
    <2>2. outbox[m] \in Row /\ outbox \in [Messages -> Row] /\ age[r] \in Nat
          /\ outbox[m].attempts \in 0..MaxAttempts /\ age[r] <= LockWait
      BY <1>1, <2>1 DEF TypeOK, Row, Inv, DeliveryInv, WorkerOK
    <2>3. /\ row \in Row /\ row.status = "delivering" /\ row.stamp = outbox[m].stamp
          /\ row.attempts = outbox[m].attempts + 1 /\ row.attempts \in 1..MaxAttempts
          /\ row.owner = r /\ row.due = Lease - age[r]
      <3>1. outbox[m].attempts + 1 \in 1..MaxAttempts /\ outbox[m].attempts + 1 \in 0..MaxAttempts
        BY <1>4, <2>2, OutboxAssumption DEF Exhausted
      <3>2. Lease - age[r] \in Int
        BY <2>2, OutboxAssumption
      <3>. QED BY <2>2, <3>1, <3>2, Zenon DEF Row
    <2>4. Written(m, row)
      BY <1>4 DEF Takes, Written
    <2>. HIDE DEF row
    <2>5. outbox' \in [Messages -> Row] /\ RowsKept /\ SettledKept /\ RowsOK'
      BY <2>1, <2>3, <2>4, WriteSound
    <2>6. \A n \in Messages : outbox'[n] = IF n = m THEN row ELSE outbox[n]
      BY <2>2, <2>4 DEF Written
    <2>7. \A q \in Runs \ {r} : worker[q] = "sending"
            => claimed[q][1] # m /\ claimed[q][1] \in Messages
      BY <1>1, <1>4, LeasedIsTaken, ClaimedFacts DEF Inv, DeliveryInv, WorkerOK
    <2>8. CASE Idles(r)
      BY <1>1, <2>1, <2>5, <2>6, <2>7, <2>8, MarkSound DEF Idles
    <2>9. CASE /\ Goes(r, "sending")
               /\ claimed' = [claimed EXCEPT ![r] = <<m, outbox[m].attempts + 1>>]
               /\ age' = [age EXCEPT ![r] = 0]
      <3>1. <<m, outbox[m].attempts + 1>> \in Messages \X (1..MaxAttempts)
        BY <2>1, <2>3
      <3>2. TypeOK'
        BY <1>1, <2>5, <2>9, <3>1 DEF TypeOK, Goes, OutboxOnly, subscriberVars
      <3>3. ASSUME NEW q \in Runs PROVE WorkerOK(q)'
        <4>1. WorkerOK(q) /\ UNCHANGED life
          BY <1>1 DEF Inv, DeliveryInv, OutboxOnly
        <4>2. CASE q = r
          <5>1. claimed'[q] = <<m, outbox[m].attempts + 1>> /\ age'[q] = 0
                /\ worker'[q] = "sending"
            BY <1>1, <2>9, <4>2 DEF TypeOK, Goes
          <5>2. outbox'[m] = row /\ claimed'[q][1] = m /\ claimed'[q] # Nothing
            BY <2>1, <2>6, <5>1 DEF Nothing
          <5>3. life'[q] # "gone"
            BY <1>1, <4>1, <4>2 DEF Running
          <5>4. Lease - age[r] >= Lease - LockWait - 0 /\ 0 <= SendTime
            BY <2>2, OutboxAssumption
          <5>. QED BY <2>3, <4>2, <5>1, <5>2, <5>3, <5>4 DEF WorkerOK
        <4>3. CASE q # r
          <5>1. claimed'[q] = claimed[q] /\ age'[q] = age[q] /\ worker'[q] = worker[q]
            BY <1>1, <2>9, <4>3 DEF TypeOK, Goes
          <5>2. worker[q] = "sending" => outbox'[claimed[q][1]] = outbox[claimed[q][1]]
            BY <2>6, <2>7, <4>3
          <5>. QED BY <4>1, <5>1, <5>2 DEF WorkerOK
        <4>. QED BY <4>2, <4>3
      <3>. QED BY <2>5, <3>2, <3>3 DEF Sound
    <2>. QED BY <1>4, <2>8, <2>9
  <1>. QED BY <1>2, <1>3, <1>4 DEF Claim

LEMMA EndLoopSound == ASSUME Inv, NEW r \in Runs, EndLoop(r) PROVE Sound
  <1>. USE DEF EndLoop, Goes, Becomes, tables, subscriberVars
  <1>1. TypeOK'
    BY DEF Inv, StoreInv, TypeOK
  <1>2. RowsKept /\ SettledKept /\ RowsOK'
    BY SameSound
  <1>3. ASSUME NEW q \in Runs PROVE WorkerOK(q)'
    BY DEF Inv, StoreInv, TypeOK, DeliveryInv, WorkerOK
  <1>. QED BY <1>1, <1>2, <1>3 DEF Sound

LEMMA TickSound == ASSUME Inv, Tick PROVE Sound
  <1>. USE DEF Tick, OutboxOnly, subscriberVars
  <1>1. TypeOK /\ RowsOK /\ \A q \in Runs : WorkerOK(q)
    BY DEF Inv, StoreInv, DeliveryInv
  <1>2. ASSUME NEW m \in Messages
        PROVE  /\ outbox'[m] \in Row
               /\ \/ outbox'[m] = outbox[m]
                  \/ Open(m) /\ outbox'[m] = [outbox[m] EXCEPT !.due = outbox[m].due - 1]
               /\ outbox'[m].status = outbox[m].status
               /\ outbox'[m].stamp = outbox[m].stamp
               /\ outbox'[m].attempts = outbox[m].attempts
               /\ outbox'[m].owner = outbox[m].owner
               /\ outbox'[m].due >= outbox[m].due - 1
    <2>1. outbox[m] \in Row /\ outbox[m].due \in Int
      BY <1>1, MessageFacts
    <2>2. outbox'[m] = IF Open(m) /\ outbox[m].due > -LockWait
                       THEN [outbox[m] EXCEPT !.due = outbox[m].due - 1] ELSE outbox[m]
      OBVIOUS
    <2>3. outbox[m].due - 1 \in Int
      BY <2>1
    <2>. DEFINE nearer == [outbox[m] EXCEPT !.due = outbox[m].due - 1]
    <2>4. /\ nearer \in Row /\ nearer.status = outbox[m].status
          /\ nearer.stamp = outbox[m].stamp /\ nearer.attempts = outbox[m].attempts
          /\ nearer.owner = outbox[m].owner /\ nearer.due = outbox[m].due - 1
      BY <2>1, <2>3, Zenon DEF Row
    <2>5. outbox[m].due >= outbox[m].due - 1 /\ outbox[m].due - 1 >= outbox[m].due - 1
      BY <2>1
    <2>. HIDE DEF nearer
    <2>6. CASE outbox'[m] = outbox[m]
      BY <2>1, <2>5, <2>6, Zenon
    <2>7. CASE Open(m) /\ outbox'[m] = nearer
      BY <2>4, <2>5, <2>7 DEF nearer
    <2>. QED BY <2>2, <2>6, <2>7 DEF nearer
  <1>3. age' \in [Runs -> Nat]
    BY <1>1 DEF TypeOK
  <1>4. TypeOK'
    BY <1>1, <1>2, <1>3 DEF TypeOK
  <1>5. RowsKept /\ SettledKept /\ RowsOK'
    BY <1>1, <1>2 DEF RowsKept, SettledKept, RowsOK, Open, Settled
  <1>6. ASSUME NEW q \in Runs PROVE WorkerOK(q)'
    <2>1. WorkerOK(q) /\ age[q] \in Nat
      BY <1>1 DEF TypeOK
    <2>2. age'[q] = IF Timed(q) THEN age[q] + 1 ELSE age[q]
      OBVIOUS
    <2>3. CASE worker[q] = "sending"
      <3>1. claimed[q][1] \in Messages /\ age[q] + 1 <= SendTime
        BY <1>1, <2>1, <2>3, ClaimedFacts, OutboxAssumption DEF WorkerOK, Timed, Limit
      <3>2. age'[q] = age[q] + 1
        BY <2>2, <2>3 DEF Timed
      <3>3. outbox[claimed[q][1]].due \in Int /\ outbox'[claimed[q][1]].due \in Int
        BY <1>2, <1>1, <3>1, MessageFacts DEF Row
      <3>4. outbox'[claimed[q][1]].due >= Lease - LockWait - age'[q]
        BY <1>2, <2>1, <2>3, <3>1, <3>2, <3>3, OutboxAssumption DEF WorkerOK
      <3>. QED BY <1>2, <2>1, <2>3, <3>1, <3>2, <3>4 DEF WorkerOK
    <2>4. CASE worker[q] = "claiming"
      <3>1. age[q] < LockWait /\ age'[q] = age[q] + 1
        BY <2>2, <2>4 DEF Timed, Limit
      <3>. QED BY <2>1, <2>4, <3>1, OutboxAssumption DEF WorkerOK
    <2>5. CASE worker[q] \notin {"sending", "claiming"}
      BY <2>1, <2>5 DEF WorkerOK
    <2>. QED BY <2>3, <2>4, <2>5
  <1>. QED BY <1>4, <1>5, <1>6 DEF Sound

LEMMA DeliverySound ==
  ASSUME Inv, Delivery
  PROVE  Sound /\ UNCHANGED <<subscriberVars, history, snapshot, checkpoint>>
  <1>1. CASE Tick
    BY <1>1, TickSound DEF Tick, OutboxOnly
  <1>2. ASSUME NEW r \in Runs, Dispatcher(r)
        PROVE  Sound /\ UNCHANGED <<subscriberVars, history, snapshot, checkpoint>>
    <2>1. CASE Ask(r)
      BY <2>1, AskSound DEF Ask, persistenceVars, tables
    <2>2. CASE Claim(r)
      BY <2>2, ClaimSound DEF Claim, OutboxOnly
    <2>3. CASE Send(r)
      BY <2>3, SendSound DEF Send, persistenceVars, tables
    <2>4. CASE MarkDelivered(r)
      BY <2>4, MarkDeliveredSound DEF MarkDelivered, OutboxOnly
    <2>5. CASE MarkFailed(r)
      BY <2>5, MarkFailedSound DEF MarkFailed, OutboxOnly
    <2>6. CASE EndLoop(r)
      BY <2>6, EndLoopSound DEF EndLoop, tables
    <2>. QED BY <1>2, <2>1, <2>2, <2>3, <2>4, <2>5, <2>6 DEF Dispatcher
  <1>. QED BY <1>1, <1>2 DEF Delivery

LEMMA StoreKept ==
  ASSUME StoreInv, TypeOK', RowsKept, UNCHANGED <<subscriberVars, history, snapshot, checkpoint>>
  PROVE  StoreInv'
  <1>. USE DEF subscriberVars
  <1>1. \A r \in Runs : \A v \in 1..MaxRevision :
          /\ <<r, v>> \in Messages
          /\ Stored(<<r, v>>)' <=> Stored(<<r, v>>)
          /\ outbox'[<<r, v>>].status = "none" <=> outbox[<<r, v>>].status = "none"
          /\ outbox'[<<r, v>>].stamp = outbox[<<r, v>>].stamp
    BY DEF RowsKept, Messages, Stored
  <1>2. StoredTogether'
    BY <1>1 DEF StoreInv, StoredTogether
  <1>3. ASSUME NEW r \in Runs PROVE QueueOK(r)' /\ HistoryOK(r)' /\ StampsOK(r)'
    <2>1. QueueOK(r)' /\ HistoryOK(r)'
      BY DEF StoreInv, QueueOK, HistoryOK
    <2>2. StampsOK(r)
      BY DEF StoreInv
    <2>3. StampsOK(r)'
      BY <1>1, <2>2 DEF StampsOK
    <2>. QED BY <2>1, <2>3
  <1>. QED BY <1>2, <1>3 DEF StoreInv

\* Who starts to send has claimed a head.
LEMMA SendersClaim ==
  ASSUME Inv, Delivery, NEW r \in Runs, worker'[r] = "sending"
  PROVE  \/ worker[r] = "sending" /\ claimed'[r] = claimed[r]
         \/ claimed'[r][1] \in Heads
  <1>. USE DEF Goes, Idles
  <1>1. worker \in [Runs -> {"polling", "claiming", "sending", "marking", "failing", "ended"}]
        /\ claimed \in [Runs -> {Nothing} \union (Messages \X (1..MaxAttempts))]
    BY DEF Inv, StoreInv, TypeOK
  <1>2. CASE Tick
    BY <1>2 DEF Tick
  <1>3. ASSUME NEW q \in Runs, Dispatcher(q)
        PROVE  (worker[r] = "sending" /\ claimed'[r] = claimed[r]) \/ claimed'[r][1] \in Heads
    <2>1. CASE Ask(q)
      BY <1>1, <2>1 DEF Ask
    <2>2. CASE Claim(q)
      BY <1>1, <2>2 DEF Claim
    <2>3. CASE Send(q)
      BY <1>1, <2>3 DEF Send
    <2>4. CASE MarkDelivered(q)
      BY <1>1, <2>4 DEF MarkDelivered
    <2>5. CASE MarkFailed(q)
      BY <1>1, <2>5 DEF MarkFailed
    <2>6. CASE EndLoop(q)
      BY <1>1, <2>6 DEF EndLoop
    <2>. QED BY <1>3, <2>1, <2>2, <2>3, <2>4, <2>5, <2>6 DEF Dispatcher
  <1>. QED BY <1>2, <1>3 DEF Delivery

\* Of one run, what is stored or queued comes in the order of the revisions.
LEMMA StoredBeforeQueued ==
  ASSUME StoreInv, NEW r \in Runs, NEW v \in 1..MaxRevision, Stored(<<r, v>>)
  PROVE  \A i \in 1..Len(queue[r]) : queue[r][i].revision >= v
  <1>1. PICK e \in history[r] : e.revision = v /\ e.announced
    BY DEF StoreInv, StoredTogether, Stored
  <1>2. v <= revision[r] - Len(queue[r]) + 1
    BY <1>1 DEF StoreInv, HistoryOK
  <1>3. revision[r] \in Nat /\ Len(queue[r]) \in Nat
    BY DEF StoreInv, TypeOK
  <1>4. ASSUME NEW i \in 1..Len(queue[r]) PROVE queue[r][i].revision >= v
    <2>1. queue[r][i].revision = revision[r] - Len(queue[r]) + i
      BY DEF StoreInv, QueueOK
    <2>. QED BY <1>2, <1>3, <2>1
  <1>. QED BY <1>4

LEMMA HeadsComeFirst ==
  ASSUME StoreInv, NEW m \in Heads
  PROVE  /\ \A u \in 1..(m[2] - 1) : ~Open(<<m[1], u>>)
         /\ \A i \in 1..Len(queue[m[1]]) : queue[m[1]][i].revision >= m[2]
  <1>1. m \in Messages /\ Open(m) /\ TypeOK
    BY DEF Heads, StoreInv
  <1>2. m = <<m[1], m[2]>> /\ m[1] \in Runs /\ m[2] \in 1..MaxRevision
    BY <1>1, MessageFacts
  <1>3. Stored(m)
    BY <1>1 DEF Stored, Open
  <1>4. ASSUME NEW u \in 1..(m[2] - 1), Open(<<m[1], u>>) PROVE FALSE
    <2>1. u \in 1..MaxRevision /\ u < m[2] /\ <<m[1], u>> \in Messages
      BY <1>2, PersistenceAssumption DEF Messages
    <2>2. outbox[<<m[1], u>>].stamp <= outbox[m].stamp
      BY <1>2, <1>3, <1>4, <2>1 DEF StoreInv, StampsOK, Stored, Open
    <2>3. outbox[<<m[1], u>>].stamp \in Nat /\ outbox[m].stamp \in Nat
      BY <1>1, <2>1, MessageFacts
    <2>4. Precedes(<<m[1], u>>, m)
      BY <2>1, <2>2, <2>3 DEF Precedes
    <2>. QED BY <1>4, <2>1, <2>4 DEF Heads
  <1>. QED BY <1>2, <1>3, <1>4, StoredBeforeQueued

LEMMA DeliveryStep == ASSUME Inv, Delivery PROVE Inv'
  <1>1. Sound /\ UNCHANGED <<subscriberVars, history, snapshot, checkpoint>>
    BY DeliverySound
  <1>2. StoreInv'
    BY <1>1, StoreKept DEF Inv, Sound
  <1>3. ASSUME NEW r \in Runs, worker'[r] = "sending"
        PROVE  /\ \A u \in 1..(claimed'[r][1][2] - 1) :
                    outbox'[<<claimed'[r][1][1], u>>].status \notin {"pending", "delivering"}
               /\ \A i \in 1..Len(queue'[claimed'[r][1][1]]) :
                    queue'[claimed'[r][1][1]][i].revision >= claimed'[r][1][2]
    <2>. DEFINE m == claimed'[r][1]
    <2>1. m \in Messages
      <3>1. claimed'[r] \in {Nothing} \union (Messages \X (1..MaxAttempts)) /\ claimed'[r] # Nothing
        BY <1>1, <1>3 DEF Sound, TypeOK, WorkerOK
      <3>. QED BY <3>1 DEF Nothing
    <2>2. m[1] \in Runs /\ m[2] \in 1..MaxRevision
      BY <2>1 DEF Messages
    <2>3. /\ \A u \in 1..(m[2] - 1) : ~Open(<<m[1], u>>)
          /\ \A i \in 1..Len(queue[m[1]]) : queue[m[1]][i].revision >= m[2]
      <3>1. CASE worker[r] = "sending" /\ claimed'[r] = claimed[r]
        BY <3>1 DEF Inv, DeliveryInv, SentInOrder
      <3>2. CASE m \in Heads
        BY <3>2, HeadsComeFirst DEF Inv
      <3>. QED BY <1>3, <3>1, <3>2, SendersClaim
    <2>4. ASSUME NEW u \in 1..(m[2] - 1)
          PROVE  outbox'[<<m[1], u>>].status \notin {"pending", "delivering"}
      <3>1. <<m[1], u>> \in Messages
        BY <2>2, PersistenceAssumption DEF Messages
      <3>2. outbox[<<m[1], u>>] \in Row
        BY <3>1, MessageFacts DEF Inv, StoreInv
      <3>3. outbox[<<m[1], u>>].status = "none" \/ Settled(<<m[1], u>>)
        BY <2>3, <3>2 DEF Open, Settled, Row
      <3>4. outbox'[<<m[1], u>>].status \in {"none", "delivered", "failed"}
        BY <1>1, <3>1, <3>3 DEF Sound, SettledKept, RowsKept, Settled
      <3>. QED BY <3>4
    <2>5. queue' = queue
      BY <1>1 DEF subscriberVars
    <2>. QED BY <2>3, <2>4, <2>5
  <1>4. SentInOrder'
    BY <1>3 DEF SentInOrder, Open
  <1>. QED BY <1>1, <1>2, <1>4 DEF Inv, DeliveryInv, Sound

----------------------------------------------------------------------------
(* The subscriber                                                          *)

LEMMA QueueFacts ==
  ASSUME TypeOK, NEW r \in Runs
  PROVE  /\ Len(queue[r]) \in Nat /\ revision[r] \in Nat
         /\ \A i \in 1..Len(queue[r]) :
              queue[r][i] \in Event /\ queue[r][i].revision \in Nat /\ queue[r][i].stamp \in Nat
         /\ \A e \in history[r] : e \in Event /\ e.revision \in Nat
  <1>1. queue[r] \in Seq(Event) /\ history[r] \in SUBSET Event /\ revision[r] \in Nat
    BY DEF TypeOK
  <1>2. \A e \in Event : e.revision \in Nat /\ e.stamp \in Nat
    BY PersistenceAssumption DEF Event
  <1>. QED BY <1>1, <1>2

LEMMA LatestKept ==
  ASSUME NEW events \in SUBSET Event, NEW row \in [revision : Nat, content : Nat],
         Latest(events, row), NEW e \in Event, \A d \in events : d.revision <= e.revision
  PROVE  Latest(events \union {e}, Overwritten(row, e.revision))
  <1>1. e.revision \in Nat /\ e.revision > 0 /\ \A d \in events : d.revision \in Nat
    BY PersistenceAssumption DEF Event
  <1>2. row.revision \in Nat
    OBVIOUS
  <1>3. CASE e.revision > row.revision
    <2>1. Overwritten(row, e.revision) = [revision |-> e.revision, content |-> e.revision]
      BY <1>3 DEF Overwritten
    <2>. QED BY <1>1, <1>2, <1>3, <2>1 DEF Latest
  <1>4. CASE ~(e.revision > row.revision)
    <2>1. Overwritten(row, e.revision) = row /\ e.revision <= row.revision
      BY <1>1, <1>2, <1>4 DEF Overwritten
    <2>. QED BY <2>1 DEF Latest
  <1>. QED BY <1>3, <1>4

\* The queue keeps its order when its first event leaves.
Shortened(r) == queue' = [queue EXCEPT ![r] = Tail(@)]

LEMMA ShortenedQueue ==
  ASSUME StoreInv, NEW r \in Runs, queue[r] # <<>>, Shortened(r)
  PROVE  /\ queue' \in [Runs -> Seq(Event)]
         /\ \A q \in Runs \ {r} : queue'[q] = queue[q]
         /\ Len(queue'[r]) = Len(queue[r]) - 1
         /\ \A i \in 1..Len(queue'[r]) : queue'[r][i] = queue[r][i + 1] /\ i + 1 \in 1..Len(queue[r])
  <1>1. queue \in [Runs -> Seq(Event)]
    BY DEF StoreInv, TypeOK
  <1>2. queue'[r] = Tail(queue[r]) /\ queue[r] \in Seq(Event)
    BY <1>1 DEF Shortened
  <1>3. Tail(queue[r]) \in Seq(Event) /\ Len(Tail(queue[r])) = Len(queue[r]) - 1
        /\ \A i \in 1..Len(Tail(queue[r])) : Tail(queue[r])[i] = queue[r][i + 1]
    BY <1>2
  <1>4. \A i \in 1..Len(queue'[r]) : i + 1 \in 1..Len(queue[r])
    BY <1>2, <1>3
  <1>. QED BY <1>1, <1>2, <1>3, <1>4 DEF Shortened

\* The tables after an attempt, beside the queue before it.
HistoryNext(q) ==
  \A e \in history'[q] :
    /\ e.revision <= revision[q] - Len(queue[q]) + 1
    /\ e.revision <= revision[q]
    /\ e.announced = Kind[e.revision].announced
    /\ e.working = Kind[e.revision].working

StampsNext(q) ==
  /\ \A v \in 1..MaxRevision : Stored(<<q, v>>)' => outbox'[<<q, v>>].stamp <= stamp
  /\ \A u, v \in 1..MaxRevision :
       u < v /\ Stored(<<q, u>>)' /\ Stored(<<q, v>>)'
         => outbox'[<<q, u>>].stamp <= outbox'[<<q, v>>].stamp
  /\ \A u \in 1..MaxRevision : \A i \in 1..Len(queue[q]) :
       Stored(<<q, u>>)' => outbox'[<<q, u>>].stamp <= queue[q][i].stamp

TablesTyped ==
  /\ history' \in [Runs -> SUBSET Event]
  /\ snapshot' \in [Runs -> [revision : Nat, content : Nat]]
  /\ checkpoint' \in [Runs -> [revision : Nat, content : Nat]]
  /\ outbox' \in [Messages -> Row]

TablesSound ==
  /\ TablesTyped /\ StoredTogether' /\ RowsAdded
  /\ \A q \in Runs : HistoryNext(q) /\ StampsNext(q)

LEMMA SameTables == ASSUME StoreInv, UNCHANGED tables PROVE TablesSound
  <1>. USE DEF tables
  <1>1. TablesTyped /\ RowsAdded
    BY DEF StoreInv, TypeOK, TablesTyped, RowsAdded
  <1>2. StoredTogether'
    BY DEF StoreInv, StoredTogether
  <1>3. ASSUME NEW q \in Runs PROVE HistoryNext(q) /\ StampsNext(q)
    BY DEF StoreInv, HistoryOK, StampsOK, HistoryNext, StampsNext, Stored
  <1>. QED BY <1>1, <1>2, <1>3 DEF TablesSound

LEMMA CommitSound ==
  ASSUME StoreInv, NEW r \in Runs, queue[r] # <<>>, Commits(r, Head(queue[r]))
  PROVE  TablesSound
  <1>. DEFINE e == Head(queue[r])
              here == <<r, e.revision>>
  <1>0. TypeOK /\ QueueOK(r) /\ HistoryOK(r) /\ StampsOK(r)
    BY DEF StoreInv
  <1>1. /\ Len(queue[r]) \in Nat /\ Len(queue[r]) > 0 /\ 1 \in 1..Len(queue[r])
        /\ e = queue[r][1] /\ e \in Event
    <2>1. queue[r] \in Seq(Event)
      BY <1>0 DEF TypeOK
    <2>. QED BY <2>1
  <1>2. /\ e.revision \in 1..MaxRevision /\ e.revision \in Nat /\ e.stamp \in Nat
        /\ e.stamp \in 0..MaxStamp /\ here \in Messages
    BY <1>1, PersistenceAssumption DEF Event, Messages
  <1>3. /\ e.revision = revision[r] - Len(queue[r]) + 1 /\ e.revision <= revision[r]
        /\ e.announced = Kind[e.revision].announced /\ e.working = Kind[e.revision].working
        /\ e.stamp <= stamp
    BY <1>0, <1>1, QueueFacts DEF QueueOK
  <1>. HIDE DEF e
  <1>4. /\ history' = [history EXCEPT ![r] = @ \union {e}]
        /\ snapshot' = [snapshot EXCEPT ![r] = Overwritten(@, e.revision)]
        /\ checkpoint' = [checkpoint EXCEPT ![r] =
             IF e.working THEN Overwritten(@, e.revision) ELSE @]
        /\ outbox' = [outbox EXCEPT ![here] = Inserted(@, e)]
    BY DEF Commits, e
  <1>5. \A d \in history[r] : d \in Event /\ d.revision \in Nat /\ d.revision <= e.revision
    BY <1>0, <1>1, <1>3, QueueFacts DEF HistoryOK
  <1>6. \A m \in Messages :
          outbox'[m] = IF m = here /\ e.announced /\ outbox[m].status = "none"
                       THEN NewMessage(e)
                       ELSE outbox[m]
    BY <1>0, <1>2, <1>4 DEF TypeOK, Inserted
  <1>7. /\ NewMessage(e) \in Row /\ NewMessage(e).stamp = e.stamp
        /\ NewMessage(e).status = "pending" /\ NewMessage(e).attempts = 0
    <2>1. 0 \in 0..MaxAttempts /\ 0 \in Int
      BY OutboxAssumption
    <2>. QED BY <1>2, <2>1 DEF Row, Nobody, NewMessage
  <1>8. TablesTyped
    <2>1. ASSUME NEW row \in [revision : Nat, content : Nat]
          PROVE  Overwritten(row, e.revision) \in [revision : Nat, content : Nat]
      BY <1>2 DEF Overwritten
    <2>2. outbox' \in [Messages -> Row]
      BY <1>0, <1>4, <1>6, <1>7 DEF TypeOK
    <2>3. snapshot' \in [Runs -> [revision : Nat, content : Nat]]
          /\ checkpoint' \in [Runs -> [revision : Nat, content : Nat]]
      BY <1>0, <1>4, <2>1 DEF TypeOK
    <2>4. history' \in [Runs -> SUBSET Event]
      BY <1>0, <1>1, <1>4 DEF TypeOK
    <2>. QED BY <2>2, <2>3, <2>4 DEF TablesTyped
  <1>9. RowsAdded
    BY <1>1, <1>6, <1>7 DEF RowsAdded
  <1>10. ASSUME NEW q \in Runs PROVE HistoryNext(q)
    <2>1. history'[q] = IF q = r THEN history[q] \union {e} ELSE history[q]
      BY <1>0, <1>4 DEF TypeOK
    <2>2. HistoryOK(q)
      BY DEF StoreInv
    <2>3. revision[q] \in Nat /\ Len(queue[q]) \in Nat
      BY <1>0, QueueFacts
    <2>4. ASSUME NEW d \in history[q]
          PROVE  /\ d.revision <= revision[q] - Len(queue[q]) + 1 /\ d.revision <= revision[q]
                 /\ d.announced = Kind[d.revision].announced
                 /\ d.working = Kind[d.revision].working
      BY <2>2 DEF HistoryOK
    <2>5. e.revision <= revision[r] - Len(queue[r]) + 1
      BY <1>2, <1>3, <2>3
    <2>6. CASE q = r
      BY <1>3, <2>1, <2>4, <2>5, <2>6 DEF HistoryNext
    <2>7. CASE q # r
      BY <2>1, <2>4, <2>7 DEF HistoryNext
    <2>. QED BY <2>6, <2>7
  <1>11. ASSUME NEW q \in Runs PROVE StampsNext(q)
    <2>1. StampsOK(q) /\ StampsOK(r)
      BY DEF StoreInv
    <2>2. ASSUME NEW v \in 1..MaxRevision, Stored(<<q, v>>)'
          PROVE  \/ Stored(<<q, v>>) /\ outbox'[<<q, v>>] = outbox[<<q, v>>]
                 \/ q = r /\ v = e.revision /\ outbox'[<<q, v>>].stamp = e.stamp
      <3>1. <<q, v>> \in Messages
        BY DEF Messages
      <3>. QED BY <1>6, <1>7, <2>2, <3>1 DEF Stored
    <2>3. ASSUME NEW v \in 1..MaxRevision, Stored(<<r, v>>) PROVE v <= e.revision
      BY <1>1, <2>3, StoredBeforeQueued
    <2>4. \A i \in 1..Len(queue[r]) : e.stamp <= queue[r][i].stamp
      <3>1. \A i \in 1..Len(queue[r]) : i # 1 => 1 < i
        BY <1>1
      <3>. QED BY <1>0, <1>1, <1>2, <3>1 DEF QueueOK
    <2>5. \A u \in 1..MaxRevision : Stored(<<r, u>>) => outbox[<<r, u>>].stamp <= e.stamp
      BY <1>0, <1>1 DEF StampsOK
    <2>6. \A v \in 1..MaxRevision : Stored(<<q, v>>)' => outbox'[<<q, v>>].stamp <= stamp
      BY <1>3, <2>1, <2>2 DEF StampsOK
    <2>7. ASSUME NEW u \in 1..MaxRevision, NEW v \in 1..MaxRevision,
                 u < v, Stored(<<q, u>>)', Stored(<<q, v>>)'
          PROVE  outbox'[<<q, u>>].stamp <= outbox'[<<q, v>>].stamp
      <3>1. CASE Stored(<<q, v>>) /\ outbox'[<<q, v>>] = outbox[<<q, v>>]
        <4>1. q = r => v <= e.revision
          BY <2>3, <3>1
        <4>2. u # e.revision \/ q # r
          BY <1>2, <2>7, <4>1
        <4>. QED BY <2>1, <2>2, <2>7, <3>1, <4>2 DEF StampsOK
      <3>2. CASE q = r /\ v = e.revision /\ outbox'[<<q, v>>].stamp = e.stamp
        <4>1. Stored(<<q, u>>) /\ outbox'[<<q, u>>] = outbox[<<q, u>>]
          BY <1>2, <2>2, <2>7, <3>2
        <4>. QED BY <2>5, <3>2, <4>1
      <3>. QED BY <2>2, <2>7, <3>1, <3>2
    <2>8. ASSUME NEW u \in 1..MaxRevision, NEW i \in 1..Len(queue[q]), Stored(<<q, u>>)'
          PROVE  outbox'[<<q, u>>].stamp <= queue[q][i].stamp
      BY <2>1, <2>2, <2>4, <2>8 DEF StampsOK
    <2>. QED BY <2>6, <2>7, <2>8 DEF StampsNext
  <1>12. StoredTogether'
    <2>. SUFFICES ASSUME NEW q \in Runs
                  PROVE  /\ Latest(history'[q], snapshot'[q])
                         /\ Latest({d \in history'[q] : d.working}, checkpoint'[q])
                         /\ \A v \in 1..MaxRevision : outbox'[<<q, v>>].status # "none"
                               <=> \E d \in history'[q] : d.revision = v /\ d.announced
      BY DEF StoredTogether, Latest
    <2>1. /\ Latest(history[q], snapshot[q])
          /\ Latest({d \in history[q] : d.working}, checkpoint[q])
          /\ \A v \in 1..MaxRevision : outbox[<<q, v>>].status # "none"
                <=> \E d \in history[q] : d.revision = v /\ d.announced
      BY DEF StoreInv, StoredTogether
    <2>2. CASE q # r
      <3>1. history'[q] = history[q] /\ snapshot'[q] = snapshot[q] /\ checkpoint'[q] = checkpoint[q]
        BY <1>0, <1>4, <2>2 DEF TypeOK
      <3>2. \A v \in 1..MaxRevision : outbox'[<<q, v>>] = outbox[<<q, v>>]
        BY <1>6, <2>2 DEF Messages
      <3>. QED BY <2>1, <3>1, <3>2
    <2>3. CASE q = r
      <3>1. /\ history'[r] = history[r] \union {e}
            /\ snapshot'[r] = Overwritten(snapshot[r], e.revision)
            /\ checkpoint'[r] = IF e.working THEN Overwritten(checkpoint[r], e.revision)
                                ELSE checkpoint[r]
            /\ snapshot[r] \in [revision : Nat, content : Nat]
            /\ checkpoint[r] \in [revision : Nat, content : Nat]
            /\ history[r] \in SUBSET Event
        BY <1>0, <1>4 DEF TypeOK
      <3>2. Latest(history'[r], snapshot'[r])
        <4>1. Latest(history[r], snapshot[r])
          BY <2>1, <2>3
        <4>2. \A d \in history[r] : d.revision <= e.revision
          BY <1>5
        <4>3. Latest(history[r] \union {e}, Overwritten(snapshot[r], e.revision))
          BY <1>1, <3>1, <4>1, <4>2, LatestKept
        <4>. QED BY <3>1, <4>3
      <3>3. Latest({d \in history'[r] : d.working}, checkpoint'[r])
        <4>. DEFINE old == {d \in history[r] : d.working}
        <4>1. CASE e.working
          <5>1. {d \in history'[r] : d.working} = old \union {e}
            BY <3>1, <4>1
          <5>2. old \in SUBSET Event /\ \A d \in old : d.revision <= e.revision
            BY <1>5
          <5>3. Latest(old, checkpoint[r])
            BY <2>1, <2>3
          <5>. HIDE DEF old
          <5>4. Latest(old \union {e}, Overwritten(checkpoint[r], e.revision))
            BY <1>1, <3>1, <5>2, <5>3, LatestKept
          <5>. QED BY <3>1, <4>1, <5>1, <5>4
        <4>2. CASE ~e.working
          <5>1. {d \in history'[r] : d.working} = old
            BY <3>1, <4>2
          <5>. QED BY <2>1, <2>3, <3>1, <4>2, <5>1
        <4>. QED BY <4>1, <4>2
      <3>4. ASSUME NEW v \in 1..MaxRevision
            PROVE  outbox'[<<r, v>>].status # "none"
                     <=> \E d \in history'[r] : d.revision = v /\ d.announced
        <4>1. <<r, v>> \in Messages /\ (<<r, v>> = here <=> v = e.revision)
          BY DEF Messages
        <4>2. CASE v = e.revision /\ e.announced
          <5>1. outbox'[<<r, v>>].status # "none"
            BY <1>6, <1>7, <4>1, <4>2
          <5>. QED BY <3>1, <4>2, <5>1
        <4>3. CASE ~(v = e.revision /\ e.announced)
          <5>1. outbox'[<<r, v>>] = outbox[<<r, v>>]
            BY <1>6, <4>1, <4>3
          <5>2. (\E d \in history'[r] : d.revision = v /\ d.announced)
                  <=> \E d \in history[r] : d.revision = v /\ d.announced
            BY <3>1, <4>3
          <5>. QED BY <2>1, <2>3, <5>1, <5>2
        <4>. QED BY <4>2, <4>3
      <3>. QED BY <2>3, <3>2, <3>3, <3>4
    <2>. QED BY <2>2, <2>3
  <1>. QED BY <1>8, <1>9, <1>10, <1>11, <1>12 DEF TablesSound

\* A step of the subscriber or the session leaves the workers' business alone.
LEMMA WorkersUndisturbed ==
  ASSUME Inv, RowsAdded, NEW q \in Runs, UNCHANGED life,
         worker'[q] = worker[q] /\ claimed'[q] = claimed[q] /\ age'[q] = age[q]
  PROVE  WorkerOK(q)'
  <1>1. WorkerOK(q)
    BY DEF Inv, DeliveryInv
  <1>2. worker[q] = "sending" => outbox'[claimed[q][1]] = outbox[claimed[q][1]]
    BY <1>1, ClaimedFacts DEF Inv, StoreInv, WorkerOK, RowsAdded
  <1>. QED BY <1>1, <1>2 DEF WorkerOK

LEMMA RowsStayOK == ASSUME Inv, RowsAdded PROVE RowsOK'
  BY DEF Inv, DeliveryInv, RowsOK, RowsAdded

\* Rows are added behind those that are being sent.
LEMMA OrderUndisturbed ==
  ASSUME Inv, RowsAdded,
         NEW r \in Runs, worker[r] = "sending", NEW q, NEW v, claimed[r][1] = <<q, v>>
  PROVE  /\ q \in Runs /\ v \in 1..MaxRevision /\ v <= revision[q]
         /\ \A u \in 1..(v - 1) : outbox'[<<q, u>>].status \notin {"pending", "delivering"}
         /\ \A i \in 1..Len(queue[q]) : queue[q][i].revision >= v
  <1>1. <<q, v>> \in Messages
    BY ClaimedFacts DEF Inv, StoreInv, DeliveryInv, WorkerOK
  <1>2. q \in Runs /\ v \in 1..MaxRevision
    BY <1>1 DEF Messages
  <1>3. Stored(<<q, v>>)
    BY DEF Inv, DeliveryInv, WorkerOK, Stored
  <1>4. v <= revision[q]
    <2>1. PICK e \in history[q] : e.revision = v
      BY <1>1, <1>2, <1>3 DEF Inv, StoreInv, StoredTogether, Stored
    <2> QED
      BY <1>2, <2>1 DEF Inv, StoreInv, HistoryOK
  <1>5. /\ \A u \in 1..(v - 1) : ~Open(<<q, u>>)
        /\ \A i \in 1..Len(queue[q]) : queue[q][i].revision >= v
    BY DEF Inv, DeliveryInv, SentInOrder
  <1>6. ASSUME NEW u \in 1..(v - 1)
        PROVE  outbox'[<<q, u>>].status \notin {"pending", "delivering"}
    <2>1. <<q, u>> \in Messages /\ u < v
      BY <1>2, PersistenceAssumption DEF Messages
    <2>2. CASE outbox'[<<q, u>>] = outbox[<<q, u>>]
      BY <1>5, <2>2 DEF Open
    <2>3. CASE Len(queue[q]) > 0 /\ queue[q][1].revision = u
      <3>1. Len(queue[q]) \in Nat
        BY <1>2, QueueFacts DEF Inv, StoreInv
      <3>2. queue[q][1].revision >= v
        BY <1>5, <2>3, <3>1
      <3>. QED BY <1>2, <2>1, <2>3, <3>2
    <2>. QED BY <2>1, <2>2, <2>3 DEF RowsAdded
  <1>. QED BY <1>2, <1>4, <1>5, <1>6

LEMMA OrderKept ==
  ASSUME Inv, RowsAdded,
         \A r \in Runs : worker'[r] = "sending" => worker[r] = "sending" /\ claimed'[r] = claimed[r],
         \A q \in Runs : \A v \in 1..MaxRevision :
           v <= revision[q] /\ (\A i \in 1..Len(queue[q]) : queue[q][i].revision >= v)
             => \A i \in 1..Len(queue'[q]) : queue'[q][i].revision >= v
  PROVE  SentInOrder'
  <1>1. ASSUME NEW r \in Runs, worker'[r] = "sending"
        PROVE  /\ \A u \in 1..(claimed'[r][1][2] - 1) :
                    outbox'[<<claimed'[r][1][1], u>>].status \notin {"pending", "delivering"}
               /\ \A i \in 1..Len(queue'[claimed'[r][1][1]]) :
                    queue'[claimed'[r][1][1]][i].revision >= claimed'[r][1][2]
    <2>1. worker[r] = "sending" /\ claimed'[r] = claimed[r]
      BY <1>1
    <2>2. claimed[r][1] = <<claimed[r][1][1], claimed[r][1][2]>>
      BY <2>1, ClaimedFacts, MessageFacts DEF Inv, StoreInv, DeliveryInv, WorkerOK
    <2>. DEFINE q == claimed[r][1][1]
                v == claimed[r][1][2]
    <2>. HIDE DEF q, v
    <2>3. /\ q \in Runs /\ v \in 1..MaxRevision /\ v <= revision[q]
          /\ \A u \in 1..(v - 1) : outbox'[<<q, u>>].status \notin {"pending", "delivering"}
          /\ \A i \in 1..Len(queue[q]) : queue[q][i].revision >= v
      BY <2>1, <2>2, OrderUndisturbed DEF q, v
    <2>4. \A i \in 1..Len(queue'[q]) : queue'[q][i].revision >= v
      BY <2>3
    <2>. QED BY <2>1, <2>3, <2>4 DEF q, v
  <1>. QED BY <1>1 DEF SentInOrder, Open

\* An attempt ends with the event still first in the queue, or gone from it.
LEMMA AttemptStep ==
  ASSUME Inv, NEW r \in Runs, queue[r] # <<>>, TablesSound,
         UNCHANGED queue \/ Shortened(r), tries' \in [Runs -> Nat],
         UNCHANGED <<life, revision, changes, stamp, worker, claimed, age>>
  PROVE  Inv'
  <1>1. TypeOK /\ RowsAdded /\ StoredTogether'
    BY DEF Inv, StoreInv, TablesSound
  <1>2. queue' \in [Runs -> Seq(Event)]
    BY <1>1, ShortenedQueue DEF Inv, TypeOK
  <1>3. TypeOK'
    BY <1>1, <1>2 DEF TypeOK, TablesSound, TablesTyped
  <1>4. ASSUME NEW q \in Runs
        PROVE  /\ QueueOK(q)' /\ HistoryOK(q)' /\ StampsOK(q)'
               /\ \A i \in 1..Len(queue'[q]) :
                    \E j \in 1..Len(queue[q]) : queue'[q][i] = queue[q][j]
    <2>0. QueueOK(q) /\ HistoryNext(q) /\ StampsNext(q)
      BY DEF Inv, StoreInv, TablesSound
    <2>1. CASE queue'[q] = queue[q]
      <3>1. QueueOK(q)'
        BY <2>0, <2>1 DEF QueueOK
      <3>2. HistoryOK(q)'
        BY <2>0, <2>1 DEF HistoryOK, HistoryNext
      <3>3. StampsOK(q)'
        BY <2>0, <2>1 DEF StampsOK, StampsNext
      <3>. QED BY <2>1, <3>1, <3>2, <3>3
    <2>2. CASE q = r /\ Shortened(r)
      <3>1. /\ Len(queue'[r]) = Len(queue[r]) - 1
            /\ \A i \in 1..Len(queue'[r]) : queue'[r][i] = queue[r][i + 1] /\ i + 1 \in 1..Len(queue[r])
        BY <2>2, ShortenedQueue DEF Inv
      <3>2. Len(queue[r]) \in Nat /\ Len(queue[r]) > 0 /\ revision[r] \in Nat
        <4>1. queue[r] \in Seq(Event) /\ revision[r] \in Nat
          BY <1>1 DEF TypeOK
        <4>2. Len(queue[r]) \in Nat /\ Len(queue[r]) > 0
          BY <4>1
        <4>. QED BY <4>1, <4>2
      <3>3. QueueOK(q)'
        <4>1. revision'[r] = revision[r] /\ changes' = changes /\ stamp' = stamp
          OBVIOUS
        <4>2. Len(queue'[r]) <= revision[r] /\ revision[r] <= changes
          BY <2>0, <2>2, <3>1, <3>2 DEF QueueOK
        <4>3. ASSUME NEW i \in 1..Len(queue'[r])
              PROVE  /\ queue'[r][i].revision = revision[r] - Len(queue'[r]) + i
                     /\ queue'[r][i].announced = Kind[queue'[r][i].revision].announced
                     /\ queue'[r][i].working = Kind[queue'[r][i].revision].working
                     /\ queue'[r][i].stamp <= stamp
          <5>1. queue'[r][i] = queue[r][i + 1] /\ i + 1 \in 1..Len(queue[r])
            BY <3>1
          <5>2. queue[r][i + 1].revision = revision[r] - Len(queue[r]) + (i + 1)
            BY <2>0, <2>2, <5>1 DEF QueueOK
          <5>3. revision[r] - Len(queue[r]) + (i + 1) = revision[r] - Len(queue'[r]) + i
            <6>1. Len(queue'[r]) = Len(queue[r]) - 1 /\ i \in Int
              BY <3>1
            <6>. DEFINE last == revision[r]
                        len == Len(queue[r])
                        shorter == Len(queue'[r])
            <6>2. last \in Int /\ len \in Int /\ shorter = len - 1 /\ i \in Int
              BY <3>2, <6>1
            <6>. HIDE DEF last, len, shorter
            <6>3. last - len + (i + 1) = last - shorter + i
              BY <6>2
            <6>. QED BY <6>3 DEF last, len, shorter
          <5>. QED BY <2>0, <2>2, <5>1, <5>2, <5>3 DEF QueueOK
        <4>4. ASSUME NEW i \in 1..Len(queue'[r]), NEW j \in 1..Len(queue'[r]), i < j
              PROVE  queue'[r][i].stamp <= queue'[r][j].stamp
          <5>1. i + 1 < j + 1
            BY <4>4
          <5>. QED BY <2>0, <2>2, <3>1, <5>1 DEF QueueOK
        <4>. QED BY <2>2, <4>1, <4>2, <4>3, <4>4 DEF QueueOK
      <3>4. HistoryOK(q)'
        <4>1. ASSUME NEW d \in history'[r]
              PROVE  /\ d.revision <= revision[r] - Len(queue'[r]) + 1
                     /\ d.revision <= revision[r]
                     /\ d.announced = Kind[d.revision].announced
                     /\ d.working = Kind[d.revision].working
          <5>1. d \in Event
            BY DEF TablesSound, TablesTyped
          <5>2. d.revision \in Nat
            BY <5>1, PersistenceAssumption DEF Event
          <5>3. d.revision <= revision[r] - Len(queue[r]) + 1
            BY <2>0, <2>2 DEF HistoryNext
          <5>4. Len(queue'[r]) = Len(queue[r]) - 1
            BY <3>1
          <5>5. d.revision <= revision[r] - Len(queue'[r]) + 1
            BY <3>2, <5>2, <5>3, <5>4
          <5>. QED BY <2>0, <2>2, <5>5 DEF HistoryNext
        <4>. QED BY <2>2, <4>1 DEF HistoryOK
      <3>5. StampsOK(q)'
        BY <2>0, <2>2, <3>1 DEF StampsOK, StampsNext
      <3>. QED BY <2>2, <3>1, <3>3, <3>4, <3>5
    <2>3. queue'[q] = queue[q] \/ (q = r /\ Shortened(r))
      BY ShortenedQueue DEF Inv
    <2>. QED BY <2>1, <2>2, <2>3
  <1>5. StoreInv'
    BY <1>1, <1>3, <1>4 DEF StoreInv
  <1>6. SentInOrder'
    BY <1>1, <1>4, OrderKept
  <1>7. RowsOK' /\ \A q \in Runs : WorkerOK(q)'
    BY <1>1, RowsStayOK, WorkersUndisturbed
  <1>. QED BY <1>5, <1>6, <1>7 DEF Inv, DeliveryInv

LEMMA PersistStep ==
  ASSUME Inv, NEW r \in Runs, Persist(r) \/ GiveUp(r), UNCHANGED workerVars
  PROVE  Inv' /\ RowsAdded
  <1>. USE DEF workerVars, Leaves, Shortened
  <1>1. StoreInv /\ tries \in [Runs -> Nat]
    BY DEF Inv, StoreInv, TypeOK
  <1>2. CASE Persist(r)
    <2>1. TablesSound
      BY <1>1, <1>2, CommitSound, SameTables DEF Persist
    <2>2. UNCHANGED queue \/ Shortened(r)
      BY <1>2 DEF Persist, Repeats
    <2>3. tries' \in [Runs -> Nat]
      BY <1>1, <1>2 DEF Persist, Repeats
    <2>4. queue[r] # <<>> /\ UNCHANGED <<life, revision, changes, stamp, worker, claimed, age>>
      BY <1>2 DEF Persist
    <2>5. RowsAdded
      BY <2>1 DEF TablesSound
    <2>. QED BY <2>1, <2>2, <2>3, <2>4, <2>5, AttemptStep
  <1>3. CASE GiveUp(r)
    <2>1. TablesSound
      BY <1>1, <1>3, SameTables DEF GiveUp
    <2>2. Shortened(r) /\ tries' \in [Runs -> Nat]
          /\ UNCHANGED <<life, revision, changes, stamp, worker, claimed, age>>
      BY <1>1, <1>3 DEF GiveUp
    <2>3. RowsAdded
      BY <2>1 DEF TablesSound
    <2>. QED BY <1>3, <2>1, <2>2, <2>3, AttemptStep DEF GiveUp
  <1>. QED BY <1>2, <1>3

LEMMA AcceptStep ==
  ASSUME Inv, NEW r \in Runs, Accept(r), UNCHANGED workerVars
  PROVE  Inv' /\ RowsAdded
  <1>. USE DEF Accept, workerVars, tables
  <1>. DEFINE e == [revision |-> revision[r] + 1, stamp |-> stamp',
                    announced |-> Kind[revision[r] + 1].announced,
                    working |-> Kind[revision[r] + 1].working]
  <1>1. TypeOK /\ StoredTogether /\ \A q \in Runs : QueueOK(q) /\ HistoryOK(q) /\ StampsOK(q)
    BY DEF Inv, StoreInv
  <1>2. /\ queue \in [Runs -> Seq(Event)] /\ revision \in [Runs -> Nat]
        /\ changes \in 0..MaxRevision /\ stamp \in 0..MaxStamp /\ changes < MaxRevision
        /\ revision[r] <= changes
    BY <1>1 DEF TypeOK, QueueOK
  <1>3. stamp' \in 0..MaxStamp /\ stamp <= stamp' /\ stamp \in Nat /\ stamp' \in Nat
    BY <1>2, PersistenceAssumption
  <1>4. /\ revision[r] + 1 \in 1..MaxRevision /\ changes' \in 0..MaxRevision
        /\ changes' = changes + 1
    BY <1>2, PersistenceAssumption
  <1>5. e \in Event
    BY <1>3, <1>4, KindAssumption DEF Event
  <1>6. queue' = [queue EXCEPT ![r] = Append(queue[r], e)]
        /\ revision' = [revision EXCEPT ![r] = revision[r] + 1]
    OBVIOUS
  <1>7. /\ e.revision = revision[r] + 1 /\ e.stamp = stamp'
        /\ e.announced = Kind[e.revision].announced /\ e.working = Kind[e.revision].working
    OBVIOUS
  <1>. HIDE DEF e
  <1>8. TypeOK'
    <2>1. queue' \in [Runs -> Seq(Event)] /\ revision' \in [Runs -> Nat]
      BY <1>2, <1>5, <1>6
    <2>. QED BY <1>1, <1>3, <1>4, <2>1 DEF TypeOK
  <1>9. RowsAdded /\ StoredTogether'
    BY <1>1 DEF RowsAdded, StoredTogether
  <1>10. /\ Len(queue[r]) \in Nat /\ Len(queue'[r]) = Len(queue[r]) + 1
         /\ queue'[r][Len(queue[r]) + 1] = e
         /\ \A i \in 1..Len(queue[r]) : queue'[r][i] = queue[r][i]
         /\ revision'[r] = revision[r] + 1
    <2>1. queue[r] \in Seq(Event) /\ queue'[r] = Append(queue[r], e)
      BY <1>2, <1>6
    <2>. QED BY <1>2, <1>5, <1>6, <2>1
  <1>11. \A q \in Runs \ {r} : queue'[q] = queue[q] /\ revision'[q] = revision[q]
    BY <1>2, <1>6
  <1>12. \A i \in 1..Len(queue'[r]) : i \in 1..Len(queue[r]) \/ i = Len(queue[r]) + 1
    BY <1>10
  <1>13. ASSUME NEW q \in Runs PROVE QueueOK(q)'
    <2>1. QueueOK(q) /\ \A i \in 1..Len(queue[q]) : queue[q][i].stamp \in Nat
      BY <1>1, QueueFacts
    <2>2. revision[q] \in Nat /\ Len(queue[q]) \in Nat
      BY <1>1, QueueFacts
    <2>3. CASE q # r
      <3>1. queue'[q] = queue[q] /\ revision'[q] = revision[q]
        BY <1>11, <2>3
      <3>2. \A i \in 1..Len(queue[q]) : queue[q][i].stamp <= stamp'
        BY <1>3, <2>1 DEF QueueOK
      <3>3. revision[q] <= changes'
        BY <1>2, <1>4, <2>1, <2>2 DEF QueueOK
      <3>. QED BY <2>1, <3>1, <3>2, <3>3 DEF QueueOK
    <2>4. CASE q = r
      <3>1. revision'[r] <= changes' /\ Len(queue'[r]) <= revision'[r]
        BY <1>2, <1>4, <1>10, <2>1, <2>2, <2>4 DEF QueueOK
      <3>2. ASSUME NEW i \in 1..Len(queue'[r])
            PROVE  /\ queue'[r][i].revision = revision'[r] - Len(queue'[r]) + i
                   /\ queue'[r][i].announced = Kind[queue'[r][i].revision].announced
                   /\ queue'[r][i].working = Kind[queue'[r][i].revision].working
                   /\ queue'[r][i].stamp <= stamp'
        <4>. DEFINE last == revision[r]
                    len == Len(queue[r])
        <4>1. revision'[r] - Len(queue'[r]) = last - len /\ last \in Int /\ len \in Int
          <5>1. last \in Int /\ len \in Int /\ revision'[r] = last + 1 /\ Len(queue'[r]) = len + 1
            BY <1>10, <2>2, <2>4
          <5>. HIDE DEF last, len
          <5>. QED BY <5>1
        <4>2. CASE i \in 1..Len(queue[r])
          <5>1. queue'[r][i] = queue[r][i] /\ queue[r][i].stamp \in Nat
                /\ queue[r][i].stamp <= stamp
            BY <1>10, <2>1, <2>4, <4>2 DEF QueueOK
          <5>2. queue[r][i].revision = last - len + i
            BY <2>1, <2>4, <4>2 DEF QueueOK
          <5>3. queue'[r][i].stamp <= stamp'
            BY <1>3, <5>1
          <5>. QED BY <2>1, <2>4, <4>1, <4>2, <5>1, <5>2, <5>3 DEF QueueOK
        <4>3. CASE i = Len(queue[r]) + 1
          <5>1. queue'[r][i] = e /\ i = len + 1 /\ e.revision = last + 1
            BY <1>7, <1>10, <4>3
          <5>. HIDE DEF last, len
          <5>2. last + 1 = last - len + i
            BY <4>1, <5>1
          <5>3. queue'[r][i].revision = revision'[r] - Len(queue'[r]) + i
            BY <4>1, <5>1, <5>2
          <5>4. queue'[r][i].stamp <= stamp'
            BY <1>3, <1>7, <5>1
          <5>. QED BY <1>7, <5>1, <5>3, <5>4
        <4>. QED BY <1>12, <4>2, <4>3
      <3>3. ASSUME NEW i \in 1..Len(queue'[r]), NEW j \in 1..Len(queue'[r]), i < j
            PROVE  queue'[r][i].stamp <= queue'[r][j].stamp
        <4>1. i \in 1..Len(queue[r])
          BY <1>10, <3>3
        <4>2. queue'[r][i] = queue[r][i] /\ queue[r][i].stamp \in Nat /\ queue[r][i].stamp <= stamp
          BY <1>10, <2>1, <2>4, <4>1 DEF QueueOK
        <4>3. CASE j \in 1..Len(queue[r])
          BY <1>10, <2>1, <2>4, <3>3, <4>1, <4>3 DEF QueueOK
        <4>4. CASE j = Len(queue[r]) + 1
          BY <1>3, <1>7, <1>10, <4>2, <4>4
        <4>. QED BY <1>12, <4>3, <4>4
      <3>. QED BY <2>4, <3>1, <3>2, <3>3 DEF QueueOK
    <2>. QED BY <2>3, <2>4
  <1>14. ASSUME NEW q \in Runs PROVE HistoryOK(q)'
    <2>1. HistoryOK(q)
      BY <1>1
    <2>2. CASE q # r
      BY <1>11, <2>1, <2>2 DEF HistoryOK
    <2>3. CASE q = r
      <3>1. ASSUME NEW d \in history[r]
            PROVE  d.revision <= revision'[r] - Len(queue'[r]) + 1 /\ d.revision <= revision'[r]
        <4>. DEFINE last == revision[r]
                    len == Len(queue[r])
                    that == d.revision
        <4>1. /\ last \in Int /\ len \in Int /\ that \in Int
              /\ revision'[r] = last + 1 /\ Len(queue'[r]) = len + 1
              /\ that <= last - len + 1 /\ that <= last
          BY <1>1, <1>10, <2>1, <2>3, QueueFacts DEF HistoryOK
        <4>. HIDE DEF last, len, that
        <4>2. that <= (last + 1) - (len + 1) + 1 /\ that <= last + 1
          BY <4>1
        <4>. QED BY <4>1, <4>2 DEF that
      <3>. QED BY <2>1, <2>3, <3>1 DEF HistoryOK
    <2>. QED BY <2>2, <2>3
  <1>15. ASSUME NEW q \in Runs PROVE StampsOK(q)'
    <2>1. StampsOK(q)
      BY <1>1
    <2>2. \A v \in 1..MaxRevision : outbox[<<q, v>>].stamp \in Nat
      BY <1>1, MessageFacts DEF Messages
    <2>3. \A v \in 1..MaxRevision : Stored(<<q, v>>) => outbox[<<q, v>>].stamp <= stamp'
      BY <1>3, <2>1, <2>2 DEF StampsOK
    <2>4. ASSUME NEW u \in 1..MaxRevision, NEW i \in 1..Len(queue'[q]), Stored(<<q, u>>)
          PROVE  outbox[<<q, u>>].stamp <= queue'[q][i].stamp
      <3>1. CASE i \in 1..Len(queue[q]) /\ queue'[q][i] = queue[q][i]
        BY <2>1, <2>4, <3>1 DEF StampsOK
      <3>2. CASE q = r /\ i = Len(queue[r]) + 1
        BY <1>7, <1>10, <2>3, <2>4, <3>2
      <3>. QED BY <1>10, <1>11, <1>12, <3>1, <3>2
    <2>. QED BY <2>1, <2>3, <2>4 DEF StampsOK, Stored
  <1>16. StoreInv'
    BY <1>8, <1>9, <1>13, <1>14, <1>15 DEF StoreInv
  <1>17. SentInOrder'
    <2>1. ASSUME NEW q \in Runs, NEW v \in 1..MaxRevision, v <= revision[q],
                 \A i \in 1..Len(queue[q]) : queue[q][i].revision >= v,
                 NEW i \in 1..Len(queue'[q])
          PROVE  queue'[q][i].revision >= v
      <3>1. CASE i \in 1..Len(queue[q]) /\ queue'[q][i] = queue[q][i]
        BY <2>1, <3>1
      <3>2. CASE q = r /\ i = Len(queue[r]) + 1
        BY <1>2, <1>7, <1>10, <2>1, <3>2
      <3>. QED BY <1>10, <1>11, <1>12, <3>1, <3>2
    <2>. QED BY <1>9, <2>1, OrderKept
  <1>18. RowsOK' /\ \A q \in Runs : WorkerOK(q)'
    BY <1>9, RowsStayOK, WorkersUndisturbed
  <1>. QED BY <1>9, <1>16, <1>17, <1>18 DEF Inv, DeliveryInv

----------------------------------------------------------------------------
(* The session                                                             *)

LEMMA LifetimeStep ==
  ASSUME Inv, NEW r \in Runs, Lifetime(r), UNCHANGED <<tables, failures>>
  PROVE  Inv' /\ RowsAdded
  <1>. USE DEF Lifetime, RequestClose, CloseSubscriber, Becomes, tables, subscriberVars, workerVars
  <1>1. TypeOK'
    BY DEF Inv, StoreInv, TypeOK
  <1>2. RowsKept /\ RowsAdded
    BY DEF RowsKept, RowsAdded
  <1>3. StoreInv'
    BY <1>1, <1>2, StoreKept DEF Inv
  <1>4. RowsOK' /\ SentInOrder'
    BY DEF Inv, DeliveryInv, RowsOK, SentInOrder, Open
  <1>5. ASSUME NEW q \in Runs PROVE WorkerOK(q)'
    <2>1. life'[q] = "gone" => life[q] = "gone"
      BY DEF Inv, StoreInv, TypeOK
    <2>. QED BY <2>1 DEF Inv, DeliveryInv, WorkerOK
  <1>. QED BY <1>2, <1>3, <1>4, <1>5 DEF Inv, DeliveryInv

LEMMA EndsStep ==
  ASSUME Inv, NEW r \in Runs, Ends(r), UNCHANGED <<tables, failures>>
  PROVE  Inv' /\ RowsAdded
  <1>. USE DEF Ends, ClosePool, Crash, Becomes, Forgets, Goes, tables
  <1>1. TypeOK'
    <2>1. TypeOK
      BY DEF Inv, StoreInv
    <2>2. queue' \in [Runs -> Seq(Event)]
      <3>1. <<>> \in Seq(Event)
        OBVIOUS
      <3>. QED BY <2>1, <3>1 DEF TypeOK
    <2>3. life' \in [Runs -> {"live", "stopping", "flushing", "closing", "gone"}]
      BY <2>1 DEF TypeOK
    <2>4. tries' \in [Runs -> Nat] /\ age' \in [Runs -> Nat]
      BY <2>1 DEF TypeOK
    <2>5. /\ worker' \in [Runs ->
               {"polling", "claiming", "sending", "marking", "failing", "ended"}]
          /\ claimed' \in [Runs -> {Nothing} \union (Messages \X (1..MaxAttempts))]
      BY <2>1 DEF TypeOK
    <2>. QED BY <2>1, <2>2, <2>3, <2>4, <2>5 DEF TypeOK
  <1>2. RowsAdded
    BY DEF RowsAdded
  <1>3. \A q \in Runs : queue'[q] = queue[q] \/ queue'[q] = <<>>
    BY DEF Inv, StoreInv, TypeOK
  <1>4. ASSUME NEW q \in Runs PROVE QueueOK(q)' /\ HistoryOK(q)' /\ StampsOK(q)'
    <2>1. QueueOK(q) /\ HistoryOK(q) /\ StampsOK(q)
      BY DEF Inv, StoreInv
    <2>2. CASE queue'[q] = queue[q]
      BY <2>1, <2>2 DEF QueueOK, HistoryOK, StampsOK, Stored
    <2>3. CASE queue'[q] = <<>>
      <3>1. Len(queue'[q]) = 0 /\ revision[q] \in Nat
        BY <2>3, QueueFacts DEF Inv, StoreInv
      <3>2. \A d \in history[q] : d.revision \in Nat /\ d.revision <= revision[q] - 0 + 1
        BY <2>1, <3>1, QueueFacts DEF HistoryOK, Inv, StoreInv
      <3>. QED BY <2>1, <3>1, <3>2 DEF QueueOK, HistoryOK, StampsOK, Stored
    <2>. QED BY <1>3, <2>2, <2>3
  <1>5. StoreInv'
    BY <1>1, <1>4 DEF Inv, StoreInv, StoredTogether
  <1>6. SentInOrder'
    <2>1. \A q \in Runs : worker'[q] = "sending" => worker[q] = "sending" /\ claimed'[q] = claimed[q]
      BY DEF Inv, StoreInv, TypeOK
    <2>. QED BY <1>2, <1>3, <2>1, OrderKept
  <1>7. RowsOK'
    BY <1>2, RowsStayOK
  <1>8. ASSUME NEW q \in Runs PROVE WorkerOK(q)'
    <2>1. CASE q = r
      BY <2>1 DEF Inv, StoreInv, TypeOK, WorkerOK
    <2>2. CASE q # r
      <3>1. life'[q] = life[q] /\ worker'[q] = worker[q] /\ claimed'[q] = claimed[q] /\ age'[q] = age[q]
        BY <2>2 DEF Inv, StoreInv, TypeOK
      <3>. QED BY <3>1 DEF Inv, DeliveryInv, WorkerOK
    <2>. QED BY <2>1, <2>2
  <1>. QED BY <1>2, <1>5, <1>6, <1>7, <1>8 DEF Inv, DeliveryInv

LEMMA SessionStep == ASSUME Inv, NEW r \in Runs, Session(r) PROVE Inv' /\ RowsAdded
  BY PersistStep, AcceptStep, LifetimeStep, EndsStep DEF Session, Subscriber

LEMMA StutterStep == ASSUME Inv, UNCHANGED vars PROVE Inv'
  <1>. USE DEF vars, persistenceVars, subscriberVars, tables, workerVars
  <1>1. TypeOK' /\ RowsKept
    BY DEF Inv, StoreInv, TypeOK, RowsKept
  <1>2. StoreInv'
    BY <1>1, StoreKept DEF Inv
  <1>3. DeliveryInv'
    BY DEF Inv, DeliveryInv, RowsOK, SentInOrder, Open, WorkerOK
  <1>. QED BY <1>2, <1>3 DEF Inv

LEMMA InvStep == ASSUME Inv, [Next]_vars PROVE Inv'
  BY DeliveryStep, SessionStep, StutterStep DEF Next, Delivery

----------------------------------------------------------------------------
(* Theorems                                                                *)

\* The inductive invariant holds in every behaviour of the subscribers, the
\* dispatchers and the sessions.
THEOREM Invariance == Spec => []Inv
  <1>1. Init => Inv
    BY InitInv
  <1>2. Inv /\ [Next]_vars => Inv'
    BY InvStep
  <1>. QED BY <1>1, <1>2, PTL DEF Spec

\* The rows, the queues and the claims keep their types; no message is tried
\* more than MaxAttempts times.
THEOREM TypeCorrect == Spec => []TypeOK
  <1>1. Inv => TypeOK
    BY DEF Inv, StoreInv
  <1>. QED BY <1>1, Invariance, PTL

\* Snapshot, checkpoint and notification of a change are stored together with
\* it, and stay those of the latest change, for all retries and lost answers.
THEOREM StoredTogetherHolds == Spec => []StoredTogether
  <1>1. Inv => StoredTogether
    BY DEF Inv, StoreInv
  <1>. QED BY <1>1, Invariance, PTL

\* The notifications of a run are sent in the order of its changes.
THEOREM SentInOrderHolds == Spec => []SentInOrder
  <1>1. Inv => SentInOrder
    BY DEF Inv, DeliveryInv
  <1>. QED BY <1>1, Invariance, PTL

\* Because the lease outlasts the wait for the claim lock and the send, no
\* notification is being sent by two workers.
THEOREM SentByOneHolds == Spec => []SentByOne
  <1>1. Inv => SentByOne
    BY DEF Inv, DeliveryInv, WorkerOK, SentByOne
  <1>. QED BY <1>1, Invariance, PTL

\* Every claim is counted in the row, and a row whose count is used up is not
\* claimed.
THEOREM ClaimsBoundedHolds == Spec => []ClaimsBounded
  <1>1. Inv => ClaimsBounded
    BY OutboxAssumption DEF Inv, StoreInv, TypeOK, Row, ClaimsBounded
  <1>. QED BY <1>1, Invariance, PTL

\* No step of a worker, a subscriber, a session or the clock touches a row that
\* is delivered or failed.
THEOREM SettledIsFinalHolds == Spec => SettledIsFinal
  <1>1. ASSUME Inv, [Next]_vars
        PROVE  [\A m \in Messages : Settled(m) => outbox'[m] = outbox[m]]_vars
    <2>1. CASE Delivery
      BY <1>1, <2>1, DeliverySound DEF Sound, SettledKept
    <2>2. ASSUME NEW r \in Runs, Session(r)
          PROVE  \A m \in Messages : Settled(m) => outbox'[m] = outbox[m]
      BY <1>1, <2>2, SessionStep DEF RowsAdded, Settled
    <2>. QED BY <1>1, <2>1, <2>2 DEF Next, Delivery
  <1>. QED BY <1>1, Invariance, PTL DEF Spec, SettledIsFinal

----------------------------------------------------------------------------
(* The life of a row                                                       *)

SameAttempts(m) == outbox'[m].attempts = outbox[m].attempts

RowUnmoved(m) ==
  /\ SameAttempts(m)
  /\ outbox'[m].status = outbox[m].status /\ outbox'[m].owner = outbox[m].owner

RowEnters(m) ==
  /\ outbox[m].status = "none"
  /\ outbox'[m].status = "pending" /\ outbox'[m].attempts = 0

RowClaimed(m) ==
  \E r \in Runs :
    /\ worker[r] = "claiming" /\ Open(m) /\ Available(m, age[r]) /\ ~Exhausted(m)
    /\ outbox'[m].status = "delivering" /\ outbox'[m].owner = r
    /\ outbox'[m].attempts = outbox[m].attempts + 1

RowDelivered(m) ==
  \E r \in Runs :
    /\ worker[r] = "marking" /\ claimed[r][1] = m /\ Owns(r, m)
    /\ outbox'[m].status = "delivered" /\ SameAttempts(m)

RowPutBack(m) ==
  \E r \in Runs :
    /\ worker[r] = "failing" /\ claimed[r][1] = m /\ Owns(r, m) /\ ~Exhausted(m)
    /\ outbox'[m].status = "pending" /\ SameAttempts(m)

RowGivenUp(m) ==
  /\ Open(m) /\ Exhausted(m)
  /\ outbox'[m].status = "failed" /\ SameAttempts(m)

RowMoves(m) ==
  \/ RowUnmoved(m) \/ RowEnters(m) \/ RowClaimed(m)
  \/ RowDelivered(m) \/ RowPutBack(m) \/ RowGivenUp(m)

\* How many more times the status, the attempts or the owner of a row change.
RowLeft(m) ==
  LET remaining == 2 * (MaxAttempts - outbox[m].attempts) IN
  IF outbox[m].status = "none" THEN 2 * MaxAttempts + 2
  ELSE IF outbox[m].status = "pending" THEN remaining + 1
  ELSE IF outbox[m].status = "delivering" THEN remaining + 2
  ELSE 0

RowsAdvance ==
  \A m \in Messages :
    /\ RowMoves(m)
    /\ RowLeft(m)' >= 0
    /\ RowUnmoved(m) \/ RowLeft(m)' < RowLeft(m)

LEMMA WrittenRow ==
  ASSUME Inv, NEW m \in Messages, NEW status, Settles(m, status)
  PROVE  /\ \A n \in Messages \ {m} : RowUnmoved(n)
         /\ outbox'[m].status = status /\ SameAttempts(m)
  <1>1. outbox \in [Messages -> Row] /\ outbox[m] \in Row
    BY DEF Inv, StoreInv, TypeOK
  <1>. DEFINE row == [outbox[m] EXCEPT !.status = status, !.due = 0, !.owner = Nobody]
  <1>2. row.status = status /\ row.attempts = outbox[m].attempts
    BY <1>1, Zenon DEF Row
  <1>3. outbox' = [outbox EXCEPT ![m] = row]
    BY <1>1 DEF Settles
  <1>. HIDE DEF row
  <1>. QED BY <1>1, <1>2, <1>3 DEF RowUnmoved, SameAttempts

LEMMA SameRows ==
  ASSUME UNCHANGED outbox
  PROVE  \A m \in Messages : RowUnmoved(m)
  BY DEF RowUnmoved, SameAttempts

LEMMA ClaimMoves ==
  ASSUME Inv, NEW r \in Runs, Claim(r), NEW n \in Messages
  PROVE  RowMoves(n)
  <1>1. worker[r] = "claiming"
    BY DEF Claim
  <1>2. CASE UNCHANGED outbox
    BY <1>2, SameRows DEF RowMoves
  <1>3. ASSUME NEW m \in Heads, Exhausted(m), Settles(m, "failed")
        PROVE  RowMoves(n)
    <2>1. m \in Messages /\ Open(m)
      BY DEF Heads
    <2>. QED BY <1>3, <2>1, WrittenRow DEF RowMoves, RowGivenUp
  <1>4. ASSUME NEW m \in Heads, Available(m, age[r]), ~Exhausted(m), Takes(r, m)
        PROVE  RowMoves(n)
    <2>. DEFINE row == [outbox[m] EXCEPT !.status = "delivering",
                                         !.attempts = outbox[m].attempts + 1,
                                         !.due = Lease - age[r], !.owner = r]
    <2>1. m \in Messages /\ Open(m)
      BY DEF Heads
    <2>2. outbox \in [Messages -> Row] /\ outbox[m] \in Row
      BY <2>1 DEF Inv, StoreInv, TypeOK
    <2>3. /\ row.status = "delivering" /\ row.owner = r
          /\ row.attempts = outbox[m].attempts + 1
      BY <2>2, Zenon DEF Row
    <2>4. outbox' = [outbox EXCEPT ![m] = row]
      BY <1>4 DEF Takes
    <2>. HIDE DEF row
    <2>5. CASE n = m
      BY <1>1, <1>4, <2>1, <2>2, <2>3, <2>4, <2>5 DEF RowMoves, RowClaimed
    <2>6. CASE n # m
      BY <2>2, <2>4, <2>6 DEF RowMoves, RowUnmoved, SameAttempts
    <2>. QED BY <2>5, <2>6
  <1>. QED BY <1>2, <1>3, <1>4 DEF Claim

LEMMA MarkMoves ==
  ASSUME Inv, NEW r \in Runs, MarkDelivered(r) \/ MarkFailed(r), NEW n \in Messages
  PROVE  RowMoves(n)
  <1>. DEFINE m == claimed[r][1]
  <1>1. m \in Messages
    BY ClaimedFacts DEF MarkDelivered, MarkFailed, Inv, StoreInv, DeliveryInv, WorkerOK
  <1>2. CASE MarkDelivered(r)
    <2>1. worker[r] = "marking"
          /\ (UNCHANGED outbox \/ (Owns(r, m) /\ Settles(m, "delivered")))
      BY <1>2 DEF MarkDelivered
    <2>2. CASE UNCHANGED outbox
      BY <2>2, SameRows DEF RowMoves
    <2>3. CASE Owns(r, m) /\ Settles(m, "delivered")
      BY <1>1, <2>1, <2>3, WrittenRow DEF RowMoves, RowDelivered
    <2>. QED BY <2>1, <2>2, <2>3
  <1>3. CASE MarkFailed(r)
    <2>. DEFINE row == [outbox[m] EXCEPT !.status = "pending",
                          !.due = Delay(claimed[r][2]), !.owner = Nobody]
    <2>1. worker[r] = "failing"
          /\ (UNCHANGED outbox \/ (Owns(r, m) /\ Postpones(r, m)))
      BY <1>3 DEF MarkFailed, Postpones
    <2>2. CASE UNCHANGED outbox
      BY <2>2, SameRows DEF RowMoves
    <2>3. CASE Owns(r, m) /\ Exhausted(m) /\ Postpones(r, m)
      <3>1. Open(m) /\ Settles(m, "failed")
        BY <2>3 DEF Postpones, Owns, Open
      <3>. QED BY <1>1, <2>3, <3>1, WrittenRow DEF RowMoves, RowGivenUp
    <2>4. CASE Owns(r, m) /\ ~Exhausted(m) /\ Postpones(r, m)
      <3>1. outbox \in [Messages -> Row] /\ outbox[m] \in Row
        BY <1>1 DEF Inv, StoreInv, TypeOK
      <3>2. row.status = "pending" /\ row.attempts = outbox[m].attempts
        BY <3>1, Zenon DEF Row
      <3>3. outbox' = [outbox EXCEPT ![m] = row]
        BY <2>4 DEF Postpones
      <3>. HIDE DEF row
      <3>4. CASE n = m
        BY <1>1, <2>1, <2>4, <3>1, <3>2, <3>3, <3>4
        DEF RowMoves, RowPutBack, SameAttempts
      <3>5. CASE n # m
        BY <1>1, <3>1, <3>3, <3>5 DEF RowMoves, RowUnmoved, SameAttempts
      <3>. QED BY <3>4, <3>5
    <2>. QED BY <2>1, <2>2, <2>3, <2>4
  <1>. QED BY <1>2, <1>3

LEMMA TickMoves ==
  ASSUME Inv, Tick, NEW m \in Messages
  PROVE  RowMoves(m)
  <1>1. outbox[m] \in Row
    BY DEF Inv, StoreInv, TypeOK
  <1>2. \/ outbox'[m] = outbox[m]
        \/ outbox'[m] = [outbox[m] EXCEPT !.due = @ - 1]
    BY DEF Tick
  <1>. QED BY <1>1, <1>2 DEF RowMoves, RowUnmoved, SameAttempts, Row

LEMMA RowOnlyMoves ==
  ASSUME Inv, [Next]_vars, NEW m \in Messages
  PROVE  RowMoves(m)
  <1>1. ASSUME NEW r \in Runs, Ask(r) \/ Send(r) \/ EndLoop(r)
        PROVE  RowMoves(m)
    BY <1>1, SameRows DEF Ask, Send, EndLoop, persistenceVars, tables, RowMoves
  <1>2. ASSUME NEW r \in Runs, Dispatcher(r)
        PROVE  RowMoves(m)
    BY <1>1, <1>2, ClaimMoves, MarkMoves DEF Dispatcher
  <1>3. ASSUME NEW r \in Runs, Session(r)
        PROVE  RowMoves(m)
    <2>1. RowsAdded
      BY <1>3, SessionStep
    <2>. QED BY <2>1 DEF RowsAdded, RowMoves, RowUnmoved, SameAttempts, RowEnters
  <1>4. CASE UNCHANGED vars
    BY <1>4, SameRows DEF vars, persistenceVars, tables, RowMoves
  <1>. QED BY <1>2, <1>3, <1>4, TickMoves DEF Next

LEMMA RowOnlyAdvances ==
  ASSUME Inv, Inv', [Next]_vars, NEW m \in Messages
  PROVE  RowMoves(m) /\ RowLeft(m)' >= 0 /\ (RowUnmoved(m) \/ RowLeft(m)' < RowLeft(m))
  <1>1. RowMoves(m)
    BY RowOnlyMoves
  <1>. DEFINE k == outbox[m].attempts
              l == outbox'[m].attempts
  <1>2. k \in 0..MaxAttempts /\ l \in 0..MaxAttempts /\ MaxAttempts \in Nat
    BY OutboxAssumption DEF Inv, StoreInv, TypeOK, Row
  <1>3. /\ outbox[m].status = "none" => RowLeft(m) = 2 * MaxAttempts + 2
        /\ outbox[m].status = "pending" => RowLeft(m) = 2 * (MaxAttempts - k) + 1
        /\ outbox[m].status = "delivering" => RowLeft(m) = 2 * (MaxAttempts - k) + 2
    BY DEF RowLeft
  <1>4. /\ outbox'[m].status = "none" => RowLeft(m)' = 2 * MaxAttempts + 2
        /\ outbox'[m].status = "pending" => RowLeft(m)' = 2 * (MaxAttempts - l) + 1
        /\ outbox'[m].status = "delivering" => RowLeft(m)' = 2 * (MaxAttempts - l) + 2
        /\ outbox'[m].status \in {"delivered", "failed"} => RowLeft(m)' = 0
    BY DEF RowLeft
  <1>5. outbox'[m].status \in {"none", "pending", "delivering", "delivered", "failed"}
    BY DEF Inv, StoreInv, TypeOK, Row
  <1>. HIDE DEF RowLeft, k, l
  <1>6. RowLeft(m)' >= 0
    BY <1>2, <1>4, <1>5
  <1>7. CASE RowEnters(m)
    BY <1>1, <1>2, <1>3, <1>4, <1>6, <1>7 DEF RowEnters, l
  <1>8. CASE RowClaimed(m)
    <2>1. outbox'[m].status = "delivering" /\ l = k + 1 /\ Open(m)
      BY <1>8 DEF RowClaimed, k, l
    <2>. QED BY <1>2, <1>3, <1>4, <1>6, <1>1, <2>1 DEF Open
  <1>9. CASE RowDelivered(m)
    <2>1. outbox'[m].status = "delivered" /\ outbox[m].status = "delivering"
      BY <1>9 DEF RowDelivered, Owns
    <2>. QED BY <1>1, <1>2, <1>3, <1>4, <1>6, <2>1
  <1>10. CASE RowPutBack(m)
    <2>1. outbox'[m].status = "pending" /\ outbox[m].status = "delivering" /\ l = k
      BY <1>10 DEF RowPutBack, Owns, SameAttempts, k, l
    <2>. QED BY <1>1, <1>2, <1>3, <1>4, <1>6, <2>1
  <1>11. CASE RowGivenUp(m)
    <2>1. outbox'[m].status = "failed" /\ Open(m)
      BY <1>11 DEF RowGivenUp
    <2>. QED BY <1>1, <1>2, <1>3, <1>4, <1>6, <2>1 DEF Open
  <1>. QED BY <1>1, <1>6, <1>7, <1>8, <1>9, <1>10, <1>11 DEF RowMoves

\* What a row goes through, whoever lives, dies or comes late: it is stored,
\* claimed by a worker it is free for, and delivered or put back only by the
\* worker that owns it; it is given up only after MaxAttempts attempts.  Every
\* such change brings it nearer to its end, of which there are 2 * MaxAttempts + 2
\* at most.
THEOREM RowsOnlyAdvance == Spec => [][RowsAdvance]_vars
  <1>1. Inv /\ Inv' /\ [Next]_vars => [RowsAdvance]_vars
    BY RowOnlyAdvances DEF RowsAdvance
  <1>. QED BY <1>1, Invariance, PTL DEF Spec

----------------------------------------------------------------------------
(* The Discord port: the inductive invariant, by where the send is         *)

\* Whatever is waited for ends within the total time, but for Lag.
TimerInBudget ==
  /\ point # "idle" => timer >= -Lag /\ elapsed + timer <= Budget
  /\ elapsed <= Budget + Lag

\* A wait is followed by another attempt; each attempt posts at most once.
RequestsLeft ==
  /\ point = "wait" => attempts < MaxRequests
  /\ posted <= attempts
  /\ point = "attempt" /\ ~taken => posted < attempts

\* What the server has, it has been posted.
TakenIsPosted == taken => posted > 0

\* A wait lasts for as long as silence was asked for, and the silence that is
\* left outside of a send is known to the next one.
WaitCoversSilence ==
  ~closed => /\ point = "idle" => askedIn <= allowedIn
             /\ point = "wait" => askedIn <= timer \/ askedIn = 0
             /\ point \in {"attempt", "body"} => askedIn = 0

PortInv ==
  /\ PortTypeOK /\ TimerInBudget /\ RequestsLeft
  /\ TakenIsPosted /\ ResolvedIsPosted /\ WaitCoversSilence

----------------------------------------------------------------------------
(* The Discord port: how a send goes on                                    *)

\* The send returns with an error.
Fails ==
  /\ point' = "idle" /\ result' \in Results \ {"sent"}
  /\ UNCHANGED <<elapsed, attempts, timer>>

\* A request goes out, with a timer within the total time.
Attempts(n, e) ==
  /\ point' = "attempt" /\ attempts' = n + 1 /\ elapsed' = e
  /\ timer' \in Nat /\ e + timer' <= Budget
  /\ UNCHANGED result

\* The send waits for as long as it was told, within the total time.
Waits(delay, n, e) ==
  /\ point' = "wait" /\ attempts' = n /\ elapsed' = e
  /\ timer' = delay /\ delay \in Nat /\ e + delay <= Budget
  /\ UNCHANGED result

\* With an attempt left, the loop does not run out of them: it ends in an
\* error or makes a request.
LEMMA LoopGoesOn ==
  ASSUME NEW n \in Nat, NEW e \in Nat, n < MaxRequests, Loop(n, e)
  PROVE  Fails \/ Attempts(n, e)
  <1>1. CASE e >= Budget
    BY <1>1, PortAssumption DEF Loop, Returns, Fails, Results
  <1>2. CASE e < Budget
    <2>1. Begins(n, e)
      BY <1>2, PortAssumption DEF Loop
    <2>2. Lesser(Timeout, Budget - e) \in Nat /\ e + Lesser(Timeout, Budget - e) <= Budget
      BY <1>2, PortAssumption DEF Lesser
    <2>. QED BY <2>1, <2>2 DEF Begins, Attempts
  <1>. QED BY <1>1, <1>2, PortAssumption

\* The same after a wait, if one is needed.
LEMMA WaitGoesOn ==
  ASSUME NEW n \in Nat, NEW e \in Nat, n < MaxRequests, NEW delay,
         WaitThenLoop(delay, n, e)
  PROVE  Fails \/ (delay = 0 /\ Attempts(n, e)) \/ Waits(delay, n, e)
  <1>1. CASE delay = 0
    BY <1>1, LoopGoesOn, PortAssumption DEF WaitThenLoop
  <1>2. CASE delay # 0 /\ delay > Budget - e
    BY <1>2, PortAssumption DEF WaitThenLoop, Returns, Fails, Results
  <1>3. CASE delay # 0 /\ ~(delay > Budget - e)
    BY <1>3, PortAssumption DEF WaitThenLoop, Waits
  <1>. QED BY <1>1, <1>2, <1>3

\* After a 429: an error, a request at once or the wait that was asked for.
LEMMA LimitedGoesOn ==
  ASSUME PortTypeOK, NEW delay, Limited(delay)
  PROVE  Fails \/ (/\ attempts < MaxRequests /\ delay # NoDelay
                   /\ \/ delay = 0 /\ Attempts(attempts, elapsed)
                      \/ Waits(delay, attempts, elapsed))
  <1>1. CASE elapsed >= Budget \/ delay = NoDelay \/ attempts >= MaxRequests
    BY <1>1 DEF Limited, Returns, Fails, Results
  <1>2. CASE ~(elapsed >= Budget \/ delay = NoDelay \/ attempts >= MaxRequests)
    BY <1>2, WaitGoesOn, PortAssumption DEF Limited, PortTypeOK
  <1>. QED BY <1>1, <1>2

\* After another failure: the error, or the next attempt after some wait.
LEMMA RetryGoesOn ==
  ASSUME PortTypeOK, NEW failure \in Results \ {"sent"}, RetriesOr(failure)
  PROVE  Fails \/ (/\ attempts < MaxRequests
                   /\ Attempts(attempts, elapsed) \/ \E d : Waits(d, attempts, elapsed))
  <1>1. CASE attempts >= MaxRequests
    BY <1>1 DEF RetriesOr, Returns, Fails
  <1>2. CASE ~(attempts >= MaxRequests)
    <2>1. PICK jitter \in 0..MaxJitter :
            WaitThenLoop(Backoff(attempts) + jitter, attempts, elapsed)
      BY <1>2 DEF RetriesOr
    <2>2. attempts < MaxRequests /\ attempts \in Nat /\ elapsed \in Nat
      BY <1>2, PortAssumption DEF PortTypeOK
    <2>. QED BY <2>1, <2>2, WaitGoesOn
  <1>. QED BY <1>1, <1>2

----------------------------------------------------------------------------
(* The Discord port: each step keeps the invariant                         *)

\* A failure leaves what has been posted and silences nothing.
LEMMA FailsKeeps ==
  ASSUME PortInv, Fails, taken' \in BOOLEAN, taken' => taken /\ posted' = posted,
         posted' \in {0, posted}, allowedIn' = allowedIn,
         closed' = closed, sends' \in 0..MaxSends,
         ~closed => askedIn' \in Nat /\ askedIn' <= allowedIn, askedIn' \in Nat
  PROVE  PortInv'
  <1>. USE PortAssumption
  <1>1. PortTypeOK'
    BY DEF PortInv, PortTypeOK, Fails, Results
  <1>2. TimerInBudget'
    <2>1. elapsed <= Budget + Lag
      BY DEF PortInv, TimerInBudget
    <2>. QED BY <2>1 DEF PortInv, Fails, TimerInBudget
  <1>3. RequestsLeft' /\ TakenIsPosted' /\ ResolvedIsPosted'
    BY DEF PortInv, Fails, RequestsLeft, TakenIsPosted, ResolvedIsPosted, PortTypeOK, Results
  <1>4. WaitCoversSilence'
    BY DEF PortInv, Fails, WaitCoversSilence, PortTypeOK
  <1>. QED BY <1>1, <1>2, <1>3, <1>4 DEF PortInv

\* A request begins with nothing taken and in no silence.
LEMMA AttemptsKeeps ==
  ASSUME PortInv, NEW n \in Nat, NEW e \in Nat, n < MaxRequests, Attempts(n, e),
         posted' \in {0, posted}, posted' <= n, taken' \in BOOLEAN, ~taken', allowedIn' = allowedIn,
         closed' = closed, sends' \in 0..MaxSends, askedIn' = 0
  PROVE  PortInv'
  <1>. USE PortAssumption
  <1>1. PortTypeOK'
    BY DEF PortInv, PortTypeOK, Attempts
  <1>2. TimerInBudget'
    BY DEF PortInv, Attempts, TimerInBudget
  <1>3. RequestsLeft' /\ TakenIsPosted' /\ ResolvedIsPosted'
    BY DEF PortInv, Attempts, RequestsLeft, TakenIsPosted, ResolvedIsPosted, PortTypeOK
  <1>4. WaitCoversSilence'
    BY DEF PortInv, Attempts, WaitCoversSilence, PortTypeOK
  <1>. QED BY <1>1, <1>2, <1>3, <1>4 DEF PortInv

\* A wait covers the silence that is asked for.
LEMMA WaitsKeeps ==
  ASSUME PortInv, NEW n \in Nat, NEW e \in Nat, n < MaxRequests, NEW d, Waits(d, n, e),
         posted' \in {0, posted}, posted' <= n, taken' => taken /\ posted' = posted,
         taken' \in BOOLEAN, allowedIn' = allowedIn, closed' = closed,
         sends' \in 0..MaxSends, askedIn' \in Nat, askedIn' <= d \/ closed
  PROVE  PortInv'
  <1>. USE PortAssumption
  <1>1. PortTypeOK'
    BY DEF PortInv, PortTypeOK, Waits
  <1>2. TimerInBudget'
    BY DEF PortInv, Waits, TimerInBudget
  <1>3. RequestsLeft' /\ TakenIsPosted' /\ ResolvedIsPosted'
    BY DEF PortInv, Waits, RequestsLeft, TakenIsPosted, ResolvedIsPosted, PortTypeOK
  <1>4. WaitCoversSilence'
    BY DEF PortInv, Waits, WaitCoversSilence, PortTypeOK
  <1>. QED BY <1>1, <1>2, <1>3, <1>4 DEF PortInv

LEMMA SendMessageKeeps ==
  ASSUME PortInv, SendMessage
  PROVE  PortInv'
  <1>1. Fails \/ (allowedIn = 0 /\ Attempts(0, 0)) \/ Waits(allowedIn, 0, 0)
    BY WaitGoesOn, PortAssumption DEF SendMessage
  <1>2. /\ askedIn' \in Nat /\ askedIn' <= allowedIn /\ allowedIn \in Nat
        /\ allowedIn' = allowedIn /\ closed' = closed /\ sends' \in 0..MaxSends
        /\ posted' \in {0, posted} /\ posted' <= 0
    BY PortAssumption DEF SendMessage, PortInv, PortTypeOK, WaitCoversSilence
  <1>6. taken' \in BOOLEAN /\ ~taken'
    BY DEF SendMessage
  <1>3. CASE Fails
    BY <1>2, <1>6, <1>3, FailsKeeps
  <1>4. CASE allowedIn = 0 /\ Attempts(0, 0)
    <2>1. askedIn' = 0
      BY <1>2, <1>4
    <2>. QED BY <1>2, <1>6, <1>4, <2>1, AttemptsKeeps, PortAssumption
  <1>5. CASE Waits(allowedIn, 0, 0)
    BY <1>2, <1>6, <1>5, WaitsKeeps, PortAssumption
  <1>. QED BY <1>1, <1>3, <1>4, <1>5

LEMMA CloseKeeps ==
  ASSUME PortInv, Close
  PROVE  PortInv'
  <1>. USE PortAssumption
  <1>1. /\ timer' \in Int /\ timer' <= timer /\ (timer >= -Lag => timer' >= -Lag)
    BY DEF PortInv, PortTypeOK, Close, Lesser
  <1>2. PortTypeOK'
    BY <1>1 DEF PortInv, PortTypeOK, Close
  <1>3. TimerInBudget'
    BY <1>1 DEF PortInv, PortTypeOK, Close, TimerInBudget
  <1>4. RequestsLeft' /\ TakenIsPosted' /\ ResolvedIsPosted' /\ WaitCoversSilence'
    BY DEF PortInv, Close, RequestsLeft, TakenIsPosted, ResolvedIsPosted, WaitCoversSilence
  <1>. QED BY <1>2, <1>3, <1>4 DEF PortInv

LEMMA ServerTakesKeeps ==
  ASSUME PortInv, ServerTakes
  PROVE  PortInv'
  <1>. USE PortAssumption
  <1>1. PortTypeOK'
    BY DEF PortInv, PortTypeOK, RequestsLeft, ServerTakes, sendVars
  <1>2. TimerInBudget' /\ WaitCoversSilence'
    BY DEF PortInv, PortTypeOK, ServerTakes, sendVars, TimerInBudget, WaitCoversSilence
  <1>3. RequestsLeft' /\ TakenIsPosted' /\ ResolvedIsPosted'
    BY DEF PortInv, PortTypeOK, ServerTakes, sendVars, RequestsLeft, TakenIsPosted, ResolvedIsPosted
  <1>. QED BY <1>1, <1>2, <1>3 DEF PortInv

\* What was posted is not more than the attempts made, whatever they became.
LEMMA Counted ==
  ASSUME PortInv
  PROVE  /\ attempts \in Nat /\ elapsed \in Nat /\ taken \in BOOLEAN /\ posted <= attempts
         /\ allowedIn \in Nat /\ askedIn \in Nat /\ sends \in 0..MaxSends
         /\ ~closed /\ point \in {"attempt", "body"} => askedIn = 0
  BY PortAssumption DEF PortInv, PortTypeOK, RequestsLeft, WaitCoversSilence

LEMMA SucceedsKeeps ==
  ASSUME PortInv, NEW d \in Delays \union {NoDelay}, Succeeds(d)
  PROVE  PortInv'
  <1>. USE PortAssumption
  <1>1. /\ point' = "idle" /\ result' = "sent"
        /\ UNCHANGED <<elapsed, attempts, timer, closed, sends, taken, posted>>
        /\ taken /\ point = "attempt" /\ ~closed
    BY DEF Succeeds, Returns, Answered, Attempting
  <1>2. allowedIn' \in Nat /\ askedIn' \in Nat /\ askedIn' <= allowedIn'
    BY <1>1, Counted DEF Succeeds, Records
  <1>3. PortTypeOK'
    BY <1>1, <1>2 DEF PortInv, PortTypeOK, Results
  <1>4. TimerInBudget' /\ WaitCoversSilence'
    BY <1>1, <1>2 DEF PortInv, TimerInBudget, WaitCoversSilence
  <1>5. RequestsLeft' /\ TakenIsPosted' /\ ResolvedIsPosted'
    BY <1>1 DEF PortInv, RequestsLeft, TakenIsPosted, ResolvedIsPosted
  <1>. QED BY <1>3, <1>4, <1>5 DEF PortInv

\* The answer of a 429, from the header or from the body.
LEMMA LimitedKeeps ==
  ASSUME PortInv, NEW d, point \in {"attempt", "body"}, ~closed,
         d \in Delays \union {NoDelay}, Limited(d), Asks(d), NextRequest,
         UNCHANGED <<allowedIn, closed, sends, posted>>
  PROVE  PortInv'
  <1>. USE PortAssumption, Counted
  <1>1. taken' = (taken /\ point' # "attempt")
    BY DEF NextRequest
  <1>2. CASE Fails
    <2>1. askedIn' = 0
      BY <1>2 DEF Asks, Fails
    <2>2. taken' \in BOOLEAN /\ (taken' => taken)
      BY <1>1, <1>2 DEF Fails
    <2>. QED BY <1>2, <2>1, <2>2, FailsKeeps
  <1>3. CASE attempts < MaxRequests /\ d = 0 /\ Attempts(attempts, elapsed)
    <2>1. askedIn' = 0 /\ taken' \in BOOLEAN /\ ~taken'
      BY <1>1, <1>3 DEF Asks, Attempts
    <2>. QED BY <1>3, <2>1, AttemptsKeeps
  <1>4. CASE attempts < MaxRequests /\ d # NoDelay /\ Waits(d, attempts, elapsed)
    <2>1. askedIn' = d /\ taken' = taken
      BY <1>1, <1>4 DEF Asks, Waits
    <2>2. d \in Nat
      BY <1>4
    <2>. QED BY <1>4, <2>1, <2>2, WaitsKeeps
  <1>. QED BY <1>2, <1>3, <1>4, LimitedGoesOn DEF PortInv

LEMMA RetryableErrorKeeps ==
  ASSUME PortInv, RetryableError
  PROVE  PortInv'
  <1>. USE PortAssumption, Counted
  <1>1. /\ point = "attempt" /\ ~closed /\ askedIn' = 0
        /\ UNCHANGED <<allowedIn, closed, sends, posted>>
    BY DEF RetryableError, Answered, Attempting
  <1>2. PICK f \in Results \ {"sent"} : RetriesOr(f)
    BY DEF RetryableError, Results
  <1>3. CASE Fails
    <2>1. taken' \in BOOLEAN /\ (taken' => taken)
      BY <1>3 DEF Fails, RetryableError, NextRequest
    <2>. QED BY <1>1, <1>3, <2>1, FailsKeeps
  <1>4. CASE attempts < MaxRequests /\ Attempts(attempts, elapsed)
    <2>1. taken' \in BOOLEAN /\ ~taken'
      BY <1>4 DEF Attempts, RetryableError, NextRequest
    <2>. QED BY <1>1, <1>4, <2>1, AttemptsKeeps
  <1>5. ASSUME attempts < MaxRequests, NEW d, Waits(d, attempts, elapsed)
        PROVE  PortInv'
    <2>1. taken' = taken /\ askedIn' <= d
      BY <1>1, <1>5 DEF Waits, RetryableError, NextRequest
    <2>. QED BY <1>1, <1>5, <2>1, WaitsKeeps
  <1>. QED BY <1>2, <1>3, <1>4, <1>5, RetryGoesOn DEF PortInv

LEMMA WaitEndsKeeps ==
  ASSUME PortInv, WaitEnds
  PROVE  PortInv'
  <1>. USE PortAssumption, Counted
  <1>1. /\ point = "wait" /\ ~closed /\ timer <= 0 /\ attempts < MaxRequests
        /\ Loop(attempts, elapsed)
        /\ UNCHANGED <<allowedIn, closed, sends, posted, askedIn>>
    BY DEF WaitEnds, PortInv, RequestsLeft
  <1>2. askedIn = 0
    BY <1>1 DEF PortInv, PortTypeOK, WaitCoversSilence
  <1>3. CASE Fails
    <2>1. taken' \in BOOLEAN /\ (taken' => taken)
      BY <1>3 DEF Fails, WaitEnds, NextRequest
    <2>. QED BY <1>1, <1>2, <1>3, <2>1, FailsKeeps
  <1>4. CASE Attempts(attempts, elapsed)
    <2>1. taken' \in BOOLEAN /\ ~taken'
      BY <1>4 DEF Attempts, WaitEnds, NextRequest
    <2>. QED BY <1>1, <1>2, <1>4, <2>1, AttemptsKeeps
  <1>. QED BY <1>1, <1>3, <1>4, LoopGoesOn

LEMMA LimitedByBodyKeeps ==
  ASSUME PortInv, LimitedByBody
  PROVE  PortInv'
  <1>. USE PortAssumption, Counted
  <1>1. /\ point' = "body" /\ timer' = Budget - elapsed /\ elapsed < Budget
        /\ UNCHANGED <<attempts, elapsed, result, allowedIn, closed, sends, taken, posted, askedIn>>
        /\ point = "attempt" /\ ~closed
    BY DEF LimitedByBody, Answered, Attempting
  <1>2. PortTypeOK'
    BY <1>1 DEF PortInv, PortTypeOK
  <1>3. TimerInBudget' /\ WaitCoversSilence'
    BY <1>1 DEF PortInv, TimerInBudget, WaitCoversSilence
  <1>4. RequestsLeft' /\ TakenIsPosted' /\ ResolvedIsPosted'
    BY <1>1 DEF PortInv, RequestsLeft, TakenIsPosted, ResolvedIsPosted
  <1>. QED BY <1>2, <1>3, <1>4 DEF PortInv

LEMMA RejectedKeeps ==
  ASSUME PortInv, Rejected
  PROVE  PortInv'
  <1>1. /\ Fails /\ ~closed /\ point = "attempt"
        /\ UNCHANGED <<allowedIn, closed, sends, taken, posted, askedIn>>
    BY DEF Rejected, Returns, Fails, Results, Answered, Attempting
  <1>. QED BY <1>1, FailsKeeps, Counted, PortAssumption

LEMMA CancelledKeeps ==
  ASSUME PortInv, Cancelled
  PROVE  PortInv'
  <1>1. /\ Fails /\ closed
        /\ UNCHANGED <<allowedIn, closed, sends, taken, posted, askedIn>>
    BY DEF Cancelled, Returns, Fails, Results
  <1>. QED BY <1>1, FailsKeeps, Counted

LEMMA PortTickKeeps ==
  ASSUME PortInv, PortTick
  PROVE  PortInv'
  <1>. USE PortAssumption, Counted
  <1>1. /\ allowedIn' = Less(allowedIn) /\ askedIn' = Less(askedIn)
        /\ UNCHANGED <<point, attempts, result, closed, sends, taken, posted>>
    BY DEF PortTick
  <1>2. /\ allowedIn' \in Nat /\ askedIn' \in Nat
        /\ askedIn <= allowedIn => askedIn' <= allowedIn'
        /\ askedIn = 0 => askedIn' = 0
        /\ \A t \in Int : askedIn <= t => askedIn' <= t - 1 \/ askedIn' = 0
    BY <1>1 DEF Less
  <1>3. \/ point = "idle" /\ UNCHANGED <<elapsed, timer>>
        \/ point # "idle" /\ timer > -Lag /\ elapsed' = elapsed + 1 /\ timer' = timer - 1
    BY DEF PortTick
  <1>4. PortTypeOK'
    BY <1>1, <1>2, <1>3 DEF PortInv, PortTypeOK
  <1>5. TimerInBudget'
    BY <1>1, <1>3 DEF PortInv, PortTypeOK, TimerInBudget
  <1>6. WaitCoversSilence'
    BY <1>1, <1>2, <1>3 DEF PortInv, PortTypeOK, WaitCoversSilence
  <1>7. RequestsLeft' /\ TakenIsPosted' /\ ResolvedIsPosted'
    BY <1>1 DEF PortInv, RequestsLeft, TakenIsPosted, ResolvedIsPosted
  <1>. QED BY <1>4, <1>5, <1>6, <1>7 DEF PortInv

\* The invariant of the port holds, for any times, number of attempts and
\* messages, and lateness of callbacks.
THEOREM PortInvariance == PortSpec => []PortInv
  <1>1. PortInit => PortInv
    <2>. SUFFICES ASSUME PortInit
                  PROVE  PortInv
      OBVIOUS
    <2>1. closed \in BOOLEAN /\ taken \in BOOLEAN
      BY DEF PortInit
    <2>2. PortTypeOK /\ TimerInBudget
      BY <2>1, PortAssumption DEF PortInit, PortTypeOK, Results, TimerInBudget
    <2>3. RequestsLeft /\ TakenIsPosted /\ ResolvedIsPosted /\ WaitCoversSilence
      BY DEF PortInit, RequestsLeft, TakenIsPosted, ResolvedIsPosted, WaitCoversSilence
    <2>. QED BY <2>2, <2>3 DEF PortInv
  <1>2. PortInv /\ [PortNext]_portVars => PortInv'
    <2>. SUFFICES ASSUME PortInv, [PortNext]_portVars
                  PROVE  PortInv'
      OBVIOUS
    <2>1. CASE SendMessage \/ Close \/ ServerTakes
      BY <2>1, SendMessageKeeps, CloseKeeps, ServerTakesKeeps
    <2>2. CASE RetryableError \/ Rejected \/ LimitedByBody
      BY <2>2, RetryableErrorKeeps, RejectedKeeps, LimitedByBodyKeeps
    <2>3. ASSUME NEW d \in Delays \union {NoDelay},
                 Succeeds(d) \/ LimitedByHeader(d) \/ BodyRead(d)
          PROVE  PortInv'
      <3>1. CASE Succeeds(d)
        BY <3>1, SucceedsKeeps
      <3>2. CASE LimitedByHeader(d)
        BY <3>2, LimitedKeeps DEF LimitedByHeader, Answered, Attempting
      <3>3. CASE BodyRead(d)
        BY <3>3, LimitedKeeps DEF BodyRead
      <3>. QED BY <2>3, <3>1, <3>2, <3>3
    <2>4. CASE WaitEnds \/ Cancelled \/ PortTick
      BY <2>4, WaitEndsKeeps, CancelledKeeps, PortTickKeeps
    <2>5. CASE UNCHANGED portVars
      BY <2>5 DEF portVars, sendVars, PortInv, PortTypeOK, TimerInBudget, RequestsLeft,
         TakenIsPosted, ResolvedIsPosted, WaitCoversSilence
    <2>. QED BY <2>1, <2>2, <2>3, <2>4, <2>5 DEF PortNext
  <1>. QED BY <1>1, <1>2, PTL DEF PortSpec

\* The variables of the port have their types.
THEOREM PortTypeCorrect == PortSpec => []PortTypeOK
  <1>1. PortInv => PortTypeOK
    BY DEF PortInv
  <1>. QED BY <1>1, PortInvariance, PTL

\* A send ends within its total time, but for the lateness of one callback,
\* whatever the times, the answers and their order.
THEOREM SendEndsInTime == PortSpec => []EndsInTime
  <1>1. PortInv => EndsInTime
    BY DEF PortInv, TimerInBudget, EndsInTime
  <1>. QED BY <1>1, PortInvariance, PTL

\* A send that returns without an error has its message with the server.
THEOREM SentIsPosted == PortSpec => []ResolvedIsPosted
  <1>1. PortInv => ResolvedIsPosted
    BY DEF PortInv
  <1>. QED BY <1>1, PortInvariance, PTL

\* No request is made in the time for which the server asked for silence.
THEOREM SilenceIsKept == PortSpec => RespectsWait
  <1>1. ASSUME PortInv, [PortNext]_portVars
        PROVE  [Requests => askedIn = 0]_sendVars
    <2>. USE PortAssumption, Counted
    <2>1. SUFFICES ASSUME PortNext, Requests
                   PROVE  askedIn = 0
      BY <1>1 DEF portVars
    <2>2. CASE point \in {"attempt", "body"} /\ ~closed
      BY <1>1, <2>2
    <2>3. CASE SendMessage
      <3>1. Fails \/ allowedIn = 0 \/ Waits(allowedIn, 0, 0)
        BY <2>3, WaitGoesOn, PortAssumption DEF SendMessage
      <3>2. allowedIn = 0 /\ askedIn <= allowedIn
        BY <1>1, <2>1, <2>3, <3>1
        DEF SendMessage, Requests, Fails, Waits, PortInv, WaitCoversSilence
      <3>. QED BY <1>1, <3>2
    <2>4. CASE WaitEnds
      BY <1>1, <2>4 DEF WaitEnds, PortInv, PortTypeOK, WaitCoversSilence
    <2>5. CASE Close \/ ServerTakes \/ Cancelled \/ PortTick
      BY <2>1, <2>5 DEF Requests, Close, ServerTakes, Cancelled, Returns, PortTick, sendVars
    <2>6. CASE \/ RetryableError \/ Rejected \/ LimitedByBody
               \/ \E d \in Delays \union {NoDelay} :
                    Succeeds(d) \/ LimitedByHeader(d) \/ BodyRead(d)
      BY <1>1, <2>2, <2>6
      DEF RetryableError, Rejected, LimitedByBody, Succeeds, LimitedByHeader, BodyRead,
          Answered, Attempting
    <2>. QED BY <2>1, <2>3, <2>4, <2>5, <2>6 DEF PortNext
  <1>. QED BY <1>1, PortInvariance, PTL DEF PortSpec, RespectsWait
=============================================================================
