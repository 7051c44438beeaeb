-------------------------- MODULE StateStoreProofs --------------------------
(***************************************************************************)
(* What holds of the state store for every set of commands the program may *)
(* dispatch, in any order and any number, and for any subscribers.         *)
(***************************************************************************)
EXTENDS StateStore, StateCommandsProofs

----------------------------------------------------------------------------
(* The delivery.  What a subscriber that stays has not yet seen is queued, *)
(* once per change and in the order of the revisions.                      *)

Next1(s) == since[s] + Len(delivered[s]) + 1

InCall(s, event) == \E k \in DOMAIN event.call : event.call[k] = s

Injective(seq) == \A i, j \in DOMAIN seq : seq[i] = seq[j] => i = j

QueueOK ==
  /\ Injective(subscriptions)
  /\ \A i \in DOMAIN microtasks :
       /\ microtasks[i].revision <= revision
       /\ microtasks[i].call # <<>>
       /\ Injective(microtasks[i].call)
  /\ \A i, j \in DOMAIN microtasks :
       i < j => microtasks[i].revision < microtasks[j].revision

SubscriberOK(s) ==
  /\ since[s] = NotYet =>
       /\ s \notin Active
       /\ delivered[s] = <<>>
       /\ \A i \in DOMAIN microtasks : ~InCall(s, microtasks[i])
  /\ s \in Active =>
       /\ Next1(s) <= revision + 1
       /\ \A i \in DOMAIN microtasks :
            InCall(s, microtasks[i]) => microtasks[i].revision >= Next1(s)
       /\ \A r \in Next1(s)..revision :
            \E i \in DOMAIN microtasks :
              microtasks[i].revision = r /\ InCall(s, microtasks[i])

StoreInv ==
  /\ TypeOK
  /\ Consistent(snapshot)
  /\ QueueOK
  /\ DeliveredInOrder
  /\ \A s \in Subscribers : SubscriberOK(s)

LEMMA ElementFacts ==
  ASSUME NEW S, NEW q \in Seq(S)
  PROVE  /\ Len(q) \in Nat /\ DOMAIN q = 1..Len(q)
         /\ \A i \in DOMAIN q : q[i] \in S
  OBVIOUS

Event == [revision : Nat, call : Seq(Subscribers)]

LEMMA EventFacts ==
  ASSUME TypeOK
  PROVE  /\ DOMAIN microtasks = 1..Len(microtasks) /\ Len(microtasks) \in Nat
         /\ \A i \in DOMAIN microtasks :
              /\ microtasks[i] \in Event
              /\ microtasks[i].revision \in Nat
              /\ microtasks[i].call \in Seq(Subscribers)
  <1>1. microtasks \in Seq(Event)
    BY DEF TypeOK, Event
  <1>2. \A i \in DOMAIN microtasks : microtasks[i] \in Event
    BY <1>1, ElementFacts
  <1> QED
    BY <1>1, <1>2, ElementFacts DEF Event

LEMMA AppendFacts ==
  ASSUME NEW S, NEW q \in Seq(S), NEW e \in S
  PROVE  /\ Append(q, e) \in Seq(S)
         /\ Append(q, e) # <<>>
         /\ Len(Append(q, e)) = Len(q) + 1
         /\ DOMAIN Append(q, e) = 1..(Len(q) + 1)
         /\ DOMAIN q = 1..Len(q) /\ Len(q) \in Nat
         /\ Append(q, e)[Len(q) + 1] = e
         /\ \A i \in 1..Len(q) : Append(q, e)[i] = q[i]
  OBVIOUS

LEMMA TailFacts ==
  ASSUME NEW S, NEW q \in Seq(S), q # <<>>
  PROVE  /\ Tail(q) \in Seq(S)
         /\ Len(q) \in Nat \ {0} /\ Len(Tail(q)) = Len(q) - 1
         /\ DOMAIN Tail(q) = 1..(Len(q) - 1)
         /\ DOMAIN q = 1..Len(q)
         /\ Head(q) = q[1] /\ Head(q) \in S
         /\ \A i \in 1..(Len(q) - 1) : Tail(q)[i] = q[i + 1]
  OBVIOUS

LEMMA InitStoreInv == ASSUME StoreAssumption, Init PROVE StoreInv
  <1>1. TypeOK
    BY InitialConsistent DEF Init, TypeOK, Consistent
  <1>2. QueueOK /\ DeliveredInOrder /\ \A s \in Subscribers : SubscriberOK(s)
    BY DEF Init, QueueOK, DeliveredInOrder, SubscriberOK, Injective, Active, NotYet
  <1> QED
    BY <1>1, <1>2, InitialConsistent DEF Init, StoreInv

LEMMA DispatchStep ==
  ASSUME StoreAssumption, StoreInv, NEW c \in Commands, Dispatch(c)
  PROVE  StoreInv'
  <1> DEFINE event == [revision |-> revision + 1, call |-> subscriptions]
  <1>1. c \in Dispatched
    BY DEF StoreAssumption, Dispatched
  <1>2. Consistent(snapshot') /\ snapshot' \in Snapshot
    BY <1>1, CommandsKeepConsistent DEF Dispatch, StoreInv, Consistent
  <1>3. /\ revision' = revision + 1 /\ microtasks' = Notify(event)
        /\ UNCHANGED <<subscriptions, since, delivered>>
    BY DEF Dispatch
  <1>4. /\ event \in [revision : Nat, call : Seq(Subscribers)]
        /\ event.revision = revision + 1 /\ event.call = subscriptions
    BY DEF StoreInv, TypeOK
  <1> HIDE DEF event
  <1>5. CASE subscriptions = <<>>
    <2>1. UNCHANGED microtasks
      BY <1>3, <1>4, <1>5 DEF Notify
    <2>2. /\ TypeOK'
          /\ DeliveredInOrder'
          /\ QueueOK'
      <3>1. TypeOK'
        BY <1>2, <1>3, <2>1 DEF StoreInv, TypeOK
      <3>2. DeliveredInOrder'
        BY <1>3 DEF StoreInv, DeliveredInOrder
      <3>3. \A i \in DOMAIN microtasks :
              microtasks[i].revision \in Nat /\ revision \in Nat
        BY EventFacts DEF StoreInv, TypeOK
      <3>4. QueueOK'
        BY <1>3, <2>1, <3>3 DEF StoreInv, QueueOK, Injective
      <3> QED
        BY <3>1, <3>2, <3>4
    <2>3. ASSUME NEW s \in Subscribers PROVE SubscriberOK(s)'
      BY <1>3, <1>5, <2>1 DEF StoreInv, SubscriberOK, Active
    <2> QED
      BY <1>2, <2>2, <2>3 DEF StoreInv
  <1>6. CASE subscriptions # <<>>
    <2> DEFINE n == Len(microtasks) + 1
    <2>1. /\ microtasks' \in Seq([revision : Nat, call : Seq(Subscribers)])
          /\ n \in Nat \ {0}
          /\ DOMAIN microtasks = 1..(n - 1) /\ DOMAIN microtasks' = 1..n
          /\ microtasks'[n] = event
          /\ \A i \in 1..(n - 1) : microtasks'[i] = microtasks[i]
      BY <1>3, <1>4, <1>6, AppendFacts DEF Notify, StoreInv, TypeOK
    <2> HIDE DEF n
    <2>2. TypeOK'
      BY <1>2, <1>3, <2>1 DEF StoreInv, TypeOK
    <2>3. QueueOK'
      <3>1. \A i \in 1..(n - 1) : microtasks[i].revision \in Nat
        BY <2>1, EventFacts DEF StoreInv
      <3>2. revision \in Nat
        BY DEF StoreInv, TypeOK
      <3>a. \A i \in 1..(n - 1) :
              /\ microtasks[i].revision <= revision
              /\ microtasks[i].call # <<>>
              /\ Injective(microtasks[i].call)
        BY <2>1 DEF StoreInv, QueueOK
      <3>b. \A i, j \in 1..(n - 1) :
              i < j => microtasks[i].revision < microtasks[j].revision
        BY <2>1 DEF StoreInv, QueueOK
      <3>3. \A i \in 1..n :
              /\ microtasks'[i].revision <= revision'
              /\ microtasks'[i].call # <<>>
              /\ Injective(microtasks'[i].call)
        <4> TAKE i \in 1..n
        <4>1. CASE i = n
          BY <1>3, <1>4, <1>6, <2>1, <3>2, <4>1 DEF StoreInv, QueueOK
        <4>2. CASE i # n
          <5>1. i \in 1..(n - 1) /\ microtasks'[i] = microtasks[i]
            BY <2>1, <4>2
          <5> QED
            BY <1>3, <3>1, <3>2, <3>a, <5>1
        <4> QED
          BY <4>1, <4>2
      <3>4. \A i, j \in 1..n :
              i < j => microtasks'[i].revision < microtasks'[j].revision
        <4> TAKE i, j \in 1..n
        <4> HAVE i < j
        <4>1. i \in 1..(n - 1) /\ microtasks'[i] = microtasks[i]
              /\ microtasks[i].revision <= revision
          BY <2>1, <3>a
        <4>2. CASE j = n
          BY <1>4, <2>1, <3>1, <3>2, <4>1, <4>2
        <4>3. CASE j # n
          <5>1. j \in 1..(n - 1) /\ microtasks'[j] = microtasks[j]
            BY <2>1, <4>3
          <5> QED
            BY <3>b, <4>1, <5>1
        <4> QED
          BY <4>2, <4>3
      <3> QED
        BY <1>3, <2>1, <3>3, <3>4 DEF StoreInv, QueueOK, Injective
    <2>4. DeliveredInOrder'
      BY <1>3 DEF StoreInv, DeliveredInOrder
    <2>5. ASSUME NEW s \in Subscribers PROVE SubscriberOK(s)'
      <3>1. /\ since[s] \in Nat \cup {NotYet} /\ Len(delivered[s]) \in Nat
            /\ revision \in Nat /\ SubscriberOK(s)
            /\ Next1(s)' = Next1(s) /\ Active' = Active
        BY <1>3 DEF StoreInv, TypeOK, Next1, Active
      <3>2. InCall(s, event) <=> s \in Active
        BY <1>4 DEF InCall, Active
      <3>3. \A i \in 1..(n - 1) : InCall(s, microtasks'[i]) <=> InCall(s, microtasks[i])
        BY <2>1 DEF InCall
      <3>4. CASE since[s] = NotYet
        BY <1>3, <2>1, <3>1, <3>2, <3>3, <3>4 DEF SubscriberOK
      <3>5. CASE since[s] # NotYet /\ s \in Active
        <4>1. Next1(s) \in Nat
          BY <3>1, <3>5 DEF Next1
        <4>2. Next1(s) <= revision + 1 /\ event.revision = revision + 1
              /\ revision' = revision + 1
          BY <1>3, <1>4, <3>1, <3>5 DEF SubscriberOK
        <4>3. ASSUME NEW i \in 1..n, InCall(s, microtasks'[i])
              PROVE  microtasks'[i].revision >= Next1(s)
          <5>1. CASE i = n
            BY <2>1, <3>1, <4>1, <4>2, <5>1
          <5>2. CASE i # n
            <6>1. i \in 1..(n - 1) /\ microtasks'[i] = microtasks[i]
              BY <2>1, <5>2
            <6> QED
              BY <2>1, <3>1, <3>5, <4>3, <6>1 DEF SubscriberOK
          <5> QED
            BY <5>1, <5>2
        <4>4. ASSUME NEW r \in Next1(s)..(revision + 1)
              PROVE  \E i \in 1..n :
                       microtasks'[i].revision = r /\ InCall(s, microtasks'[i])
          <5>1. CASE r = revision + 1
            <6>1. n \in 1..n /\ microtasks'[n] = event
              BY <2>1
            <6>2. event.revision = r /\ InCall(s, event)
              BY <3>2, <3>5, <4>2, <5>1
            <6> QED
              BY <6>1, <6>2
          <5>2. CASE r # revision + 1
            <6>1. r \in Next1(s)..revision
              BY <3>1, <4>1, <5>2
            <6>2. PICK i \in 1..(n - 1) :
                    microtasks[i].revision = r /\ InCall(s, microtasks[i])
              BY <2>1, <3>1, <3>5, <6>1 DEF SubscriberOK
            <6> QED
              BY <2>1, <6>2
          <5> QED
            BY <5>1, <5>2
        <4>5. Next1(s)' = Next1(s) /\ Next1(s) <= revision' + 1
          BY <3>1, <4>1, <4>2
        <4>6. (since[s] # NotYet)' /\ DOMAIN microtasks' = 1..n
          BY <1>3, <2>1, <3>5
        <4>7. \A r \in Next1(s)'..revision' :
                \E i \in 1..n :
                  microtasks'[i].revision = r /\ InCall(s, microtasks'[i])
          BY <4>2, <4>4, <4>5
        <4>8. \A i \in 1..n : InCall(s, microtasks'[i]) =>
                                 microtasks'[i].revision >= Next1(s)'
          BY <4>3, <4>5
        <4> QED
          BY <4>5, <4>6, <4>7, <4>8 DEF SubscriberOK
      <3>6. CASE since[s] # NotYet /\ s \notin Active
        BY <1>3, <3>1, <3>6 DEF SubscriberOK
      <3> QED
        BY <3>4, <3>5, <3>6
    <2> QED
      BY <1>2, <2>2, <2>3, <2>4, <2>5 DEF StoreInv
  <1> QED
    BY <1>5, <1>6

LEMMA SubscribeStep ==
  ASSUME StoreAssumption, StoreInv, NEW a \in Subscribers, Subscribe(a)
  PROVE  StoreInv'
  <1>1. /\ since[a] = NotYet
        /\ subscriptions' = Append(subscriptions, a)
        /\ since' = [since EXCEPT ![a] = revision]
        /\ UNCHANGED <<snapshot, revision, microtasks, delivered>>
    BY DEF Subscribe
  <1>2. /\ subscriptions' \in Seq(Subscribers)
        /\ DOMAIN subscriptions' = 1..(Len(subscriptions) + 1)
        /\ DOMAIN subscriptions = 1..Len(subscriptions)
        /\ Len(subscriptions) \in Nat
        /\ subscriptions'[Len(subscriptions) + 1] = a
        /\ \A i \in 1..Len(subscriptions) : subscriptions'[i] = subscriptions[i]
    BY <1>1, AppendFacts DEF StoreInv, TypeOK
  <1>3. a \notin Active /\ delivered[a] = <<>>
        /\ \A i \in DOMAIN microtasks : ~InCall(a, microtasks[i])
    BY <1>1 DEF StoreInv, SubscriberOK
  <1>4. Active' = Active \cup {a}
    BY <1>2 DEF Active
  <1>5. /\ since \in [Subscribers -> Nat \cup {NotYet}] /\ revision \in Nat
        /\ since'[a] = revision
        /\ \A s \in Subscribers \ {a} : since'[s] = since[s]
    BY <1>1 DEF StoreInv, TypeOK
  <1>6. TypeOK'
    BY <1>1, <1>2, <1>5 DEF StoreInv, TypeOK
  <1>7. QueueOK'
    <2>1. \A i \in 1..Len(subscriptions) : subscriptions[i] # a
      BY <1>2, <1>3 DEF Active
    <2>2. Injective(subscriptions)
      BY DEF StoreInv, QueueOK
    <2>3. Injective(subscriptions')
      BY <1>2, <2>1, <2>2 DEF Injective
    <2> QED
      BY <1>1, <2>3 DEF StoreInv, QueueOK
  <1>8. DeliveredInOrder'
    BY <1>1, <1>3, <1>5 DEF StoreInv, DeliveredInOrder
  <1>9. ASSUME NEW s \in Subscribers PROVE SubscriberOK(s)'
    <2>1. CASE s = a
      <3>1. Next1(s)' = revision + 1
        BY <1>1, <1>3, <1>5, <2>1 DEF Next1
      <3>2. (since[s] # NotYet)'
        BY <1>5, <2>1 DEF NotYet
      <3> QED
        BY <1>1, <1>3, <1>5, <2>1, <3>1, <3>2 DEF SubscriberOK
    <2>2. CASE s # a
      <3>1. SubscriberOK(s) /\ Next1(s)' = Next1(s) /\ since'[s] = since[s]
            /\ (s \in Active' <=> s \in Active)
        BY <1>1, <1>4, <1>5, <2>2 DEF StoreInv, Next1
      <3> QED
        BY <1>1, <3>1 DEF SubscriberOK
    <2> QED
      BY <2>1, <2>2
  <1> QED
    BY <1>1, <1>6, <1>7, <1>8, <1>9 DEF StoreInv

LEMMA UnsubscribeStep ==
  ASSUME StoreAssumption, StoreInv, NEW a \in Subscribers, Unsubscribe(a)
  PROVE  StoreInv'
  <1>1. UNCHANGED <<snapshot, revision, microtasks, since, delivered>>
    BY DEF Unsubscribe
  <1>2. PICK k \in DOMAIN subscriptions :
          subscriptions' = [j \in 1..(Len(subscriptions) - 1) |->
                              subscriptions[IF j < k THEN j ELSE j + 1]]
    BY DEF Unsubscribe
  <1> DEFINE At(j) == IF j < k THEN j ELSE j + 1
  <1>3. /\ Len(subscriptions) \in Nat /\ DOMAIN subscriptions = 1..Len(subscriptions)
        /\ \A i \in DOMAIN subscriptions : subscriptions[i] \in Subscribers
    BY ElementFacts DEF StoreInv, TypeOK
  <1>4. /\ Len(subscriptions) - 1 \in Nat
        /\ \A j \in 1..(Len(subscriptions) - 1) :
             /\ At(j) \in DOMAIN subscriptions
             /\ subscriptions'[j] = subscriptions[At(j)]
        /\ \A i, j \in 1..(Len(subscriptions) - 1) : At(i) = At(j) => i = j
        /\ DOMAIN subscriptions' = 1..(Len(subscriptions) - 1)
    BY <1>2, <1>3
  <1> HIDE DEF At
  <1>5. subscriptions' \in Seq(Subscribers)
    BY <1>2, <1>3, <1>4
  <1>6. Injective(subscriptions')
    <2>1. Injective(subscriptions)
      BY DEF StoreInv, QueueOK
    <2> QED
      BY <1>4, <2>1 DEF Injective
  <1>7. Active' \subseteq Active
    BY <1>4 DEF Active
  <1>8. TypeOK' /\ QueueOK' /\ DeliveredInOrder'
    BY <1>1, <1>5, <1>6 DEF StoreInv, TypeOK, QueueOK, DeliveredInOrder
  <1>9. ASSUME NEW s \in Subscribers PROVE SubscriberOK(s)'
    BY <1>1, <1>7 DEF StoreInv, SubscriberOK, Next1
  <1> QED
    BY <1>1, <1>8, <1>9 DEF StoreInv

\* Change r waits to be delivered to s.
Queued(s, r) ==
  \E i \in DOMAIN microtasks :
    microtasks[i].revision = r /\ InCall(s, microtasks[i])

\* One delivery takes exactly one waiting call off the queue, the first one.
LEMMA DeliverTakesOne ==
  ASSUME StoreAssumption, StoreInv, Deliver
  PROVE  LET event == microtasks[1]
             s     == event.call[1]
         IN
         /\ microtasks' \in Seq(Event)
         /\ QueueOK'
         /\ event.revision \in Nat /\ event.revision <= revision
         /\ s \in Subscribers /\ Queued(s, event.revision)
         /\ \A r \in Nat : Queued(s, r) => r >= event.revision
         /\ \A x \in Subscribers : \A r \in Nat :
              Queued(x, r)' <=> (Queued(x, r) /\ ~(x = s /\ r = event.revision))
         /\ delivered' = IF s \in Active
                         THEN [delivered EXCEPT ![s] = Append(@, event.revision)]
                         ELSE delivered
  <1> DEFINE n == Len(microtasks)
             event == microtasks[1]
             call == event.call
             s == call[1]
  <1>1. /\ microtasks \in Seq(Event) /\ microtasks # <<>>
        /\ n \in Nat \ {0} /\ DOMAIN microtasks = 1..n
        /\ Head(microtasks) = event /\ event \in Event
        /\ Tail(microtasks) \in Seq(Event)
        /\ DOMAIN Tail(microtasks) = 1..(n - 1)
        /\ \A i \in 1..(n - 1) : Tail(microtasks)[i] = microtasks[i + 1]
    <2>1. microtasks \in Seq(Event) /\ microtasks # <<>>
      BY DEF Deliver, StoreInv, TypeOK, Event
    <2>2. /\ Tail(microtasks) \in Seq(Event)
          /\ Len(microtasks) \in Nat \ {0}
          /\ DOMAIN Tail(microtasks) = 1..(Len(microtasks) - 1)
          /\ DOMAIN microtasks = 1..Len(microtasks)
          /\ Head(microtasks) = microtasks[1] /\ Head(microtasks) \in Event
          /\ \A i \in 1..(Len(microtasks) - 1) :
               Tail(microtasks)[i] = microtasks[i + 1]
      BY <2>1, TailFacts
    <2> QED
      BY <2>1, <2>2
  <1>2. 1 \in 1..n
    BY <1>1
  <1>3. /\ \A i \in 1..n : /\ microtasks[i] \in Event
                           /\ microtasks[i].revision \in Nat
                           /\ microtasks[i].revision <= revision
                           /\ microtasks[i].call # <<>>
                           /\ Injective(microtasks[i].call)
        /\ \A i, j \in 1..n :
             i < j => microtasks[i].revision < microtasks[j].revision
        /\ Injective(subscriptions)
    BY <1>1, EventFacts DEF StoreInv, QueueOK
  <1>4. /\ call \in Seq(Subscribers) /\ call # <<>> /\ Injective(call)
        /\ event.revision \in Nat /\ event.revision <= revision
    BY <1>1, <1>2, <1>3 DEF Event
  <1>5. /\ Tail(call) \in Seq(Subscribers)
        /\ Len(call) \in Nat \ {0} /\ Len(Tail(call)) = Len(call) - 1
        /\ DOMAIN Tail(call) = 1..(Len(call) - 1) /\ DOMAIN call = 1..Len(call)
        /\ Head(call) = s /\ s \in Subscribers
        /\ \A i \in 1..(Len(call) - 1) : Tail(call)[i] = call[i + 1]
    BY <1>4, TailFacts
  <1>6. /\ microtasks' = IF Len(call) = 1 THEN Tail(microtasks)
                         ELSE [microtasks EXCEPT ![1].call = Tail(call)]
        /\ delivered' = IF s \in Active
                        THEN [delivered EXCEPT ![s] = Append(@, event.revision)]
                        ELSE delivered
        /\ UNCHANGED <<subscriptions, revision>>
    BY <1>1, <1>5 DEF Deliver, Receives
  <1> HIDE DEF n, event, call, s
  <1>7. \A x : InCall(x, event) <=> \E k \in 1..Len(call) : call[k] = x
    BY <1>5 DEF InCall, call
  <1>8. Queued(s, event.revision)
    BY <1>1, <1>2, <1>5, <1>7 DEF Queued, s, event
  <1>9. ASSUME NEW i \in 1..n
        PROVE  /\ event.revision <= microtasks[i].revision
               /\ microtasks[i].revision = event.revision => i = 1
    <2>1. CASE i = 1
      BY <1>4, <2>1 DEF event
    <2>2. CASE i # 1
      <3>1. 1 < i
        BY <1>1, <2>2
      <3>2. microtasks[1].revision < microtasks[i].revision
        BY <1>2, <1>3, <3>1
      <3> QED
        BY <1>3, <1>4, <2>2, <3>2 DEF event
    <2> QED
      BY <2>1, <2>2
  <1>10. \A x, r : Queued(x, r) <=>
           \/ r = event.revision /\ \E k \in 1..Len(call) : call[k] = x
           \/ \E i \in 2..n : microtasks[i].revision = r /\ InCall(x, microtasks[i])
    <2>1. 1..n = {1} \cup 2..n
      BY <1>1
    <2> QED
      BY <1>1, <1>7, <2>1 DEF Queued, event
  <1>11. CASE Len(call) = 1
    <2>1. microtasks' = Tail(microtasks)
      BY <1>6, <1>11
    <2>2. QueueOK'
      <3>1. \A i \in 1..(n - 1) : i + 1 \in 1..n
        BY <1>1
      <3>2. \A i, j \in 1..(n - 1) : i < j => i + 1 < j + 1
        BY <1>1
      <3>3. \A i, j \in 1..(n - 1) : i < j =>
              microtasks'[i].revision < microtasks'[j].revision
        BY <1>1, <1>3, <2>1, <3>1, <3>2
      <3> QED
        BY <1>1, <1>3, <1>6, <2>1, <3>1, <3>3 DEF QueueOK, Injective
    <2>3. \A x, r : Queued(x, r)' <=>
            \E i \in 2..n : microtasks[i].revision = r /\ InCall(x, microtasks[i])
      <3>1. \A x, r : Queued(x, r)' <=>
              \E i \in 1..(n - 1) : /\ microtasks[i + 1].revision = r
                                    /\ InCall(x, microtasks[i + 1])
        <4>1. DOMAIN microtasks' = 1..(n - 1)
              /\ \A i \in 1..(n - 1) : microtasks'[i] = microtasks[i + 1]
          BY <1>1, <2>1
        <4>2. \A x, r : Queued(x, r)' <=>
                \E i \in 1..(n - 1) :
                  microtasks'[i].revision = r /\ InCall(x, microtasks'[i])
          BY <4>1 DEF Queued, InCall
        <4> QED
          BY <4>1, <4>2
      <3>2. \A i \in 2..n : i - 1 \in 1..(n - 1) /\ (i - 1) + 1 = i
        BY <1>1
      <3>3. \A i \in 1..(n - 1) : i + 1 \in 2..n
        BY <1>1
      <3> QED
        BY <3>1, <3>2, <3>3
    <2>4. \A x, r : (\E k \in 1..Len(call) : call[k] = x) <=> x = s
      BY <1>11 DEF s
    <2>5. \A i \in 2..n : microtasks[i].revision # event.revision
      BY <1>1, <1>9
    <2>6. \A x \in Subscribers : \A r \in Nat :
            Queued(x, r)' <=> (Queued(x, r) /\ ~(x = s /\ r = event.revision))
      BY <1>10, <2>3, <2>4, <2>5
    <2>7. \A r \in Nat : Queued(s, r) => r >= event.revision
      BY <1>1, <1>3, <1>4, <1>9 DEF Queued
    <2> QED
      BY <1>1, <1>4, <1>5, <1>6, <1>8, <2>1, <2>2, <2>6, <2>7 DEF event, s, call
  <1>12. CASE Len(call) # 1
    <2> DEFINE rest == [event EXCEPT !.call = Tail(call)]
    <2>1. microtasks' = [microtasks EXCEPT ![1] = rest]
      BY <1>6, <1>12 DEF event
    <2>2. rest \in Event /\ rest.revision = event.revision /\ rest.call = Tail(call)
      BY <1>1, <1>5 DEF Event
    <2> HIDE DEF rest
    <2>3. /\ microtasks' \in Seq(Event) /\ DOMAIN microtasks' = 1..n
          /\ microtasks'[1] = rest
          /\ \A i \in 2..n : microtasks'[i] = microtasks[i]
      BY <1>1, <1>2, <2>1, <2>2
    <2>4. Injective(Tail(call)) /\ Tail(call) # <<>>
      <3>1. Len(Tail(call)) # 0
        BY <1>5, <1>12
      <3>2. \A i \in 1..(Len(call) - 1) : i + 1 \in 1..Len(call)
        BY <1>5
      <3>3. \A i, j \in 1..(Len(call) - 1) : i + 1 = j + 1 => i = j
        BY <1>5
      <3>4. Injective(Tail(call))
        BY <1>4, <1>5, <3>2, <3>3 DEF Injective
      <3>5. Len(<<>>) = 0
        OBVIOUS
      <3>6. Tail(call) # <<>>
        BY <3>1, <3>5
      <3> QED
        BY <3>4, <3>6
    <2>5. \A i \in 1..n : microtasks'[i].revision = microtasks[i].revision
      BY <1>1, <2>2, <2>3 DEF event
    <2>6. QueueOK'
      <3>1. \A i \in 1..n : microtasks'[i].call # <<>> /\ Injective(microtasks'[i].call)
        <4> TAKE i \in 1..n
        <4>1. CASE i = 1
          BY <2>2, <2>3, <2>4, <4>1
        <4>2. CASE i # 1
          <5>1. i \in 2..n
            BY <1>1, <4>2
          <5> QED
            BY <1>3, <2>3, <5>1
        <4> QED
          BY <4>1, <4>2
      <3>2. Injective(subscriptions')
        BY <1>3, <1>6
      <3>3. \A i, j \in 1..n :
              i < j => microtasks'[i].revision < microtasks'[j].revision
        BY <1>3, <2>5
      <3>4. \A i \in 1..n : microtasks'[i].revision <= revision'
        BY <1>3, <1>6, <2>5
      <3> QED
        BY <2>3, <3>1, <3>2, <3>3, <3>4 DEF QueueOK, Injective
    <2>7. \A x, r : Queued(x, r)' <=>
            \/ r = event.revision /\ \E k \in 1..(Len(call) - 1) : call[k + 1] = x
            \/ \E i \in 2..n : microtasks[i].revision = r /\ InCall(x, microtasks[i])
      <3>1. 1..n = {1} \cup 2..n
        BY <1>1
      <3>2. \A x : InCall(x, rest) <=> \E k \in 1..(Len(call) - 1) : call[k + 1] = x
        BY <1>5, <2>2 DEF InCall
      <3>3. \A x, r : Queued(x, r)' <=>
              \E i \in 1..n : microtasks'[i].revision = r /\ InCall(x, microtasks'[i])
        BY <2>3 DEF Queued, InCall
      <3> QED
        BY <2>2, <2>3, <3>1, <3>2, <3>3
    <2>8. \A x : (\E k \in 1..(Len(call) - 1) : call[k + 1] = x)
                   <=> (x # s /\ \E k \in 1..Len(call) : call[k] = x)
      <3>1. \A k \in 1..(Len(call) - 1) : k + 1 \in 1..Len(call) /\ k + 1 # 1
        BY <1>5
      <3>2. \A k \in 1..Len(call) : k # 1 =>
              k - 1 \in 1..(Len(call) - 1) /\ (k - 1) + 1 = k
        BY <1>5
      <3>3. 1 \in 1..Len(call) /\ call[1] = s
        BY <1>5 DEF s
      <3>4. \A i, j \in 1..Len(call) : call[i] = call[j] => i = j
        BY <1>4, <1>5 DEF Injective
      <3> QED
        BY <3>1, <3>2, <3>3, <3>4
    <2>9. \A i \in 2..n : microtasks[i].revision # event.revision
      BY <1>1, <1>9
    <2>10. \A x \in Subscribers : \A r \in Nat :
             Queued(x, r)' <=> (Queued(x, r) /\ ~(x = s /\ r = event.revision))
      BY <1>10, <2>7, <2>8, <2>9
    <2>11. \A r \in Nat : Queued(s, r) => r >= event.revision
      BY <1>1, <1>3, <1>4, <1>9 DEF Queued
    <2> QED
      BY <1>4, <1>5, <1>6, <1>8, <2>3, <2>6, <2>10, <2>11 DEF event, s, call
  <1> QED
    BY <1>11, <1>12


LEMMA DeliverStep == ASSUME StoreAssumption, StoreInv, Deliver PROVE StoreInv'
  <1> DEFINE event == microtasks[1]
             s == event.call[1]
             rev == event.revision
  <1>1. /\ microtasks' \in Seq(Event) /\ QueueOK'
        /\ rev \in Nat /\ rev <= revision /\ s \in Subscribers /\ Queued(s, rev)
        /\ \A r \in Nat : Queued(s, r) => r >= rev
        /\ \A x \in Subscribers : \A r \in Nat :
             Queued(x, r)' <=> (Queued(x, r) /\ ~(x = s /\ r = rev))
        /\ delivered' = IF s \in Active
                        THEN [delivered EXCEPT ![s] = Append(@, rev)]
                        ELSE delivered
    BY DeliverTakesOne
  <1> HIDE DEF event, s, rev
  <1>2. UNCHANGED <<snapshot, revision, subscriptions, since>>
    BY DEF Deliver
  <1>3. /\ delivered \in [Subscribers -> Seq(Nat)]
        /\ since \in [Subscribers -> Nat \cup {NotYet}]
        /\ revision \in Nat
        /\ \A x \in Subscribers : SubscriberOK(x) /\ Len(delivered[x]) \in Nat
    BY DEF StoreInv, TypeOK
  <1>4. \A i \in DOMAIN microtasks' : microtasks'[i].revision \in Nat
    <2>1. \A i \in DOMAIN microtasks' : microtasks'[i] \in Event
      BY <1>1, ElementFacts
    <2> QED
      BY <2>1 DEF Event
  <1>5. \A i \in DOMAIN microtasks : microtasks[i].revision \in Nat
    BY EventFacts DEF StoreInv
  <1>6. since[s] # NotYet
    BY <1>1, <1>3 DEF SubscriberOK, Queued
  <1>7. ASSUME s \in Active PROVE rev = Next1(s) /\ since[s] \in Nat
    <2>1. since[s] \in Nat /\ Next1(s) \in Nat
      BY <1>1, <1>3, <1>6 DEF Next1
    <2>2. Next1(s) <= rev
      BY <1>1, <1>3, <1>7 DEF SubscriberOK, Queued
    <2>3. Next1(s) \in Next1(s)..revision
      BY <1>1, <1>3, <2>1, <2>2
    <2>4. Queued(s, Next1(s))
      BY <1>1, <1>3, <1>7, <2>3 DEF SubscriberOK, Queued
    <2> QED
      BY <1>1, <2>1, <2>2, <2>4
  <1>8. \A x \in Subscribers \ {s} : delivered'[x] = delivered[x]
    BY <1>1, <1>3
  <1>9. s \notin Active => delivered'[s] = delivered[s]
    BY <1>1
  <1>10. ASSUME s \in Active
         PROVE  /\ delivered'[s] = Append(delivered[s], rev)
                /\ Len(delivered'[s]) = Len(delivered[s]) + 1
                /\ delivered[s] \in Seq(Nat)
    BY <1>1, <1>3, <1>10
  <1>11. TypeOK'
    <2>1. delivered' \in [Subscribers -> Seq(Nat)]
      BY <1>1, <1>3
    <2> QED
      BY <1>1, <1>2, <2>1 DEF StoreInv, TypeOK, Event
  <1>12. DeliveredInOrder'
    <2>1. ASSUME NEW x \in Subscribers
          PROVE delivered'[x] = [i \in 1..Len(delivered'[x]) |-> since[x] + i]
      <3>1. delivered[x] = [i \in 1..Len(delivered[x]) |-> since[x] + i]
        BY DEF StoreInv, DeliveredInOrder
      <3>2. CASE x = s /\ s \in Active
        <4> DEFINE n == Len(delivered[s])
                   q == delivered'[s]
        <4>1. /\ DOMAIN q = 1..(n + 1) /\ Len(q) = n + 1 /\ n \in Nat
              /\ q[n + 1] = rev /\ \A i \in 1..n : q[i] = delivered[s][i]
          BY <1>1, <1>10, <3>2, AppendFacts
        <4>2. rev = since[s] + (n + 1) /\ since[s] \in Nat
          BY <1>3, <1>7, <3>2, <4>1 DEF Next1
        <4>3. \A i \in 1..n : delivered[s][i] = since[s] + i
          BY <3>1, <3>2
        <4>4. q \in Seq(Nat)
          BY <1>1, <1>11 DEF TypeOK
        <4> HIDE DEF n, q
        <4>5. \A i \in 1..(n + 1) : q[i] = since[s] + i
          <5> TAKE i \in 1..(n + 1)
          <5>1. i = n + 1 \/ i \in 1..n
            BY <4>1
          <5> QED
            BY <4>1, <4>2, <4>3, <5>1
        <4>6. q = [i \in 1..(n + 1) |-> since[s] + i]
          BY <4>1, <4>4, <4>5
        <4> QED
          BY <3>2, <4>1, <4>6 DEF q
      <3>3. CASE ~(x = s /\ s \in Active)
        <4>1. delivered'[x] = delivered[x]
          BY <1>8, <1>9, <3>3
        <4> QED
          BY <3>1, <4>1
      <3> QED
        BY <3>2, <3>3
    <2> QED
      BY <1>2, <2>1 DEF DeliveredInOrder
  <1>13. ASSUME NEW x \in Subscribers PROVE SubscriberOK(x)'
    <2>1. /\ Active' = Active /\ since'[x] = since[x] /\ revision' = revision
          /\ SubscriberOK(x)
      BY <1>2, <1>3 DEF Active
    <2>2. CASE since[x] = NotYet
      <3>1. x # s
        BY <1>6, <2>2
      <3>2. \A r \in Nat : ~Queued(x, r)
        BY <2>1, <2>2 DEF SubscriberOK, Queued
      <3>3. \A r \in Nat : ~Queued(x, r)'
        BY <1>1, <3>2
      <3>4. \A i \in DOMAIN microtasks' : ~InCall(x, microtasks'[i])
        BY <1>4, <3>3 DEF Queued, InCall
      <3> QED
        BY <1>8, <2>1, <2>2, <3>1, <3>4 DEF SubscriberOK
    <2>3. CASE since[x] # NotYet /\ x \notin Active
      BY <2>1, <2>3 DEF SubscriberOK
    <2>4. CASE since[x] # NotYet /\ x \in Active
      <3>1. /\ since[x] \in Nat /\ Next1(x) \in Nat
            /\ Next1(x) <= revision + 1
            /\ Next1(x)' = IF x = s THEN Next1(x) + 1 ELSE Next1(x)
        BY <1>2, <1>3, <1>8, <1>10, <2>1, <2>4 DEF Next1, SubscriberOK
      <3>2. /\ \A r \in Nat : Queued(x, r) => r >= Next1(x)
            /\ \A r \in Next1(x)..revision : Queued(x, r)
        BY <2>1, <2>4 DEF SubscriberOK, Queued
      <3>3. /\ \A r \in Nat : Queued(x, r)' => r >= Next1(x)'
            /\ \A r \in Next1(x)'..revision : Queued(x, r)'
            /\ Next1(x)' <= revision + 1
        <4>1. CASE x = s
          <5>1. rev = Next1(x)
            BY <1>7, <2>4, <4>1
          <5>2. \A r \in Nat : Queued(x, r)' <=> (Queued(x, r) /\ r # Next1(x))
            BY <1>1, <4>1, <5>1
          <5> QED
            <6>1. Next1(x)' = Next1(x) + 1 /\ Next1(x) <= revision
              BY <1>1, <3>1, <4>1, <5>1
            <6>2. \A r \in Next1(x)'..revision :
                    r \in Next1(x)..revision /\ r # Next1(x) /\ r \in Nat
              BY <1>3, <3>1, <6>1
            <6>3. \A r \in Next1(x)'..revision : Queued(x, r)'
              BY <3>2, <5>2, <6>2
            <6>4. \A r \in Nat : Queued(x, r)' => r >= Next1(x)'
              BY <3>1, <3>2, <5>2, <6>1
            <6> QED
              BY <1>3, <3>1, <6>1, <6>3, <6>4
        <4>2. CASE x # s
          <5>1. \A r \in Nat : Queued(x, r)' <=> Queued(x, r)
            BY <1>1, <4>2
          <5> QED
            BY <1>3, <3>1, <3>2, <4>2, <5>1
        <4> QED
          BY <4>1, <4>2
      <3>4. \A i \in DOMAIN microtasks' :
              InCall(x, microtasks'[i]) => microtasks'[i].revision >= Next1(x)'
        BY <1>4, <3>3 DEF Queued, InCall
      <3>5. \A r \in Next1(x)'..revision :
              \E i \in DOMAIN microtasks' :
                microtasks'[i].revision = r /\ InCall(x, microtasks'[i])
        BY <3>3 DEF Queued, InCall
      <3> QED
        BY <2>1, <2>4, <3>3, <3>4, <3>5 DEF SubscriberOK, InCall
    <2> QED
      BY <2>2, <2>3, <2>4
  <1> QED
    BY <1>1, <1>2, <1>11, <1>12, <1>13 DEF StoreInv

LEMMA NextStoreInv ==
  ASSUME StoreAssumption, StoreInv, [Next]_vars PROVE StoreInv'
  <1>1. ASSUME NEW c \in Commands, Dispatch(c) PROVE StoreInv'
    BY <1>1, DispatchStep
  <1>2. ASSUME NEW s \in Subscribers, Subscribe(s) PROVE StoreInv'
    BY <1>2, SubscribeStep
  <1>3. ASSUME NEW s \in Subscribers, Unsubscribe(s) PROVE StoreInv'
    BY <1>3, UnsubscribeStep
  <1>4. CASE Deliver
    BY <1>4, DeliverStep
  <1>5. CASE UNCHANGED vars
    BY <1>5 DEF vars, StoreInv, TypeOK, QueueOK, DeliveredInOrder, SubscriberOK,
       Active, Next1, InCall
  <1> QED
    BY <1>1, <1>2, <1>3, <1>4, <1>5 DEF Next

----------------------------------------------------------------------------

\* The inductive invariant holds: it keeps the fields of the snapshot together
\* and says of every subscriber exactly which changes still wait for it.
THEOREM Invariance == Spec => []StoreInv
  <1>1. Init => StoreInv
    BY InitStoreInv, StoreAssumption
  <1>2. StoreInv /\ [Next]_vars => StoreInv'
    BY NextStoreInv, StoreAssumption
  <1> QED
    BY <1>1, <1>2, PTL DEF Spec

\* The variables keep their types, whatever is dispatched.
THEOREM TypeCorrect == Spec => []TypeOK
  <1>1. StoreInv => TypeOK
    BY DEF StoreInv
  <1> QED
    BY <1>1, Invariance, PTL

\* spawnCompleted and the connection always agree.
THEOREM SpawnAlwaysAgrees == Spec => []SpawnAgrees
  <1>1. StoreInv => SpawnAgrees
    BY DEF StoreInv, Consistent, MinecraftOK, SpawnAgrees
  <1> QED
    BY <1>1, Invariance, PTL

\* No reading outlives the validity of the telemetry it came with.
THEOREM TelemetryNeverStale == Spec => []NoStaleTelemetry
  <1>1. StoreInv => NoStaleTelemetry
    BY DEF StoreInv, Consistent, MinecraftOK, NoStaleTelemetry
  <1> QED
    BY <1>1, Invariance, PTL

\* A detected player leaves the runtime no way back.
THEOREM DetectionAlwaysStops == Spec => []DetectionStops
  <1>1. StoreInv => DetectionStops
    BY DEF StoreInv, Consistent, DetectionStops
  <1> QED
    BY <1>1, Invariance, PTL

\* The task record's times and its state agree.
THEOREM TaskTimesAlwaysAgree == Spec => []TaskTimesAgree
  <1>1. StoreInv => TaskTimesAgree
    BY DEF StoreInv, Consistent, TaskOK, TaskTimesAgree
  <1> QED
    BY <1>1, Invariance, PTL

\* Together: the fields that several commands write stay in agreement, whatever
\* the callers dispatch, in any order.
THEOREM FieldsAlwaysAgree == Spec => []FieldsAgree
  BY SpawnAlwaysAgrees, TelemetryNeverStale, DetectionAlwaysStops,
     TaskTimesAlwaysAgree, PTL DEF FieldsAgree

\* A not resumable denial is kept for the rest of the process.
THEOREM DenialsAreFinal == Spec => DenialIsFinal
  <1>1. \A s : Resumable(s) <=> ~Final(s)
    BY DEF Resumable
  <1>2. \A s : Final(s) => ~Allows(s)
    BY DEF Final, Allows, StopRequested
  <1>3. ASSUME StoreInv, [Next]_vars, Final(snapshot) PROVE Final(snapshot')
    <2>1. ASSUME NEW c \in Commands, Dispatch(c) PROVE Final(snapshot')
      <3>1. c \in Dispatched
        BY StoreAssumption DEF StoreAssumption, Dispatched
      <3> QED
        BY <1>3, <2>1, <3>1, StoreAssumption, CommandsKeepConsistent
           DEF StoreInv, Dispatch
    <2>2. CASE UNCHANGED snapshot
      BY <1>3, <2>2
    <2> QED
      BY <1>3, <2>1, <2>2 DEF Next, Subscribe, Unsubscribe, Deliver, vars
  <1>4. StoreInv /\ [Next]_vars =>
          [~Resumable(snapshot) => ~Resumable(snapshot') /\ ~Allows(snapshot')]_vars
    BY <1>1, <1>2, <1>3
  <1> QED
    BY <1>4, Invariance, PTL DEF Spec, DenialIsFinal

\* Every subscriber sees consecutive revisions from its subscription on.
THEOREM DeliveredAlwaysInOrder == Spec => []DeliveredInOrder
  <1>1. StoreInv => DeliveredInOrder
    BY DEF StoreInv
  <1> QED
    BY <1>1, Invariance, PTL

\* An idle queue means that every present subscriber has seen every change.
THEOREM AlwaysCaughtUp == Spec => []CaughtUp
  <1>1. ASSUME StoreInv, microtasks = <<>>, NEW s \in Active
        PROVE  Len(delivered[s]) = revision - since[s]
    <2>1. s \in Subscribers
      BY <1>1, ElementFacts DEF StoreInv, TypeOK, Active
    <2>2. /\ SubscriberOK(s) /\ since[s] \in Nat \cup {NotYet}
          /\ Len(delivered[s]) \in Nat /\ revision \in Nat
      BY <1>1, <2>1 DEF StoreInv, TypeOK
    <2>3. since[s] \in Nat /\ Next1(s) <= revision + 1
      BY <1>1, <2>2 DEF SubscriberOK
    <2>4. ~(Next1(s) \in Next1(s)..revision)
      BY <1>1, <2>2 DEF SubscriberOK
    <2> QED
      BY <2>2, <2>3, <2>4 DEF Next1
  <1>2. StoreInv => CaughtUp
    BY <1>1 DEF CaughtUp
  <1> QED
    BY <1>2, Invariance, PTL

\* Every subscriber sees every change once, in order, for any number of both.
THEOREM EveryChangeSeenOnce == Spec => []EveryChangeOnce
  BY DeliveredAlwaysInOrder, AlwaysCaughtUp, PTL DEF EveryChangeOnce

\* Whoever unsubscribed is never called again.
THEOREM SilenceIsKept == Spec => SilentAfterUnsubscribe
  <1>1. StoreInv /\ [Next]_vars =>
          [\A s \in Subscribers :
             since[s] # NotYet /\ s \notin Active => delivered'[s] = delivered[s]]_vars
    <2> SUFFICES ASSUME StoreInv, [Next]_vars, NEW s \in Subscribers, s \notin Active
                 PROVE  delivered'[s] = delivered[s]
      OBVIOUS
    <2>1. CASE Deliver
      BY <2>1 DEF Deliver, Receives, StoreInv, TypeOK
    <2>2. CASE UNCHANGED delivered
      BY <2>2
    <2> QED
      BY <2>1, <2>2 DEF Next, Dispatch, Subscribe, Unsubscribe, vars
  <1> QED
    BY <1>1, Invariance, PTL DEF Spec, SilentAfterUnsubscribe

=============================================================================
