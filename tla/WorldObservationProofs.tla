----------------------- MODULE WorldObservationProofs -----------------------
(***************************************************************************)
(* What the observation port may give out, for any dimensions, positions,  *)
(* blocks, items and listeners, any size of the cache and any number of    *)
(* packets.                                                                *)
(***************************************************************************)
EXTENDS WorldObservation, FiniteSetTheorems, TLAPS

\* What is held of the world is what was told last, and nothing is held
\* outside the stretch in which the BOT is spawned but the item registry.
Current(s, t) ==
  /\ IsFiniteSet(s.blocks)
  /\ \A e \in s.blocks : e.block = t.blocks[e.position] /\ e.since <= s.revision
  /\ s.held \in {NoValue, t.held}
  /\ s.registry.network \in {NoValue, t.network}
  /\ ~Ready(s) => s.blocks = {} /\ s.held = NoValue

ObservationInv ==
  /\ TypeOK
  /\ Current(snapshot, told)
  /\ Ready(snapshot) => snapshot.dimension = dimension

LEMMA SnapshotFields ==
  ASSUME NEW s \in Snapshots
  PROVE  /\ s.revision \in Nat /\ s.generation \in Nat
         /\ s.availability \in {"disconnected", "pre_spawn", "ready", "dimension_transition"}
         /\ s.dimension \in Dimensions \union {NoValue}
         /\ s.held \in Items \union {NoValue, Inconsistent}
         /\ s.registry \in [network : Networks \union {NoValue, Inconsistent}, generation : Nat]
         /\ s.blocks \subseteq Cached
  BY DEF Snapshots

LEMMA RevisedFields ==
  ASSUME NEW s \in Snapshots, NEW r \in Nat
  PROVE  LET n == [s EXCEPT !.revision = r]
         IN  /\ n \in Snapshots /\ n.revision = r
             /\ n.availability = s.availability /\ n.generation = s.generation
             /\ n.dimension = s.dimension /\ n.held = s.held
             /\ n.registry = s.registry /\ n.blocks = s.blocks
  BY DEF Snapshots

LEMMA ClearedFields ==
  ASSUME NEW s \in Snapshots
  PROVE  LET n == Cleared(s)
         IN  /\ n \in Snapshots /\ n.revision = s.revision
             /\ n.availability = s.availability /\ n.generation = s.generation
             /\ n.dimension = s.dimension /\ n.held = NoValue
             /\ n.registry = NoRegistry /\ n.blocks = {}
  BY DEF Snapshots, Cleared, NoRegistry

LEMMA StartedFields ==
  ASSUME NEW s \in Snapshots, NEW d \in Dimensions
  PROVE  LET n == Started(s, d)
         IN  /\ n \in Snapshots /\ n.revision = s.revision
             /\ n.availability = "pre_spawn" /\ n.generation = s.generation + 1
             /\ n.held = NoValue /\ n.registry = NoRegistry /\ n.blocks = {}
  <1> DEFINE c == Cleared(s)
  <1>1. /\ c \in Snapshots /\ c.revision = s.revision /\ c.held = NoValue
        /\ c.registry = NoRegistry /\ c.blocks = {}
    BY ClearedFields
  <1>2. Started(s, d) = [c EXCEPT !.availability = "pre_spawn",
                                  !.generation = s.generation + 1, !.dimension = d]
    BY DEF Started
  <1>3. s.generation + 1 \in Nat
    BY SnapshotFields
  <1> DEFINE g == s.generation + 1
  <1> HIDE DEF c, g
  <1>4. Started(s, d) = [c EXCEPT !.availability = "pre_spawn", !.generation = g, !.dimension = d]
        /\ g \in Nat
    BY <1>2, <1>3 DEF g
  <1> QED
    <2> DEFINE n == [c EXCEPT !.availability = "pre_spawn", !.generation = g, !.dimension = d]
    <2>1. n \in Snapshots
      BY <1>1, <1>4 DEF Snapshots
    <2>2. /\ n.revision = c.revision /\ n.availability = "pre_spawn" /\ n.generation = g
          /\ n.held = c.held /\ n.registry = c.registry /\ n.blocks = c.blocks
      BY <1>1, <1>4 DEF Snapshots
    <2> HIDE DEF n
    <2> QED
      BY <1>1, <1>4, <2>1, <2>2 DEF g, n

LEMMA SpawnFields ==
  ASSUME NEW s \in Snapshots, NEW d \in Dimensions,
         s.availability = "pre_spawn", s.blocks = {}, s.held = NoValue
  PROVE  LET n == SpawnCompleted(s, d)
         IN  /\ n \in Snapshots /\ n.revision = s.revision
             /\ n.availability = "ready" /\ n.generation = s.generation
             /\ n.dimension = d /\ n.held = NoValue
             /\ n.registry \in {s.registry, NoRegistry} /\ n.blocks = {}
  <1> DEFINE c == IF s.dimension = d THEN s ELSE Cleared(s)
  <1>1. /\ c \in Snapshots /\ c.revision = s.revision /\ c.held = NoValue
        /\ c.generation = s.generation
        /\ c.registry \in {s.registry, NoRegistry} /\ c.blocks = {}
    BY ClearedFields
  <1>2. SpawnCompleted(s, d) = [c EXCEPT !.availability = "ready", !.dimension = d]
    BY DEF SpawnCompleted
  <1> HIDE DEF c
  <1> QED
    BY <1>1, <1>2 DEF Snapshots

LEMMA ChangingFields ==
  ASSUME NEW s \in Snapshots, NEW d \in Dimensions \union {NoValue}
  PROVE  LET n == Changing(s, d)
         IN  /\ n \in Snapshots /\ n.revision = s.revision
             /\ n.availability = "dimension_transition" /\ n.generation = s.generation
             /\ n.held = NoValue /\ n.registry = NoRegistry /\ n.blocks = {}
  <1> DEFINE c == Cleared(s)
  <1>1. /\ c \in Snapshots /\ c.revision = s.revision /\ c.held = NoValue
        /\ c.generation = s.generation
        /\ c.registry = NoRegistry /\ c.blocks = {}
    BY ClearedFields
  <1>2. Changing(s, d) = [c EXCEPT !.availability = "dimension_transition", !.dimension = d]
    BY DEF Changing
  <1> HIDE DEF c
  <1> QED
    BY <1>1, <1>2 DEF Snapshots

LEMMA DisconnectedFields ==
  ASSUME NEW s \in Snapshots
  PROVE  LET n == Disconnected(s)
         IN  /\ n \in Snapshots /\ n.revision = s.revision
             /\ n.availability = "disconnected" /\ n.generation = s.generation
             /\ n.held = NoValue /\ n.registry = NoRegistry /\ n.blocks = {}
  <1> DEFINE c == Cleared(s)
  <1>1. /\ c \in Snapshots /\ c.revision = s.revision /\ c.held = NoValue
        /\ c.generation = s.generation
        /\ c.registry = NoRegistry /\ c.blocks = {}
    BY ClearedFields
  <1>2. Disconnected(s) = [c EXCEPT !.availability = "disconnected", !.dimension = NoValue]
    BY DEF Disconnected
  <1> HIDE DEF c
  <1> QED
    BY <1>1, <1>2 DEF Snapshots

LEMMA WithBlockFields ==
  ASSUME NEW s \in Snapshots, NEW p \in Positions, NEW b \in Blocks, IsFiniteSet(s.blocks)
  PROVE  LET n == WithBlock(s, p, b)
         IN  /\ n \in Snapshots /\ n.revision = s.revision
             /\ n.availability = s.availability /\ n.generation = s.generation
             /\ n.dimension = s.dimension /\ n.held = s.held /\ n.registry = s.registry
             /\ IsFiniteSet(n.blocks)
             /\ \A e \in n.blocks :
                  e = Entry(s, p, b) \/ (e \in s.blocks /\ e.position # p)
  <1> DEFINE kept == {e \in s.blocks : e.position # p}
             cache == kept \union {Entry(s, p, b)}
  <1>1. Entry(s, p, b) \in Cached
    BY DEF Entry, Cached, Snapshots
  <1>2. cache \subseteq Cached /\ IsFiniteSet(cache)
    <2>1. IsFiniteSet(kept)
      BY FS_Subset
    <2> QED
      BY <1>1, <2>1, FS_AddElement, SnapshotFields
  <1>3. Shifted(cache) \subseteq cache
    BY DEF Shifted
  <1>4. IsFiniteSet(Shifted(cache)) /\ Shifted(cache) \subseteq Cached
    BY <1>2, <1>3, FS_Subset
  <1>5. WithBlock(s, p, b) = [s EXCEPT !.blocks = Shifted(cache)]
    BY DEF WithBlock
  <1>6. \A e \in Shifted(cache) : e = Entry(s, p, b) \/ (e \in s.blocks /\ e.position # p)
    BY <1>3
  <1> HIDE DEF cache
  <1> QED
    BY <1>4, <1>5, <1>6 DEF Snapshots

----------------------------------------------------------------------------
(* A command that is accepted                                              *)

\* What is left of a command that is an event.
LEMMA ChangesFacts ==
  ASSUME TypeOK, NEW next \in Snapshots, Changes(next), next.revision = snapshot.revision
  PROVE  /\ snapshot' \in Snapshots /\ queue' \in [Listeners -> Seq(Nat)]
         /\ snapshot'.availability = next.availability
         /\ snapshot'.generation = next.generation
         /\ snapshot'.dimension = next.dimension /\ snapshot'.held = next.held
         /\ snapshot'.registry = next.registry /\ snapshot'.blocks = next.blocks
         /\ snapshot'.revision = next.revision + 1
  <1> DEFINE r == snapshot.revision + 1
  <1>1. r \in Nat
    BY SnapshotFields DEF TypeOK
  <1>2. /\ snapshot' = [next EXCEPT !.revision = r]
        /\ queue' = [l \in Listeners |->
             IF l \in listening THEN Append(queue[l], r) ELSE queue[l]]
    BY DEF Changes
  <1> HIDE DEF r
  <1>3. queue' \in [Listeners -> Seq(Nat)]
    BY <1>1, <1>2 DEF TypeOK
  <1>4. snapshot'.revision = r /\ r = next.revision + 1
    BY <1>1, <1>2, RevisedFields DEF r
  <1> QED
    BY <1>1, <1>2, <1>3, <1>4, RevisedFields

Takes(next) == IF next = snapshot THEN Unchanged ELSE Changes(next)

LEMMA TakesFacts ==
  ASSUME TypeOK, NEW next \in Snapshots, Takes(next), next.revision = snapshot.revision
  PROVE  /\ snapshot' \in Snapshots /\ queue' \in [Listeners -> Seq(Nat)]
         /\ snapshot'.availability = next.availability
         /\ snapshot'.generation = next.generation
         /\ snapshot'.dimension = next.dimension /\ snapshot'.held = next.held
         /\ snapshot'.registry = next.registry /\ snapshot'.blocks = next.blocks
         /\ snapshot' = next \/ snapshot'.revision = next.revision + 1
         /\ snapshot'.revision >= next.revision
  <1>1. CASE next = snapshot
    BY <1>1, SnapshotFields DEF Takes, Unchanged, TypeOK
  <1>2. CASE next # snapshot
    BY <1>2, ChangesFacts, SnapshotFields DEF Takes
  <1> QED
    BY <1>1, <1>2

\* Everything but the snapshot, what the server said and the queues.
LEMMA ReceivesFacts ==
  ASSUME TypeOK, Receives
  PROVE  /\ sequence' \in Nat /\ sequence' > accepted /\ accepted \in 0..sequence'
         /\ sequence' \in 0..sequence'
         /\ {attached, portClosed, storeClosed}' \subseteq BOOLEAN
         /\ listening' \subseteq Listeners /\ heard' \in [Listeners -> Nat] /\ endedAt' \in Nat
  BY DEF TypeOK, Receives

LEMMA ObservedFacts ==
  ASSUME TypeOK, NEW allowed \in BOOLEAN, NEW next,
         sequence' \in Nat, sequence' > accepted, DispatchObserved(allowed, next)
  PROVE  /\ accepted' \in 0..sequence'
         /\ allowed => Takes(next)
         /\ ~allowed => snapshot' = snapshot /\ queue' = queue
  BY DEF DispatchObserved, Accepts, Takes, Unchanged, TypeOK

LEMMA DispatchFacts ==
  ASSUME TypeOK, NEW next, sequence' \in Nat, sequence' > accepted, Dispatch(TRUE, next)
  PROVE  accepted' \in 0..sequence' /\ Changes(next)
  BY DEF Dispatch, Accepts

\* A command that empties the store, outside the stretch of a spawned BOT.
LEMMA EmptiedIsCurrent ==
  ASSUME NEW s, NEW t, s.blocks = {}, s.held = NoValue, s.registry.network = NoValue
  PROVE  Current(s, t)
  BY FS_EmptySet DEF Current

LEMMA ToldTypes ==
  NothingTold \in [held : Items \union {NoValue, Inconsistent},
                   network : Networks \union {NoValue, Inconsistent},
                   blocks : [Positions -> Blocks \union {NoValue}]]
  BY DEF NothingTold

LEMMA StartGameKeeps ==
  ASSUME ObservationInv, NEW d \in Dimensions, StartGame(d)
  PROVE  ObservationInv' /\ snapshot'.generation = snapshot.generation + 1
  <1> DEFINE n == Started(snapshot, d)
  <1>1. /\ TypeOK /\ Receives /\ dimension' = d /\ told' = NothingTold
        /\ Dispatch(TRUE, n)
    BY DEF StartGame, ObservationInv
  <1>2. /\ n \in Snapshots /\ n.revision = snapshot.revision /\ n.availability = "pre_spawn"
        /\ n.generation = snapshot.generation + 1
        /\ n.held = NoValue /\ n.registry = NoRegistry /\ n.blocks = {}
    BY <1>1, StartedFields DEF TypeOK
  <1> HIDE DEF n
  <1>3. accepted' \in 0..sequence' /\ Changes(n)
    BY <1>1, ReceivesFacts, DispatchFacts
  <1>4. TypeOK'
    BY <1>1, <1>2, <1>3, ReceivesFacts, ChangesFacts, ToldTypes DEF TypeOK
  <1>5. Current(snapshot, told)'
    BY <1>1, <1>2, <1>3, ChangesFacts, EmptiedIsCurrent DEF NoRegistry
  <1> QED
    BY <1>1, <1>2, <1>3, <1>4, <1>5, ChangesFacts DEF ObservationInv, Ready

LEMMA SpawnKeeps ==
  ASSUME ObservationInv, Spawn
  PROVE  ObservationInv' /\ snapshot.availability = "pre_spawn"
           /\ snapshot'.availability = "ready" /\ snapshot.blocks = {}
  <1> DEFINE n == SpawnCompleted(snapshot, dimension)
  <1>1. /\ TypeOK /\ Receives /\ dimension \in Dimensions
        /\ dimension' = dimension /\ told' = told
        /\ snapshot.availability = "pre_spawn" /\ Dispatch(TRUE, n)
    BY DEF Spawn, AwaitsSpawn, ObservationInv, TypeOK
  <1>2. snapshot.blocks = {} /\ snapshot.held = NoValue
        /\ snapshot.registry.network \in {NoValue, told.network}
    BY <1>1 DEF ObservationInv, Current, Ready
  <1>3. /\ n \in Snapshots /\ n.revision = snapshot.revision /\ n.availability = "ready"
        /\ n.dimension = dimension /\ n.held = NoValue
        /\ n.registry \in {snapshot.registry, NoRegistry} /\ n.blocks = {}
    BY <1>1, <1>2, SpawnFields DEF TypeOK
  <1> HIDE DEF n
  <1>4. accepted' \in 0..sequence' /\ Changes(n)
    BY <1>1, ReceivesFacts, DispatchFacts
  <1>5. TypeOK'
    BY <1>1, <1>3, <1>4, ReceivesFacts, ChangesFacts DEF TypeOK
  <1>6. Current(snapshot, told)'
    <2>1. /\ snapshot'.availability = "ready" /\ snapshot'.held = NoValue
          /\ snapshot'.blocks = {} /\ snapshot'.registry \in {snapshot.registry, NoRegistry}
      BY <1>1, <1>3, <1>4, ChangesFacts
    <2>2. snapshot'.registry.network \in {NoValue, told'.network}
      BY <1>1, <1>2, <2>1 DEF NoRegistry
    <2> QED
      BY <2>1, <2>2, FS_EmptySet DEF Current, Ready
  <1> QED
    BY <1>1, <1>2, <1>3, <1>4, <1>5, <1>6, ChangesFacts DEF ObservationInv

LEMMA ItemRegistryKeeps ==
  ASSUME ObservationInv, NEW m \in Networks \union {Inconsistent}, ItemRegistry(m)
  PROVE  ObservationInv' /\ snapshot'.availability = snapshot.availability
           /\ snapshot'.blocks = snapshot.blocks
  <1> DEFINE r == [network |-> m,
                   generation |-> IF m = Inconsistent THEN 0 ELSE snapshot.generation]
             n == [snapshot EXCEPT !.registry = r]
  <1>1. /\ TypeOK /\ Receives /\ dimension' = dimension
        /\ told' = [told EXCEPT !.network = m] /\ DispatchObserved(TRUE, n)
    BY DEF ItemRegistry, ObservationInv
  <1>2. r \in [network : Networks \union {NoValue, Inconsistent}, generation : Nat]
        /\ r.network = m
    BY <1>1, SnapshotFields DEF TypeOK
  <1> HIDE DEF r
  <1>3. /\ n \in Snapshots /\ n.revision = snapshot.revision
        /\ n.availability = snapshot.availability /\ n.dimension = snapshot.dimension
        /\ n.held = snapshot.held /\ n.registry = r /\ n.blocks = snapshot.blocks
    BY <1>1, <1>2 DEF TypeOK, Snapshots
  <1> HIDE DEF n
  <1>4. accepted' \in 0..sequence' /\ Takes(n)
    BY <1>1, ReceivesFacts, ObservedFacts
  <1>5. /\ told'.network = m /\ told'.held = told.held /\ told'.blocks = told.blocks
        /\ told' \in [held : Items \union {NoValue, Inconsistent},
                      network : Networks \union {NoValue, Inconsistent},
                      blocks : [Positions -> Blocks \union {NoValue}]]
    BY <1>1 DEF TypeOK
  <1>6. TypeOK'
    BY <1>1, <1>3, <1>4, <1>5, ReceivesFacts, TakesFacts DEF TypeOK
  <1>7. snapshot'.revision >= snapshot.revision /\ snapshot'.revision \in Nat
        /\ \A e \in snapshot.blocks : e.since \in Nat
        /\ snapshot.revision \in Nat
    BY <1>1, <1>3, <1>4, TakesFacts, SnapshotFields DEF TypeOK, Cached
  <1>8. Current(snapshot, told)'
    BY <1>2, <1>3, <1>4, <1>5, <1>7, <1>1, TakesFacts DEF ObservationInv, Current, Ready
  <1> QED
    BY <1>1, <1>3, <1>4, <1>6, <1>8, TakesFacts DEF ObservationInv, Ready

LEMMA ChangeDimensionKeeps ==
  ASSUME ObservationInv, NEW d \in Dimensions \union {NoValue}, ChangeDimension(d)
  PROVE  ObservationInv' /\ snapshot'.availability = "dimension_transition"
  <1> DEFINE n == Changing(snapshot, d)
  <1>1. /\ TypeOK /\ Receives /\ dimension' = d /\ told' = NothingTold
        /\ Dispatch(TRUE, n)
    BY DEF ChangeDimension, ObservationInv
  <1>2. /\ n \in Snapshots /\ n.revision = snapshot.revision
        /\ n.availability = "dimension_transition"
        /\ n.held = NoValue /\ n.registry = NoRegistry /\ n.blocks = {}
    BY <1>1, ChangingFields DEF TypeOK
  <1> HIDE DEF n
  <1>3. accepted' \in 0..sequence' /\ Changes(n)
    BY <1>1, ReceivesFacts, DispatchFacts
  <1>4. TypeOK'
    BY <1>1, <1>2, <1>3, ReceivesFacts, ChangesFacts, ToldTypes DEF TypeOK
  <1>5. Current(snapshot, told)'
    BY <1>1, <1>2, <1>3, ChangesFacts, EmptiedIsCurrent DEF NoRegistry
  <1> QED
    BY <1>1, <1>2, <1>3, <1>4, <1>5, ChangesFacts DEF ObservationInv, Ready

LEMMA MobEquipmentKeeps ==
  ASSUME ObservationInv, NEW i \in Items \union {Inconsistent}, MobEquipment(i)
  PROVE  ObservationInv' /\ snapshot'.availability = snapshot.availability
           /\ snapshot'.blocks = snapshot.blocks
  <1> DEFINE n == [snapshot EXCEPT !.held = i]
  <1>1. /\ TypeOK /\ Receives /\ dimension' = dimension
        /\ told' = [told EXCEPT !.held = i] /\ DispatchObserved(Ready(snapshot), n)
    BY DEF MobEquipment, ObservationInv
  <1>2. /\ n \in Snapshots /\ n.revision = snapshot.revision
        /\ n.availability = snapshot.availability /\ n.dimension = snapshot.dimension
        /\ n.held = i /\ n.registry = snapshot.registry /\ n.blocks = snapshot.blocks
    BY <1>1 DEF TypeOK, Snapshots
  <1> HIDE DEF n
  <1>3. /\ told'.held = i /\ told'.network = told.network /\ told'.blocks = told.blocks
        /\ told' \in [held : Items \union {NoValue, Inconsistent},
                      network : Networks \union {NoValue, Inconsistent},
                      blocks : [Positions -> Blocks \union {NoValue}]]
    BY <1>1 DEF TypeOK
  <1>4. Ready(snapshot) \in BOOLEAN
    BY DEF Ready
  <1>5. /\ accepted' \in 0..sequence'
        /\ Ready(snapshot) => Takes(n)
        /\ ~Ready(snapshot) => snapshot' = snapshot /\ queue' = queue
    BY <1>1, <1>4, ReceivesFacts, ObservedFacts
  <1>6. CASE Ready(snapshot)
    <2>1. TypeOK'
      BY <1>1, <1>2, <1>3, <1>5, <1>6, ReceivesFacts, TakesFacts DEF TypeOK
    <2>2. snapshot'.revision >= snapshot.revision /\ snapshot'.revision \in Nat
          /\ \A e \in snapshot.blocks : e.since \in Nat
          /\ snapshot.revision \in Nat
      BY <1>1, <1>2, <1>5, <1>6, TakesFacts, SnapshotFields DEF TypeOK, Cached
    <2>3. Current(snapshot, told)'
      BY <1>1, <1>2, <1>3, <1>5, <1>6, <2>2, TakesFacts DEF ObservationInv, Current, Ready
    <2> QED
      BY <1>1, <1>2, <1>5, <1>6, <2>1, <2>3, TakesFacts DEF ObservationInv, Ready
  <1>7. CASE ~Ready(snapshot)
    <2>1. TypeOK'
      BY <1>1, <1>3, <1>5, <1>7, ReceivesFacts DEF TypeOK
    <2>2. Current(snapshot, told)'
      BY <1>3, <1>5, <1>7 DEF ObservationInv, Current, Ready
    <2> QED
      BY <1>1, <1>5, <1>7, <2>1, <2>2 DEF ObservationInv, Ready
  <1> QED
    BY <1>6, <1>7

\* What a step of update_block does to the blocks.
Written(p, b) == Takes(WithBlock(snapshot, p, b))

LEMMA UpdateBlockKeeps ==
  ASSUME ObservationInv, NEW z \in Spots, NEW b \in Blocks, UpdateBlock(z, b)
  PROVE  /\ ObservationInv' /\ snapshot'.availability = snapshot.availability
         /\ \/ snapshot' = snapshot
            \/ \E p \in Positions : Written(p, b)
  <1> DEFINE p == <<dimension, z>>
             ok == Ready(snapshot) /\ p[1] = snapshot.dimension
             n == IF Knows(snapshot, p, b) THEN snapshot ELSE WithBlock(snapshot, p, b)
  <1>1. /\ TypeOK /\ Receives /\ dimension' = dimension /\ p \in Positions
        /\ told' = [told EXCEPT !.blocks[p] = b]
        /\ DispatchObserved(ok, n)
    BY DEF UpdateBlock, ObservationInv, TypeOK, Positions
  <1>2. told' \in [held : Items \union {NoValue, Inconsistent},
                   network : Networks \union {NoValue, Inconsistent},
                   blocks : [Positions -> Blocks \union {NoValue}]]
        /\ told'.held = told.held /\ told'.network = told.network
        /\ told'.blocks[p] = b
        /\ \A q \in Positions : q # p => told'.blocks[q] = told.blocks[q]
    BY <1>1 DEF TypeOK
  <1>3. ok \in BOOLEAN /\ (ok <=> Ready(snapshot))
    BY DEF Ready, ObservationInv
  <1>4. /\ snapshot \in Snapshots /\ IsFiniteSet(snapshot.blocks)
        /\ \A e \in snapshot.blocks : e.position \in Positions /\ e.since \in Nat
        /\ snapshot.revision \in Nat
    BY <1>1, SnapshotFields DEF TypeOK, ObservationInv, Current, Cached
  <1>5. \A q \in Positions : q # p => told'.blocks[q] = told.blocks[q]
    BY <1>2
  <1>6. n = snapshot \/ n = WithBlock(snapshot, p, b)
    OBVIOUS
  <1>7. /\ n \in Snapshots /\ n.revision = snapshot.revision
        /\ n.availability = snapshot.availability /\ n.dimension = snapshot.dimension
        /\ n.held = snapshot.held /\ n.registry = snapshot.registry
        /\ IsFiniteSet(n.blocks)
    BY <1>1, <1>4, <1>6, WithBlockFields
  <1>8. ~Knows(snapshot, p, b) =>
          /\ n = WithBlock(snapshot, p, b)
          /\ \A e \in n.blocks : e = Entry(snapshot, p, b)
               \/ (e \in snapshot.blocks /\ e.position # p)
    BY <1>1, <1>4, WithBlockFields
  <1>9. Knows(snapshot, p, b) => n = snapshot /\ told.blocks[p] = b
    BY DEF Knows, ObservationInv, Current
  <1> HIDE DEF p, ok, n
  <1>10. /\ accepted' \in 0..sequence'
         /\ ok => Takes(n)
         /\ ~ok => snapshot' = snapshot /\ queue' = queue
    BY <1>1, <1>3, ReceivesFacts, ObservedFacts
  <1>11. TypeOK'
    <2>1. snapshot' \in Snapshots /\ queue' \in [Listeners -> Seq(Nat)]
      BY <1>1, <1>3, <1>7, <1>10, TakesFacts DEF TypeOK
    <2> QED
      BY <1>1, <1>2, <1>10, <2>1, ReceivesFacts DEF TypeOK
  <1>12. CASE ~ok
    BY <1>1, <1>2, <1>3, <1>10, <1>11, <1>12 DEF ObservationInv, Current, Ready
  <1>13. CASE ok /\ Knows(snapshot, p, b)
    <2>1. n = snapshot /\ told.blocks[p] = b /\ snapshot' = snapshot
      BY <1>9, <1>10, <1>13 DEF Takes, Unchanged
    <2>2. \A q \in Positions : told'.blocks[q] = told.blocks[q]
      BY <1>2, <2>1
    <2>3. Current(snapshot, told)'
      BY <1>2, <1>4, <2>1, <2>2 DEF ObservationInv, Current
    <2> QED
      BY <1>1, <1>11, <2>1, <2>3 DEF ObservationInv
  <1>14. CASE ok /\ ~Knows(snapshot, p, b)
    <2>1. /\ Takes(n) /\ n = WithBlock(snapshot, p, b)
          /\ \A e \in n.blocks : e = Entry(snapshot, p, b)
               \/ (e \in snapshot.blocks /\ e.position # p)
      BY <1>8, <1>10, <1>14
    <2>2. /\ snapshot'.availability = snapshot.availability
          /\ snapshot'.dimension = snapshot.dimension
          /\ snapshot'.held = snapshot.held /\ snapshot'.registry = snapshot.registry
          /\ snapshot'.blocks = n.blocks
          /\ snapshot' = n \/ snapshot'.revision = n.revision + 1
      BY <1>1, <1>7, <2>1, TakesFacts
    <2>3. snapshot'.revision = snapshot.revision + 1
          \/ \A e \in n.blocks : e \in snapshot.blocks /\ e.position # p
      <3>1. CASE n = snapshot
        <4>1. \A e \in snapshot.blocks : e.since <= snapshot.revision
          BY DEF ObservationInv, Current
        <4>2. Entry(snapshot, p, b).since = snapshot.revision + 1
          BY DEF Entry
        <4>3. Entry(snapshot, p, b) \notin snapshot.blocks
          BY <1>4, <4>1, <4>2
        <4> QED
          BY <2>1, <3>1, <4>3
      <3>2. CASE n # snapshot
        <4>1. Changes(n)
          BY <2>1, <3>2 DEF Takes
        <4> QED
          BY <1>4, <1>7, <4>1, RevisedFields DEF Changes
      <3> QED
        BY <3>1, <3>2
    <2>4. \A e \in snapshot'.blocks :
            e.block = told'.blocks[e.position] /\ e.since <= snapshot'.revision
      <3> SUFFICES ASSUME NEW e \in n.blocks
                   PROVE  e.block = told'.blocks[e.position] /\ e.since <= snapshot'.revision
        BY <2>2
      <3>1. CASE e \in snapshot.blocks /\ e.position # p
        <4>1. e.block = told.blocks[e.position] /\ e.since <= snapshot.revision
          BY <3>1 DEF ObservationInv, Current
        <4>2. snapshot'.revision \in Nat /\ snapshot'.revision >= snapshot.revision
          BY <1>1, <1>7, <2>1, TakesFacts, SnapshotFields
        <4> QED
          BY <1>4, <1>5, <3>1, <4>1, <4>2
      <3>2. CASE e = Entry(snapshot, p, b) /\ snapshot'.revision = snapshot.revision + 1
        BY <1>2, <1>4, <3>2 DEF Entry
      <3> QED
        BY <2>1, <2>3, <3>1, <3>2
    <2>5. Current(snapshot, told)'
      BY <1>2, <1>7, <1>3, <1>14, <2>2, <2>4 DEF ObservationInv, Current, Ready
    <2> QED
      BY <1>1, <1>3, <1>11, <1>14, <2>1, <2>2, <2>5 DEF ObservationInv, Ready, Written
  <1> QED
    BY <1>12, <1>13, <1>14

LEMMA ClientClosesKeeps ==
  ASSUME ObservationInv, ClientCloses
  PROVE  ObservationInv' /\ snapshot'.availability = "disconnected"
  <1> DEFINE n == Disconnected(snapshot)
  <1>1. /\ TypeOK /\ sequence' = sequence + 1 /\ dimension' = NoValue /\ told' = NothingTold
        /\ attached' = FALSE /\ endedAt' = snapshot.revision
        /\ UNCHANGED <<portClosed, storeClosed, listening, heard>>
        /\ Dispatch(TRUE, n)
    BY DEF ClientCloses, ObservationInv
  <1>2. /\ n \in Snapshots /\ n.revision = snapshot.revision /\ n.availability = "disconnected"
        /\ n.held = NoValue /\ n.registry = NoRegistry /\ n.blocks = {}
    BY <1>1, DisconnectedFields DEF TypeOK
  <1> HIDE DEF n
  <1>3. sequence' \in Nat /\ sequence' > accepted
    BY <1>1 DEF TypeOK
  <1>4. accepted' \in 0..sequence' /\ Changes(n)
    BY <1>1, <1>3, DispatchFacts
  <1>5. TypeOK'
    <2>1. endedAt' \in Nat
      BY <1>1, SnapshotFields DEF TypeOK
    <2> QED
      BY <1>1, <1>2, <1>3, <1>4, <2>1, ChangesFacts, ToldTypes DEF TypeOK
  <1>6. Current(snapshot, told)'
    BY <1>1, <1>2, <1>4, ChangesFacts, EmptiedIsCurrent DEF NoRegistry
  <1> QED
    BY <1>1, <1>2, <1>4, <1>5, <1>6, ChangesFacts DEF ObservationInv, Ready

LEMMA CloseKeeps ==
  ASSUME ObservationInv, Close
  PROVE  ObservationInv' /\ (snapshot' = snapshot \/ snapshot'.availability = "disconnected")
  <1> DEFINE n == Disconnected(snapshot)
             r == snapshot.revision + 1
  <1>1. /\ TypeOK /\ snapshot \in Snapshots /\ r \in Nat
        /\ dimension' = dimension /\ told' = told /\ heard' = heard /\ endedAt' = endedAt
        /\ portClosed' = TRUE /\ attached' = FALSE /\ storeClosed' = TRUE
        /\ listening' = {} /\ queue' \in [Listeners -> Seq(Nat)]
    <2>1. queue' = [l \in Listeners |-> <<>>] /\ <<>> \in Seq(Nat)
      BY DEF Close
    <2> QED
      BY <2>1, SnapshotFields DEF Close, ObservationInv, TypeOK
  <1>2. /\ n \in Snapshots /\ n.availability = "disconnected"
        /\ n.held = NoValue /\ n.registry = NoRegistry /\ n.blocks = {}
    BY <1>1, DisconnectedFields
  <1>3. CASE UNCHANGED <<sequence, accepted, snapshot>>
    BY <1>1, <1>3 DEF ObservationInv, Current, Ready, TypeOK
  <1>4. CASE /\ sequence' = sequence + 1 /\ accepted' = sequence'
             /\ snapshot' = [n EXCEPT !.revision = r]
    <2> HIDE DEF n, r
    <2>1. /\ snapshot' \in Snapshots /\ snapshot'.availability = "disconnected"
          /\ snapshot'.held = NoValue /\ snapshot'.registry = NoRegistry
          /\ snapshot'.blocks = {}
      BY <1>1, <1>2, <1>4, RevisedFields
    <2>2. TypeOK'
      <3>1. sequence' \in Nat /\ accepted' \in 0..sequence'
        BY <1>1, <1>4 DEF TypeOK
      <3>2. {attached, portClosed, storeClosed}' \subseteq BOOLEAN /\ listening' \subseteq Listeners
        BY <1>1
      <3> QED
        BY <1>1, <2>1, <3>1, <3>2 DEF TypeOK
    <2>3. Current(snapshot, told)'
      BY <2>1, EmptiedIsCurrent DEF NoRegistry
    <2> QED
      BY <2>1, <2>2, <2>3 DEF ObservationInv, Ready
  <1> QED
    BY <1>3, <1>4 DEF Close

\* The listeners come, go and are told: nothing that is given out changes.
LEMMA ListenersKeep ==
  ASSUME ObservationInv, NEW l \in Listeners,
         Subscribe(l) \/ Unsubscribe(l) \/ Deliver(l)
  PROVE  ObservationInv' /\ snapshot' = snapshot
  <1>1. /\ UNCHANGED <<portVars, accepted, storeClosed, snapshot, endedAt, told>> /\ TypeOK
        /\ snapshot.revision \in Nat
    BY SnapshotFields DEF Subscribe, Unsubscribe, Deliver, ObservationInv, TypeOK
  <1>2. listening' \subseteq Listeners
    BY <1>1 DEF Subscribe, Unsubscribe, Deliver, TypeOK
  <1>3. queue' \in [Listeners -> Seq(Nat)] /\ heard' \in [Listeners -> Nat]
    <2>1. CASE Subscribe(l)
      BY <1>1, <2>1 DEF Subscribe, TypeOK
    <2>2. CASE Unsubscribe(l)
      BY <1>1, <2>2 DEF Unsubscribe, TypeOK
    <2>3. CASE Deliver(l)
      <3>1. queue[l] \in Seq(Nat) /\ queue[l] # <<>>
        BY <1>1, <2>3 DEF Deliver, TypeOK
      <3>2. Tail(queue[l]) \in Seq(Nat) /\ Head(queue[l]) \in Nat
        BY <3>1
      <3> QED
        BY <1>1, <2>3, <3>2 DEF Deliver, TypeOK
    <2> QED
      BY <2>1, <2>2, <2>3
  <1>4. TypeOK'
    BY <1>1, <1>2, <1>3 DEF TypeOK, portVars
  <1> QED
    BY <1>1, <1>4 DEF ObservationInv, Current, Ready, portVars

----------------------------------------------------------------------------
(* The invariant, and what a step may do                                   *)

LEMMA InitInv ==
  ASSUME Init
  PROVE  ObservationInv
  <1>1. <<>> \in Seq(Nat)
    OBVIOUS
  <1>2. InitialSnapshot \in Snapshots
    BY DEF InitialSnapshot, Snapshots, NoRegistry
  <1>3. TypeOK
    <2>1. queue \in [Listeners -> Seq(Nat)] /\ heard \in [Listeners -> Nat]
      BY <1>1 DEF Init
    <2>2. /\ dimension \in Dimensions \union {NoValue} /\ sequence \in Nat
          /\ accepted \in 0..sequence /\ {attached, portClosed, storeClosed} \subseteq BOOLEAN
          /\ listening \subseteq Listeners
      <3>1. sequence = 0 /\ accepted = 0 /\ dimension = NoValue /\ listening = {}
        BY DEF Init
      <3>2. attached \in BOOLEAN /\ portClosed \in BOOLEAN /\ storeClosed \in BOOLEAN
        BY DEF Init
      <3> QED
        BY <3>1, <3>2
    <2> QED
      BY <1>2, <2>1, <2>2, ToldTypes DEF Init, TypeOK
  <1>4. Current(snapshot, told)
    BY EmptiedIsCurrent DEF Init, InitialSnapshot, NoRegistry
  <1> QED
    BY <1>3, <1>4 DEF ObservationInv, Init, InitialSnapshot, Ready

Moves ==
  \/ snapshot' = snapshot
  \/ snapshot'.generation = snapshot.generation + 1
  \/ snapshot'.availability \in {"dimension_transition", "disconnected"}
  \/ snapshot.availability = "pre_spawn" /\ snapshot'.availability = "ready"
  \/ /\ snapshot'.availability = snapshot.availability
     /\ \/ snapshot'.blocks = snapshot.blocks
        \/ \E p \in Positions, b \in Blocks : Written(p, b)

LEMMA StepKeeps ==
  ASSUME ObservationInv, [Next]_vars
  PROVE  ObservationInv' /\ Moves
  <1>1. ASSUME NEW d \in Dimensions, StartGame(d)
        PROVE  ObservationInv' /\ Moves
    BY <1>1, StartGameKeeps DEF Moves
  <1>2. CASE Spawn
    BY <1>2, SpawnKeeps DEF Moves
  <1>3. ASSUME NEW m \in Networks \union {Inconsistent}, ItemRegistry(m)
        PROVE  ObservationInv' /\ Moves
    BY <1>3, ItemRegistryKeeps DEF Moves
  <1>4. ASSUME NEW d \in Dimensions \union {NoValue}, ChangeDimension(d)
        PROVE  ObservationInv' /\ Moves
    BY <1>4, ChangeDimensionKeeps DEF Moves
  <1>5. ASSUME NEW z \in Spots, NEW b \in Blocks, UpdateBlock(z, b)
        PROVE  ObservationInv' /\ Moves
    BY <1>5, UpdateBlockKeeps DEF Moves
  <1>6. ASSUME NEW i \in Items \union {Inconsistent}, MobEquipment(i)
        PROVE  ObservationInv' /\ Moves
    BY <1>6, MobEquipmentKeeps DEF Moves
  <1>7. CASE ClientCloses
    BY <1>7, ClientClosesKeeps DEF Moves
  <1>8. CASE Close
    BY <1>8, CloseKeeps DEF Moves
  <1>9. ASSUME NEW l \in Listeners, Subscribe(l) \/ Unsubscribe(l) \/ Deliver(l)
        PROVE  ObservationInv' /\ Moves
    BY <1>9, ListenersKeep DEF Moves
  <1>10. CASE UNCHANGED vars
    BY <1>10 DEF vars, portVars, deliveryVars, ObservationInv, TypeOK, Current, Ready, Moves
  <1> QED
    BY <1>1, <1>2, <1>3, <1>4, <1>5, <1>6, <1>7, <1>8, <1>9, <1>10 DEF Next, Packet

THEOREM InvHolds == Spec => []ObservationInv
  <1>1. Init => ObservationInv
    BY InitInv
  <1>2. ObservationInv /\ [Next]_vars => ObservationInv'
    BY StepKeeps
  <1> QED
    BY <1>1, <1>2, PTL DEF Spec

----------------------------------------------------------------------------
(* The properties                                                          *)

\* The port and the store keep their types, and the commands of the port never
\* come with an old sequence, so that the store drops none of them.
THEOREM TypeCorrect == Spec => []TypeOK
  <1>1. ObservationInv => TypeOK
    BY DEF ObservationInv
  <1> QED
    BY <1>1, InvHolds, PTL

\* getBlock, the held item and getItemNetworkId give out what the server said
\* last since the BOT came to where it is, or nothing.
THEOREM ServedIsCurrentHolds == Spec => []ServedIsCurrent
  <1>1. ASSUME ObservationInv
        PROVE  ServedIsCurrent
    <2>1. \A p \in Positions : GetBlock(p) \subseteq {told.blocks[p]}
      BY <1>1 DEF ObservationInv, Current, GetBlock
    <2>2. snapshot.held \in {NoValue, told.held}
      BY <1>1 DEF ObservationInv, Current
    <2>3. GetItemNetworkId \in {NoValue, told.network}
      BY <1>1 DEF ObservationInv, Current, GetItemNetworkId
    <2> QED
      BY <2>1, <2>2, <2>3 DEF ServedIsCurrent
  <1> QED
    BY <1>1, InvHolds, PTL

\* No packet takes a connection back to a stage it has left: the store is
\* ready in one stretch, which a change of dimension or the end of the
\* connection ends for good.
THEOREM ReadyOncePerConnectionHolds == Spec => ReadyOncePerConnection
  <1> DEFINE Forward ==
        snapshot'.generation = snapshot.generation => Stage(snapshot') >= Stage(snapshot)
  <1>1. ASSUME ObservationInv, [Next]_vars
        PROVE  [Forward]_snapshot
    <2>1. Moves
      BY <1>1, StepKeeps
    <2>2. snapshot.generation \in Nat
      BY <1>1, SnapshotFields DEF ObservationInv, TypeOK
    <2>3. CASE snapshot' = snapshot
      BY <2>3
    <2>4. CASE snapshot'.generation = snapshot.generation + 1
      BY <2>2, <2>4
    <2>5. CASE snapshot'.availability \in {"dimension_transition", "disconnected"}
      BY <2>5 DEF Stage
    <2>6. CASE snapshot.availability = "pre_spawn" /\ snapshot'.availability = "ready"
      BY <2>6 DEF Stage
    <2>7. CASE snapshot'.availability = snapshot.availability
      BY <2>7 DEF Stage
    <2> QED
      BY <2>1, <2>3, <2>4, <2>5, <2>6, <2>7 DEF Moves
  <1>2. ObservationInv /\ [Next]_vars => [Forward]_snapshot
    BY <1>1
  <1> QED
    BY <1>2, InvHolds, PTL DEF Spec, ReadyOncePerConnection

LEMMA WrittenForgets ==
  ASSUME ObservationAssumption, ObservationInv,
         NEW p \in Positions, NEW b \in Blocks, Written(p, b),
         NEW e \in snapshot.blocks \ snapshot'.blocks
  PROVE  \/ \E f \in snapshot'.blocks : f.position = e.position
         \/ /\ Cardinality(snapshot.blocks) >= MaxBlocks
            /\ \A f \in snapshot'.blocks : e.since < f.since
  <1> DEFINE new == Entry(snapshot, p, b)
             kept == {f \in snapshot.blocks : f.position # p}
             cache == kept \union {new}
             n == WithBlock(snapshot, p, b)
  <1>1. /\ TypeOK /\ snapshot \in Snapshots /\ snapshot.revision \in Nat
        /\ IsFiniteSet(snapshot.blocks)
        /\ \A f \in snapshot.blocks : f.since \in Nat /\ f.since <= snapshot.revision
    BY SnapshotFields DEF ObservationInv, TypeOK, Current, Cached
  <1>2. /\ new.since = snapshot.revision + 1 /\ new.position = p
        /\ \A f \in cache : f.since \in Nat
    BY <1>1 DEF Entry
  <1>3. n = [snapshot EXCEPT !.blocks = Shifted(cache)]
    BY DEF WithBlock
  <1>4. n \in Snapshots /\ n.revision = snapshot.revision
    BY <1>1, WithBlockFields
  <1>5. n.blocks = Shifted(cache)
    BY <1>1, <1>3 DEF Snapshots
  <1>6. snapshot'.blocks = Shifted(cache)
    BY <1>1, <1>4, <1>5, TakesFacts DEF Written
  <1>7. IsFiniteSet(kept) /\ Cardinality(kept) \in Nat
        /\ Cardinality(kept) <= Cardinality(snapshot.blocks)
        /\ Cardinality(cache) = Cardinality(kept) + 1
        /\ Cardinality(snapshot.blocks) \in Nat
    <2>1. IsFiniteSet(kept) /\ Cardinality(kept) <= Cardinality(snapshot.blocks)
      BY <1>1, FS_Subset
    <2>2. new \notin kept
      BY <1>2
    <2> QED
      BY <1>1, <2>1, <2>2, FS_AddElement, FS_CardinalityType
  <1>8. MaxBlocks \in Nat \ {0}
    BY DEF ObservationAssumption
  <1> HIDE DEF new, n
  <1>9. CASE new \in Shifted(cache) /\ e.position = p
    BY <1>2, <1>6, <1>9
  <1>10. CASE e.position # p
    <2>1. e \in cache /\ e \notin Shifted(cache)
      BY <1>6, <1>10
    <2>2. Cardinality(cache) > MaxBlocks /\ e \in Oldest(cache)
          /\ Shifted(cache) = cache \ Oldest(cache)
      BY <2>1 DEF Shifted
    <2>3. \A f \in Shifted(cache) : e.since < f.since
      BY <1>2, <2>1, <2>2 DEF Oldest
    <2> QED
      BY <1>6, <1>7, <1>8, <2>2, <2>3
  <1>11. new \in Shifted(cache)
    <2>1. CASE Cardinality(cache) > MaxBlocks
      <3>1. Cardinality(kept) >= 1
        BY <1>7, <1>8, <2>1
      <3>2. PICK f \in kept : TRUE
        BY <1>7, <3>1, FS_EmptySet
      <3>3. f.since < new.since
        BY <1>1, <1>2, <3>2
      <3>4. new \notin Oldest(cache)
        BY <1>1, <1>2, <3>2, <3>3 DEF Oldest
      <3> QED
        BY <2>1, <3>4 DEF Shifted
    <2>2. CASE ~(Cardinality(cache) > MaxBlocks)
      BY <2>2 DEF Shifted
    <2> QED
      BY <2>1, <2>2
  <1> QED
    BY <1>9, <1>10, <1>11

\* The cache of a spawned BOT forgets an entry for a newer one of the same
\* position, or because the cache is full and every entry that stays is newer.
THEOREM ForgetsOnlyTheOldestHolds == Spec => ForgetsOnlyTheOldest
  <1> USE ObservationAssumption
  <1> DEFINE Forgets ==
        Ready(snapshot) /\ Ready(snapshot') /\ snapshot'.generation = snapshot.generation =>
          \A e \in snapshot.blocks \ snapshot'.blocks :
            \/ \E f \in snapshot'.blocks : f.position = e.position
            \/ /\ Cardinality(snapshot.blocks) >= MaxBlocks
               /\ \A f \in snapshot'.blocks : e.since < f.since
  <1>1. ASSUME ObservationInv, [Next]_vars
        PROVE  [Forgets]_snapshot
    <2>1. Moves
      BY <1>1, StepKeeps
    <2>2. snapshot.generation \in Nat
      BY <1>1, SnapshotFields DEF ObservationInv, TypeOK
    <2>3. CASE snapshot' = snapshot
      BY <2>3
    <2>4. CASE snapshot'.generation = snapshot.generation + 1
      BY <2>2, <2>4
    <2>5. CASE snapshot'.availability \in {"dimension_transition", "disconnected"}
      BY <2>5 DEF Ready
    <2>6. CASE snapshot.availability = "pre_spawn"
      BY <2>6 DEF Ready
    <2>7. CASE snapshot'.blocks = snapshot.blocks
      BY <2>7
    <2>8. CASE \E p \in Positions, b \in Blocks : Written(p, b)
      BY <1>1, <2>8, WrittenForgets
    <2> QED
      BY <2>1, <2>3, <2>4, <2>5, <2>6, <2>7, <2>8 DEF Moves
  <1>2. ObservationInv /\ [Next]_vars => [Forgets]_snapshot
    BY <1>1
  <1> QED
    BY <1>2, InvHolds, PTL DEF Spec, ForgetsOnlyTheOldest
=============================================================================
