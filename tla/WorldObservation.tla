-------------------------- MODULE WorldObservation --------------------------
(***************************************************************************)
(* What the BOT may know of the world: BedrockWorldObservationPort turns   *)
(* packets into commands of WorldObservationStore, which keeps the held    *)
(* item, the item registry and a bounded cache of blocks, gives them out   *)
(* while the BOT is spawned, and tells its listeners in microtasks.        *)
(*                                                                         *)
(* A packet is one step.  Packets that the port leaves aside at once (of   *)
(* other entities, of other layers, unreadable) change nothing and have no *)
(* action.                                                                 *)
(***************************************************************************)
EXTENDS Integers, FiniteSets, Sequences

CONSTANTS
  Dimensions, Spots,   \* a position is a spot in a dimension
  Blocks,              \* block runtime ids
  Items,               \* what may be held, nothing included, with its slot
  Networks,            \* network ids of dirt
  Listeners,
  MaxBlocks,
  NoValue,             \* an optional field that is undefined, or unknown
  Inconsistent,        \* the status of a value that could not be read
  MaxPackets           \* bound: packets that reach the store

ASSUME ObservationAssumption ==
  /\ MaxBlocks \in Nat \ {0} /\ MaxPackets \in Nat
  /\ NoValue # Inconsistent
  /\ {NoValue, Inconsistent} \intersect (Dimensions \union Blocks \union Items \union Networks) = {}

VARIABLES
  dimension,    \* #dimension of the port
  sequence,     \* #sequence of the port
  accepted,     \* #lastAcceptedSequence of the store
  attached,     \* the port listens to the client
  portClosed, storeClosed,
  snapshot,
  listening,    \* listeners with an active subscription
  queue,        \* of each listener: revisions it is still to be told
  heard,        \* of each listener: the last revision it knows
  endedAt,      \* for checking: the revision at which the client closed
  told          \* for checking: what the server has said last since the BOT
                \* came to where it is

portVars == <<dimension, sequence, attached, portClosed>>
deliveryVars == <<listening, queue, heard, endedAt>>
vars == <<portVars, accepted, storeClosed, snapshot, deliveryVars, told>>

Positions == Dimensions \X Spots

NoRegistry == [network |-> NoValue, generation |-> 0]

InitialSnapshot ==
  [revision |-> 0, availability |-> "disconnected", generation |-> 0,
   dimension |-> NoValue, held |-> NoValue, registry |-> NoRegistry, blocks |-> {}]

NothingTold ==
  [held |-> NoValue, network |-> NoValue, blocks |-> [p \in Positions |-> NoValue]]

Init ==
  /\ dimension = NoValue /\ sequence = 0 /\ accepted = 0
  /\ attached = TRUE /\ portClosed = FALSE /\ storeClosed = FALSE
  /\ snapshot = InitialSnapshot
  /\ listening = {}
  /\ queue = [l \in Listeners |-> <<>>]
  /\ heard = [l \in Listeners |-> 0]
  /\ endedAt = 0
  /\ told = NothingTold

----------------------------------------------------------------------------
(* Commands of the store                                                   *)

\* Seeded fault: the held item survives.
ClearedButForHeld(s) == [s EXCEPT !.registry = NoRegistry, !.blocks = {}]

Cleared(s) == [s EXCEPT !.held = NoValue, !.registry = NoRegistry, !.blocks = {}]

Started(s, d) ==
  [Cleared(s) EXCEPT !.availability = "pre_spawn", !.generation = s.generation + 1,
                     !.dimension = d]

SpawnCompleted(s, d) ==
  [IF s.dimension = d THEN s ELSE Cleared(s) EXCEPT !.availability = "ready",
                                                    !.dimension = d]

\* Seeded fault: a spawn is expected in the new dimension.
ChangingAwaitsSpawn(s, d) ==
  [Cleared(s) EXCEPT !.availability = "pre_spawn", !.dimension = d]

\* d is NoValue when the packet names no dimension that is known.
Changing(s, d) ==
  [Cleared(s) EXCEPT !.availability = "dimension_transition", !.dimension = d]

Disconnected(s) ==
  [Cleared(s) EXCEPT !.availability = "disconnected", !.dimension = NoValue]

\* The cache in the order of its entries, which is that of their revisions.
Entry(s, p, b) == [position |-> p, block |-> b, since |-> s.revision + 1]

Oldest(cache) == {e \in cache : \A f \in cache : e.since <= f.since}

Shifted(cache) ==
  IF Cardinality(cache) > MaxBlocks THEN cache \ Oldest(cache) ELSE cache

\* An entry that is replaced moves to the end.
WithBlock(s, p, b) ==
  [s EXCEPT !.blocks =
     Shifted({e \in s.blocks : e.position # p} \union {Entry(s, p, b)})]

Knows(s, p, b) == \E e \in s.blocks : e.position = p /\ e.block = b

Ready(s) == s.availability = "ready"

Unchanged == UNCHANGED <<snapshot, queue>>

\* An event: a new revision, and a microtask for each listener.
Changes(next) ==
  /\ snapshot' = [next EXCEPT !.revision = snapshot.revision + 1]
  /\ queue' = [l \in Listeners |->
       IF l \in listening THEN Append(queue[l], snapshot.revision + 1) ELSE queue[l]]

\* dispatch: a command with an old sequence is dropped, and one that the state
\* does not allow throws, which the port catches.
Accepts(allowed) == sequence' > accepted /\ allowed

\* What is observed, of the held item, the registry or a block, is compared with
\* what is known: when it is the same the command only counts.
DispatchObserved(allowed, next) ==
  IF Accepts(allowed)
  THEN /\ accepted' = sequence'
       /\ IF next = snapshot THEN Unchanged ELSE Changes(next)
  ELSE Unchanged /\ UNCHANGED accepted

\* Every other command is an event, also when it finds the store as it leaves it.
Dispatch(allowed, next) ==
  IF Accepts(allowed)
  THEN accepted' = sequence' /\ Changes(next)
  ELSE Unchanged /\ UNCHANGED accepted

----------------------------------------------------------------------------
(* Packets                                                                 *)

Receives ==
  /\ attached /\ sequence < MaxPackets
  /\ sequence' = sequence + 1
  /\ UNCHANGED <<attached, portClosed, storeClosed, listening, heard, endedAt>>

StartGame(d) ==
  /\ Receives
  /\ dimension' = d
  /\ Dispatch(TRUE, Started(snapshot, d))
  /\ told' = NothingTold

AwaitsSpawn == dimension # NoValue /\ snapshot.availability = "pre_spawn"

Spawn ==
  /\ AwaitsSpawn /\ Receives
  /\ Dispatch(TRUE, SpawnCompleted(snapshot, dimension))
  /\ UNCHANGED <<dimension, told>>

\* network is Inconsistent when an entry is invalid, doubled, or dirt is missing.
ItemRegistry(network) ==
  /\ snapshot.availability \in {"pre_spawn", "ready"}
  /\ Receives
  /\ DispatchObserved(TRUE, [snapshot EXCEPT !.registry =
       [network |-> network,
        generation |-> IF network = Inconsistent THEN 0 ELSE snapshot.generation]])
  /\ told' = [told EXCEPT !.network = network]
  /\ UNCHANGED dimension

ChangeDimension(d) ==
  /\ Receives
  /\ dimension' = d
  /\ Dispatch(TRUE, Changing(snapshot, d))
  /\ told' = NothingTold

\* The store's revision is not part of the comparison with the entry it has.
UpdateBlock(spot, b) ==
  LET p == <<dimension, spot>>
  IN  /\ dimension # NoValue
      /\ Receives
      /\ DispatchObserved(Ready(snapshot) /\ p[1] = snapshot.dimension,
           IF Knows(snapshot, p, b) THEN snapshot ELSE WithBlock(snapshot, p, b))
      /\ told' = [told EXCEPT !.blocks[p] = b]
      /\ UNCHANGED dimension

\* Equipment of the BOT.  One that can not be read is inconsistent, so that the
\* item known before is not kept.
MobEquipment(item) ==
  /\ Receives
  /\ DispatchObserved(Ready(snapshot), [snapshot EXCEPT !.held = item])
  /\ told' = [told EXCEPT !.held = item]
  /\ UNCHANGED dimension

\* Seeded fault: the store is closed with the client.
ClientClosesStore ==
  /\ attached
  /\ sequence' = sequence + 1
  /\ dimension' = NoValue
  /\ Dispatch(TRUE, Disconnected(snapshot))
  /\ told' = NothingTold /\ endedAt' = snapshot.revision
  /\ attached' = FALSE /\ storeClosed' = TRUE
  /\ listening' = {}
  /\ UNCHANGED <<portClosed, heard>>

\* The store stays open for the event that is queued.
ClientCloses ==
  /\ attached
  /\ sequence' = sequence + 1
  /\ dimension' = NoValue
  /\ Dispatch(TRUE, Disconnected(snapshot))
  /\ told' = NothingTold /\ endedAt' = snapshot.revision
  /\ attached' = FALSE
  /\ UNCHANGED <<portClosed, storeClosed, listening, heard>>

Packet ==
  \/ \E d \in Dimensions : StartGame(d)
  \/ Spawn
  \/ \E n \in Networks \union {Inconsistent} : ItemRegistry(n)
  \/ \E d \in Dimensions \union {NoValue} : ChangeDimension(d)
  \/ \E s \in Spots, b \in Blocks : UpdateBlock(s, b)
  \/ \E i \in Items \union {Inconsistent} : MobEquipment(i)
  \/ ClientCloses

----------------------------------------------------------------------------
(* The users of the port                                                   *)

\* close(): whatever is queued is dropped with the subscriptions.
Close ==
  /\ ~portClosed /\ portClosed' = TRUE
  /\ IF snapshot.availability = "disconnected" THEN UNCHANGED <<sequence, accepted, snapshot>>
     ELSE /\ sequence' = sequence + 1 /\ accepted' = sequence'
          /\ snapshot' = [Disconnected(snapshot) EXCEPT !.revision = snapshot.revision + 1]
  /\ attached' = FALSE /\ storeClosed' = TRUE
  /\ listening' = {} /\ queue' = [l \in Listeners |-> <<>>]
  /\ UNCHANGED <<dimension, heard, endedAt, told>>

Subscribe(l) ==
  /\ ~storeClosed /\ l \notin listening
  /\ listening' = listening \union {l}
  /\ heard' = [heard EXCEPT ![l] = snapshot.revision]
  /\ UNCHANGED <<portVars, accepted, storeClosed, snapshot, queue, endedAt, told>>

\* Microtasks that are left find the subscription inactive.
Unsubscribe(l) ==
  /\ l \in listening
  /\ listening' = listening \ {l}
  /\ queue' = [queue EXCEPT ![l] = <<>>]
  /\ UNCHANGED <<portVars, accepted, storeClosed, snapshot, heard, endedAt, told>>

Deliver(l) ==
  /\ queue[l] # <<>>
  /\ queue' = [queue EXCEPT ![l] = Tail(@)]
  /\ heard' = IF l \in listening /\ ~storeClosed
              THEN [heard EXCEPT ![l] = Head(queue[l])] ELSE heard
  /\ UNCHANGED <<portVars, accepted, storeClosed, snapshot, listening, endedAt, told>>

Next ==
  \/ Packet
  \/ Close
  \/ \E l \in Listeners : Subscribe(l) \/ Unsubscribe(l) \/ Deliver(l)

Spec == Init /\ [][Next]_vars

\* Microtasks run.  Nothing is assumed of the server or of the listeners.
FairSpec == Spec /\ \A l \in Listeners : WF_vars(Deliver(l))

----------------------------------------------------------------------------
(* What the port gives out                                                 *)

Usable == ~storeClosed /\ Ready(snapshot)

\* getBlock, as the set of the entries it may find.
GetBlock(p) ==
  {e.block : e \in {f \in snapshot.blocks :
     Usable /\ p[1] = snapshot.dimension /\ f.position = p}}

\* getItemNetworkId
GetItemNetworkId ==
  IF /\ Usable
     /\ snapshot.registry.network \notin {NoValue, Inconsistent}
     /\ snapshot.registry.generation = snapshot.generation
  THEN snapshot.registry.network ELSE NoValue

----------------------------------------------------------------------------
(* Properties                                                              *)

Cached == [position : Positions, block : Blocks, since : Nat]

Snapshots ==
  [revision : Nat,
   availability : {"disconnected", "pre_spawn", "ready", "dimension_transition"},
   generation : Nat, dimension : Dimensions \union {NoValue},
   held : Items \union {NoValue, Inconsistent},
   registry : [network : Networks \union {NoValue, Inconsistent}, generation : Nat],
   blocks : SUBSET Cached]

\* The variables have their types, and no command comes with an old sequence.
TypeOK ==
  /\ dimension \in Dimensions \union {NoValue}
  /\ sequence \in Nat /\ accepted \in 0..sequence
  /\ {attached, portClosed, storeClosed} \subseteq BOOLEAN
  /\ snapshot \in Snapshots
  /\ listening \subseteq Listeners
  /\ queue \in [Listeners -> Seq(Nat)]
  /\ heard \in [Listeners -> Nat] /\ endedAt \in Nat
  /\ told \in [held : Items \union {NoValue, Inconsistent},
               network : Networks \union {NoValue, Inconsistent},
               blocks : [Positions -> Blocks \union {NoValue}]]

\* What is given out is what the server said last, here and on this connection:
\* nothing outlives a change of dimension, a new connection or a later packet,
\* also one of equipment or of the registry that could not be read.
ServedIsCurrent ==
  /\ \A p \in Positions : GetBlock(p) \subseteq {told.blocks[p]}
  /\ Ready(snapshot) => snapshot.held \in {NoValue, told.held}
  /\ GetItemNetworkId \in {NoValue, told.network}

Stage(s) ==
  CASE s.availability = "pre_spawn" -> 1 [] s.availability = "ready" -> 2 [] OTHER -> 3

\* One connection is usable in one stretch: a BOT that changed its dimension or
\* was disconnected is never taken to be spawned before the next start_game,
\* whatever packets come late.
ReadyOncePerConnection ==
  [][snapshot'.generation = snapshot.generation => Stage(snapshot') >= Stage(snapshot)]_snapshot

\* While the BOT is spawned the cache forgets an entry for a newer one of the
\* same position, or because it is full and no entry that stays is older.
ForgetsOnlyTheOldest ==
  [][Ready(snapshot) /\ Ready(snapshot') /\ snapshot'.generation = snapshot.generation =>
       \A e \in snapshot.blocks \ snapshot'.blocks :
         \/ \E f \in snapshot'.blocks : f.position = e.position
         \/ /\ Cardinality(snapshot.blocks) >= MaxBlocks
            /\ \A f \in snapshot'.blocks : e.since < f.since]_snapshot

\* The end of the connection is an event of its own, whatever the BOT had come to
\* by then: who listens hears of a revision later than any it could hear of
\* before the client closed, unless it leaves or the port is closed before the
\* microtask runs.
DisconnectIsTold ==
  \A l \in Listeners :
    ~attached /\ ~portClosed ~>
      portClosed \/ (~storeClosed /\ (l \in listening => heard[l] > endedAt))
=============================================================================
