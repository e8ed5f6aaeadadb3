--------------------------- MODULE LifecycleProofs ---------------------------
(***************************************************************************)
(* Proofs about the connections, the pool and the shutdown, for any number *)
(* of connections and any max_connections.                                 *)
(***************************************************************************)
EXTENDS ConnectionLifecycle, TLAPS, FiniteSetTheorems

-----------------------------------------------------------------------------
(* The inductive invariant *)

\* The types, except that available has its upper bound from PermitAccounting.
Flags == embedded \in BOOLEAN /\ timed \in BOOLEAN /\ evHeld \in BOOLEAN

Types ==
  /\ phase \in Phases
  /\ acc \in {"accept", "reserved", "added", "stopped"}
  /\ cand \in Conns \cup {None}
  /\ st \in [Conns -> States]
  /\ tries \in [Conns -> 0 .. 3]
  /\ hears \subseteq Conns /\ shut \subseteq Conns /\ held \subseteq Conns
  /\ connections \subseteq Conns /\ permits \subseteq Conns
  /\ idle_ids \subseteq Conns /\ evicted \subseteq Conns
  /\ available \in Nat
  /\ ev \in {"tick", "next", "conn", "release", "stopped"}
  /\ victim \in Conns \cup {None}

\* The accept loop and the evictor know whom they handle; a handler keeps a
\* permit, and counts its attempts, only inside remove_connection.
Control ==
  /\ acc \in {"reserved", "added"} => cand \in Conns /\ st[cand] = acc
  /\ ev \in {"conn", "release"} => victim \in Conns
  /\ evHeld => ev \in {"conn", "release"}
  /\ \A c \in Conns :
       /\ c \in held => st[c] \in {"conn", "release", "retry"}
       /\ st[c] \notin {"remove", "conn", "release", "retry"} => tries[c] = 0
       /\ st[c] = "remove" => tries[c] < 3

\* A connection is in the maps only after add_connection, and not in
\* connections once its handler has taken it out.
Mapped ==
  \A c \in Conns :
    /\ c \in connections \cup permits => st[c] \notin {"backlog", "reserved"}
    /\ c \in connections => st[c] \notin {"release", "retry", "gone"}

\* Every connection of the pool has a permit: in the map, with the handler that
\* removes it, or with the evictor until it has removed the connection.
Owned ==
  \A c \in connections :
    c \in permits \/ c \in held \/ (evHeld /\ ev = "conn" /\ victim = c)

\* Who serves is in the pool, unless evicted.
Served == Serving \ evicted \subseteq connections

\* The binary's accept loop ends with the signal, and so the pool stays empty
\* once the drain has found it empty.
Drain ==
  /\ ~embedded /\ Signalled => acc = "stopped"
  /\ (~embedded /\ ~timed /\ phase \in {"flushing", "down"}) => connections = {}

Inv == Flags /\ Types /\ Control /\ PermitAccounting /\ Mapped /\ Owned /\ Served /\ Drain

-----------------------------------------------------------------------------
(* Counting permits *)

\* Sets of connections are finite.
LEMMA FiniteConns ==
  ASSUME NEW S, S \subseteq Conns
  PROVE  IsFiniteSet(S) /\ Cardinality(S) \in Nat
  BY PoolAssumption, FS_Subset, FS_CardinalityType

\* Counting one more connection,
LEMMA CountAdd ==
  ASSUME NEW S, S \subseteq Conns, NEW c, c \notin S
  PROVE  Cardinality(S \cup {c}) = Cardinality(S) + 1
  BY FiniteConns, FS_AddElement

\* one less,
LEMMA CountRemove ==
  ASSUME NEW S, S \subseteq Conns, NEW c, c \in S
  PROVE  Cardinality(S \ {c}) = Cardinality(S) - 1
  BY FiniteConns, FS_RemoveElement

\* and the connections of two sets.
LEMMA CountUnion ==
  ASSUME NEW S, S \subseteq Conns, NEW T, T \subseteq Conns
  PROVE  Cardinality(S \cup T) <= Cardinality(S) + Cardinality(T)
  <1>1. S \cap T \subseteq Conns
    OBVIOUS
  <1>2. /\ IsFiniteSet(S) /\ IsFiniteSet(T)
        /\ Cardinality(S) \in Nat /\ Cardinality(T) \in Nat /\ Cardinality(S \cap T) \in Nat
    BY <1>1, FiniteConns
  <1>3. Cardinality(S \cup T) = Cardinality(S) + Cardinality(T) - Cardinality(S \cap T)
    BY <1>2, FS_Union
  <1> QED
    BY <1>2, <1>3

\* All permits are free at the start.
LEMMA InitInv == Init => Inv
  <1> SUFFICES ASSUME Init PROVE Inv
    OBVIOUS
  <1> USE DEF Init
  <1>0. Flags
    BY Zenon DEF Flags
  <1>1. Types
    BY PoolAssumption DEF Types, Phases, States
  <1>2. Control /\ Mapped /\ Owned /\ Served /\ Drain
    BY DEF Control, Mapped, Owned, Served, Serving, Drain, Signalled
  <1>3. PermitAccounting
    BY PoolAssumption, FS_EmptySet DEF PermitAccounting, Count
  <1> QED
    BY <1>0, <1>1, <1>2, <1>3 DEF Inv

-----------------------------------------------------------------------------
(* Steps that only move a handler *)

\* A handler goes on outside remove_connection.
Moves(c, label) ==
  /\ To(c, label)
  /\ UNCHANGED <<lifeVars, acceptVars, hears, shut, tries, held, poolVars, evictVars>>

\* A step of a handler that touches neither pool nor permits keeps the invariant.
LEMMA MoveInv ==
  ASSUME Inv, NEW c \in Conns, NEW label \in States, Moves(c, label),
         st[c] \notin {"reserved", "added", "remove", "conn", "release", "retry"},
         label \in {"read", "exec", "write", "closing", "remove"}
           \/ (label = "gone" /\ st[c] = "backlog"),
         st[c] \notin {"backlog"} \/ label = "gone",
         label \in {"read", "exec", "write"} => st[c] \in {"read", "exec", "write"}
                                                \/ c \in connections
  PROVE  Inv'
  <1> USE DEF Moves, To, lifeVars, acceptVars, poolVars, evictVars
  <1>0. Flags'
    BY Zenon DEF Inv, Flags
  <1>1. Types'
    BY DEF Inv, Types
  <1>2. Control'
    BY DEF Inv, Types, Control
  <1>3. Mapped'
    BY DEF Inv, Types, Mapped
  <1>4. Served'
    BY DEF Inv, Types, Served, Serving
  <1>5. PermitAccounting' /\ Owned' /\ Drain'
    BY DEF Inv, PermitAccounting, Owned, Drain, Signalled
  <1> QED
    BY <1>0, <1>1, <1>2, <1>3, <1>4, <1>5 DEF Inv

\* The steps of a handler between registration and its end are of that kind.
LEMMA HandlerMoves ==
  ASSUME Inv, NEW c \in Conns,
         \/ Reject(c) \/ HandlerStart(c) \/ Read(c) \/ ReadEnds(c) \/ HearSignal(c)
         \/ Executed(c) \/ Written(c) \/ Closed(c)
  PROVE  Inv'
  <1>1. CASE Reject(c)
    BY <1>1, MoveInv DEF Reject, Moves, States
  <1>2. CASE HandlerStart(c)
    BY <1>2, MoveInv DEF HandlerStart, Moves, States
  <1>3. CASE Read(c)
    BY <1>3, MoveInv DEF Read, Moves, States
  <1>4. CASE ReadEnds(c) \/ HearSignal(c)
    BY <1>4, MoveInv DEF ReadEnds, HearSignal, Moves, States
  <1>5. CASE Executed(c)
    BY <1>5, MoveInv DEF Executed, Moves, States
  <1>6. CASE Written(c)
    BY <1>6, MoveInv DEF Written, Moves, States
  <1>7. CASE Closed(c)
    BY <1>7, MoveInv DEF Closed, Moves, States
  <1> QED
    BY <1>1, <1>2, <1>3, <1>4, <1>5, <1>6, <1>7

-----------------------------------------------------------------------------
(* The accept loop *)

\* accept takes a permit for a connection.
LEMMA ReserveInv ==
  ASSUME Inv, NEW c \in Conns, Reserve(c)
  PROVE  Inv'
  <1> USE DEF Reserve, To, lifeVars, evictVars
  <1>0. Flags'
    BY Zenon DEF Inv, Flags
  <1>1. Types'
    BY PoolAssumption DEF Inv, Types, Control, States, Phases
  <1>2. Control'
    BY PoolAssumption DEF Inv, Types, Control
  <1>3. PermitAccounting'
    BY FiniteConns DEF Inv, Types, PermitAccounting, Count
  <1>4. Mapped'
    BY DEF Inv, Types, Control, Mapped
  <1>5. Owned'
    BY DEF Inv, Types, Control, Mapped, Owned
  <1>6. Served'
    BY DEF Inv, Types, Control, Served, Serving
  <1>7. Drain'
    BY DEF Inv, Types, Drain, Signalled, Phases
  <1> QED
    BY <1>0, <1>1, <1>2, <1>3, <1>4, <1>5, <1>6, <1>7 DEF Inv

\* The connection enters the pool,
LEMMA AddConnectionInv ==
  ASSUME Inv, AddConnection
  PROVE  Inv'
  <1> USE DEF AddConnection, To, lifeVars, evictVars
  <1>0. Flags'
    BY Zenon DEF Inv, Flags
  <1>1. Types'
    BY PoolAssumption DEF Inv, Types, Control, States, Phases
  <1>2. Control'
    BY PoolAssumption DEF Inv, Types, Control
  <1>3. PermitAccounting'
    <2>1. cand \in Conns /\ cand \notin permits
      BY DEF Inv, Types, Control, Mapped
    <2>2. Cardinality(permits') = Cardinality(permits) + 1
      BY <2>1, CountAdd DEF Inv, Types
    <2> QED
      BY <2>2, FiniteConns DEF Inv, Types, PermitAccounting, Count
  <1>4. Mapped'
    BY DEF Inv, Types, Control, Mapped
  <1>5. Owned'
    BY DEF Inv, Types, Control, Mapped, Owned
  <1>6. Served'
    BY DEF Inv, Types, Control, Served, Serving
  <1>7. Drain'
    BY DEF Inv, Types, Drain, Signalled, Phases
  <1> QED
    BY <1>0, <1>1, <1>2, <1>3, <1>4, <1>5, <1>6, <1>7 DEF Inv

\* its handler starts,
LEMMA SpawnInv ==
  ASSUME Inv, Spawn
  PROVE  Inv'
  <1> USE DEF Spawn, To, lifeVars, poolVars, evictVars
  <1>0. Flags'
    BY Zenon DEF Inv, Flags
  <1>1. Types'
    BY PoolAssumption DEF Inv, Types, Control, States, Phases
  <1>2. Control'
    BY PoolAssumption DEF Inv, Types, Control
  <1>3. PermitAccounting'
    BY DEF Inv, PermitAccounting, Count
  <1>4. Mapped'
    BY DEF Inv, Types, Control, Mapped
  <1>5. Owned'
    BY DEF Inv, Types, Control, Mapped, Owned
  <1>6. Served'
    BY DEF Inv, Types, Control, Served, Serving
  <1>7. Drain'
    BY DEF Inv, Types, Drain, Signalled, Phases
  <1> QED
    BY <1>0, <1>1, <1>2, <1>3, <1>4, <1>5, <1>6, <1>7 DEF Inv

\* or the accept loop ends.
LEMMA StopAcceptingInv ==
  ASSUME Inv, StopAccepting
  PROVE  Inv'
  <1> USE DEF StopAccepting, lifeVars, handlerVars, poolVars, evictVars
  <1>0. Flags'
    BY Zenon DEF Inv, Flags
  <1>1. Types'
    BY PoolAssumption DEF Inv, Types, Control, States, Phases
  <1>2. Control'
    BY PoolAssumption DEF Inv, Types, Control
  <1>3. PermitAccounting'
    BY DEF Inv, PermitAccounting, Count
  <1>4. Mapped'
    BY DEF Inv, Types, Control, Mapped
  <1>5. Owned'
    BY DEF Inv, Types, Control, Mapped, Owned
  <1>6. Served'
    BY DEF Inv, Types, Control, Served, Serving
  <1>7. Drain'
    BY DEF Inv, Types, Drain, Signalled, Phases
  <1> QED
    BY <1>0, <1>1, <1>2, <1>3, <1>4, <1>5, <1>6, <1>7 DEF Inv

-----------------------------------------------------------------------------
(* remove_connection *)

\* A handler that ends takes its permit out of the pool,
LEMMA RemovePermitInv ==
  ASSUME Inv, NEW c \in Conns, RemovePermit(c)
  PROVE  Inv'
  <1> USE DEF RemovePermit, To, lifeVars, acceptVars, evictVars
  <1>0. Flags'
    BY Zenon DEF Inv, Flags
  <1>1. Types'
    BY PoolAssumption DEF Inv, Types, Control, States, Phases
  <1>2. Control'
    BY PoolAssumption DEF Inv, Types, Control
  <1>3. PermitAccounting'
    <2>1. c \notin held
      BY DEF Inv, Types, Control
    <2>2. CASE c \in permits
      <3>1. Cardinality(permits') = Cardinality(permits) - 1
        BY <2>2, CountRemove DEF Inv, Types
      <3>2. Cardinality(held') = Cardinality(held) + 1
        BY <2>1, <2>2, CountAdd DEF Inv, Types
      <3> QED
        BY <3>1, <3>2, FiniteConns DEF Inv, Types, PermitAccounting, Count
    <2>3. CASE c \notin permits
      <3>1. permits' = permits /\ held' = held
        BY <2>3
      <3> QED
        BY <3>1 DEF Inv, PermitAccounting
    <2> QED
      BY <2>2, <2>3
  <1>4. Mapped'
    BY DEF Inv, Types, Control, Mapped
  <1>5. Owned'
    BY DEF Inv, Types, Control, Mapped, Owned
  <1>6. Served'
    BY DEF Inv, Types, Control, Served, Serving
  <1>7. Drain'
    BY DEF Inv, Types, Drain, Signalled, Phases
  <1> QED
    BY <1>0, <1>1, <1>2, <1>3, <1>4, <1>5, <1>6, <1>7 DEF Inv

\* then its entry,
LEMMA RemoveConnectionInv ==
  ASSUME Inv, NEW c \in Conns, RemoveConnection(c)
  PROVE  Inv'
  <1> USE DEF RemoveConnection, To, lifeVars, acceptVars, evictVars
  <1>0. Flags'
    BY Zenon DEF Inv, Flags
  <1>1. Types'
    BY PoolAssumption DEF Inv, Types, Control, States, Phases
  <1>2. Control'
    BY PoolAssumption DEF Inv, Types, Control
  <1>3. PermitAccounting'
    BY DEF Inv, PermitAccounting
  <1>4. Mapped'
    BY DEF Inv, Types, Control, Mapped
  <1>5. Owned'
    BY DEF Inv, Types, Control, Mapped, Owned
  <1>6. Served'
    BY DEF Inv, Types, Control, Served, Serving
  <1>7. Drain'
    BY DEF Inv, Types, Drain, Signalled, Phases
  <1> QED
    BY <1>0, <1>1, <1>2, <1>3, <1>4, <1>5, <1>6, <1>7 DEF Inv

\* and gives the permit back.
LEMMA DropPermitInv ==
  ASSUME Inv, NEW c \in Conns, DropPermit(c)
  PROVE  Inv'
  <1> USE DEF DropPermit, To, lifeVars, acceptVars
  <1>0. Flags'
    BY Zenon DEF Inv, Flags
  <1>1. Types'
    BY PoolAssumption DEF Inv, Types, Control, States, Phases
  <1>2. Control'
    BY PoolAssumption DEF Inv, Types, Control
  <1>3. PermitAccounting'
    <2>1. CASE c \in held
      <3>1. Cardinality(held') = Cardinality(held) - 1
        BY <2>1, CountRemove DEF Inv, Types
      <3> QED
        BY <2>1, <3>1, FiniteConns DEF Inv, Types, PermitAccounting, Count
    <2>2. CASE c \notin held
      <3>1. held' = held /\ available' = available
        BY <2>2
      <3> QED
        BY <3>1 DEF Inv, PermitAccounting
    <2> QED
      BY <2>1, <2>2
  <1>4. Mapped'
    BY DEF Inv, Types, Control, Mapped
  <1>5. Owned'
    BY DEF Inv, Types, Control, Mapped, Owned
  <1>6. Served'
    BY DEF Inv, Types, Control, Served, Serving
  <1>7. Drain'
    BY DEF Inv, Types, Drain, Signalled, Phases
  <1> QED
    BY <1>0, <1>1, <1>2, <1>3, <1>4, <1>5, <1>6, <1>7 DEF Inv

-----------------------------------------------------------------------------
(* The evictor *)

\* The cleanup task picks its victims,
LEMMA FindIdleInv ==
  ASSUME Inv, FindIdle
  PROVE  Inv'
  <1> USE DEF FindIdle, TryLock, lifeVars, acceptVars, handlerVars, poolVars
  <1>0. Flags'
    BY Zenon DEF Inv, Flags
  <1>1. Types'
    BY PoolAssumption DEF Inv, Types, Control, States, Phases
  <1>2. Control'
    BY PoolAssumption DEF Inv, Types, Control
  <1>3. PermitAccounting'
    BY DEF Inv, PermitAccounting
  <1>4. Mapped'
    BY DEF Inv, Types, Control, Mapped
  <1>5. Owned'
    BY DEF Inv, Types, Control, Mapped, Owned
  <1>6. Served'
    BY DEF Inv, Types, Control, Served, Serving
  <1>7. Drain'
    BY DEF Inv, Types, Drain, Signalled, Phases
  <1> QED
    BY <1>0, <1>1, <1>2, <1>3, <1>4, <1>5, <1>6, <1>7 DEF Inv

\* takes the permit of one out of the pool,
LEMMA EvictInv ==
  ASSUME Inv, NEW c \in Conns, Evict(c)
  PROVE  Inv'
  <1> USE DEF Evict, lifeVars, acceptVars
  <1>0. Flags'
    <2>1. evHeld' \in BOOLEAN
      OBVIOUS
    <2> QED
      BY <2>1, Zenon DEF Inv, Flags
  <1>1. Types'
    BY PoolAssumption DEF Inv, Types, Control, States, Phases
  <1>2. Control'
    BY PoolAssumption DEF Inv, Types, Control
  <1>3. PermitAccounting'
    <2>1. ~evHeld
      BY DEF Inv, Control
    <2>2. CASE c \in permits
      <3>1. Cardinality(permits') = Cardinality(permits) - 1
        BY <2>2, CountRemove DEF Inv, Types
      <3>2. Count(evHeld) = 0 /\ Count(evHeld') = 1 /\ Count(acc = "reserved") \in Nat
        BY <2>1, <2>2, Zenon DEF Count
      <3> QED
        BY <3>1, <3>2, FiniteConns DEF Inv, Types, PermitAccounting
    <2>3. CASE c \notin permits
      <3>1. permits' = permits /\ ~evHeld'
        BY <2>3
      <3> QED
        BY <2>1, <3>1 DEF Inv, PermitAccounting, Count
    <2> QED
      BY <2>2, <2>3
  <1>4. Mapped'
    BY DEF Inv, Types, Control, Mapped
  <1>5. Owned'
    BY DEF Inv, Types, Control, Mapped, Owned
  <1>6. Served'
    BY DEF Inv, Types, Control, Served, Serving
  <1>7. Drain'
    BY DEF Inv, Types, Drain, Signalled, Phases
  <1> QED
    BY <1>0, <1>1, <1>2, <1>3, <1>4, <1>5, <1>6, <1>7 DEF Inv

\* then its entry,
LEMMA EvictConnectionInv ==
  ASSUME Inv, EvictConnection
  PROVE  Inv'
  <1> USE DEF EvictConnection, lifeVars, acceptVars, handlerVars
  <1>0. Flags'
    BY Zenon DEF Inv, Flags
  <1>1. Types'
    BY PoolAssumption DEF Inv, Types, Control, States, Phases
  <1>2. Control'
    BY PoolAssumption DEF Inv, Types, Control
  <1>3. PermitAccounting'
    BY DEF Inv, PermitAccounting
  <1>4. Mapped'
    BY DEF Inv, Types, Control, Mapped
  <1>5. Owned'
    BY DEF Inv, Types, Control, Mapped, Owned
  <1>6. Served'
    BY DEF Inv, Types, Control, Served, Serving
  <1>7. Drain'
    BY DEF Inv, Types, Drain, Signalled, Phases
  <1> QED
    BY <1>0, <1>1, <1>2, <1>3, <1>4, <1>5, <1>6, <1>7 DEF Inv

\* and gives the permit back,
LEMMA EvictDropPermitInv ==
  ASSUME Inv, EvictDropPermit
  PROVE  Inv'
  <1> USE DEF EvictDropPermit, lifeVars, acceptVars, handlerVars
  <1>0. Flags'
    BY Zenon DEF Inv, Flags
  <1>1. Types'
    BY PoolAssumption DEF Inv, Types, Control, States, Phases
  <1>2. Control'
    BY PoolAssumption DEF Inv, Types, Control
  <1>3. PermitAccounting'
    BY FiniteConns DEF Inv, Types, PermitAccounting, Count
  <1>4. Mapped'
    BY DEF Inv, Types, Control, Mapped
  <1>5. Owned'
    BY DEF Inv, Types, Control, Mapped, Owned
  <1>6. Served'
    BY DEF Inv, Types, Control, Served, Serving
  <1>7. Drain'
    BY DEF Inv, Types, Drain, Signalled, Phases
  <1> QED
    BY <1>0, <1>1, <1>2, <1>3, <1>4, <1>5, <1>6, <1>7 DEF Inv

\* or stops between two ticks, once the signal is out.
LEMMA StopEvictingInv ==
  ASSUME Inv, StopEvicting
  PROVE  Inv'
  <1> USE DEF StopEvicting, lifeVars, acceptVars, handlerVars, poolVars
  <1>0. Flags'
    BY Zenon DEF Inv, Flags
  <1>1. Types'
    BY PoolAssumption DEF Inv, Types, Control, States, Phases
  <1>2. Control'
    BY PoolAssumption DEF Inv, Types, Control
  <1>3. PermitAccounting'
    BY DEF Inv, PermitAccounting
  <1>4. Mapped'
    BY DEF Inv, Types, Control, Mapped
  <1>5. Owned'
    BY DEF Inv, Types, Control, Mapped, Owned
  <1>6. Served'
    BY DEF Inv, Types, Control, Served, Serving
  <1>7. Drain'
    BY DEF Inv, Types, Drain, Signalled, Phases
  <1> QED
    BY <1>0, <1>1, <1>2, <1>3, <1>4, <1>5, <1>6, <1>7 DEF Inv

-----------------------------------------------------------------------------
(* The shutdown *)

\* A step of the shutdown leaves handlers, pool and evictor alone; what it may
\* disturb is the accept loop it stops and what Drain says of the phase.
LEMMA ShutdownInv ==
  ASSUME Inv, Signal \/ ThirtySeconds \/ Drained \/ Flushed \/ ForceExit
  PROVE  Inv'
  <1> USE DEF Signal, ThirtySeconds, Drained, Flushed, ForceExit,
              acceptVars, handlerVars, poolVars, evictVars
  <1>0. Flags'
    BY Zenon DEF Inv, Flags
  <1>1. Types'
    BY DEF Inv, Types, Phases
  <1>2. Control'
    BY DEF Inv, Types, Control
  <1>3. PermitAccounting'
    BY DEF Inv, PermitAccounting, Count
  <1>4. Mapped' /\ Owned' /\ Served'
    BY DEF Inv, Mapped, Owned, Served, Serving
  <1>5. Drain'
    BY DEF Inv, Types, Drain, Signalled, Phases
  <1> QED
    BY <1>0, <1>1, <1>2, <1>3, <1>4, <1>5 DEF Inv

\* Every step preserves the invariant.
LEMMA NextInv == Inv /\ [Next]_vars => Inv'
  <1> SUFFICES ASSUME Inv, [Next]_vars PROVE Inv'
    OBVIOUS
  <1>1. CASE UNCHANGED vars
    BY <1>1 DEF vars, lifeVars, acceptVars, handlerVars, poolVars, evictVars, Inv, Flags, Types,
       Control, PermitAccounting, Mapped, Owned, Served, Serving, Drain, Signalled
  <1>2. ASSUME NEW c \in Conns, Handler(c) \/ Read(c) \/ ReadEnds(c) \/ HearSignal(c)
        PROVE  Inv'
    BY <1>2, HandlerMoves, RemovePermitInv, RemoveConnectionInv, DropPermitInv DEF Handler
  <1>3. CASE Evictor \/ StopEvicting
    BY <1>3, FindIdleInv, EvictInv, EvictConnectionInv, EvictDropPermitInv, StopEvictingInv
    DEF Evictor
  <1> QED
    BY <1>1, <1>2, <1>3, ReserveInv, HandlerMoves, AddConnectionInv, SpawnInv, StopAcceptingInv,
       ShutdownInv
    DEF Next

-----------------------------------------------------------------------------
(* The theorems *)

\* The inductive invariant holds in every reachable state.
THEOREM Invariance == Spec => []Inv
  BY InitInv, NextInv, PTL DEF Spec

\* Whatever the evictor and the handlers do to each other, each of the
\* max_connections permits is in the semaphore, in the map, or with one task
\* (ConnectionPool, network/connection.rs).
THEOREM PermitsConserved == Spec => []PermitAccounting
  <1>1. Inv => PermitAccounting
    BY DEF Inv
  <1> QED
    BY <1>1, Invariance, PTL

\* The state keeps its shape: the semaphore never has more permits than it began
\* with, and a handler tries at most three times to remove its connection.
THEOREM TypeCorrect == Spec => []TypeOK
  <1>1. ASSUME Inv PROVE available <= max_connections
    BY <1>1, PoolAssumption, FiniteConns DEF Inv, Types, PermitAccounting, Count
  <1>2. ASSUME Inv PROVE {embedded, timed, evHeld} \subseteq BOOLEAN
    BY <1>2, Zenon DEF Inv, Flags
  <1>3. Inv => TypeOK
    BY <1>1, <1>2, PoolAssumption DEF Inv, Types, Control, TypeOK
  <1> QED
    BY <1>3, Invariance, PTL

\* remove_connection and the evictor keep the permit until the connection is out
\* of the map, so the map never has more than max_connections entries.
THEOREM PoolAlwaysBounded == Spec => []PoolBounded
  <1>1. ASSUME Inv PROVE PoolBounded
    <2> DEFINE mine == IF evHeld THEN {victim} ELSE {}
    <2>1. mine \subseteq Conns /\ Cardinality(mine) = Count(evHeld)
      BY <1>1, FS_EmptySet, FS_Singleton DEF Inv, Control, Count
    <2>2. connections \subseteq (permits \cup held) \cup mine
      BY <1>1 DEF Inv, Owned
    <2> HIDE DEF mine
    <2>3. /\ permits \subseteq Conns /\ held \subseteq Conns
          /\ permits \cup held \subseteq Conns /\ (permits \cup held) \cup mine \subseteq Conns
      BY <1>1, <2>1 DEF Inv, Types
    <2>4. Cardinality(permits \cup held) <= Cardinality(permits) + Cardinality(held)
      BY <2>3, CountUnion
    <2>5. Cardinality((permits \cup held) \cup mine)
            <= Cardinality(permits \cup held) + Cardinality(mine)
      BY <2>1, <2>3, CountUnion
    <2>6. Cardinality(connections) <= Cardinality((permits \cup held) \cup mine)
      BY <2>2, <2>3, FiniteConns, FS_Subset
    <2> QED
      BY <1>1, <2>1, <2>3, <2>4, <2>5, <2>6, FiniteConns, PoolAssumption
      DEF Inv, Types, PermitAccounting, PoolBounded, Count
  <1> QED
    BY <1>1, Invariance, PTL

\* Every connection that is served and was not evicted is in the pool with its
\* permit, unless the evictor is just taking it.
THEOREM ServedStayInPool == Spec => []ServedAreInPool
  <1>1. Inv => ServedAreInPool
    BY DEF Inv, Types, Control, Owned, Served, Serving, ServedAreInPool
  <1> QED
    BY <1>1, Invariance, PTL

\* When the drain of the binary's shutdown ends by itself, nobody serves but
\* handlers of evicted connections, until the process ends (lib.rs, bin/server.rs).
THEOREM DrainQuiet == Spec => []DrainedMeansQuiet
  <1>1. Inv => DrainedMeansQuiet
    BY DEF Inv, Served, Drain, DrainedMeansQuiet
  <1> QED
    BY <1>1, Invariance, PTL
=============================================================================
