------------------------ MODULE ConnectionLifecycle ------------------------
(***************************************************************************)
(* The life of the connections and of the server: the accept loop, the     *)
(* connection handlers and the idle evictor (network/server.rs) over the   *)
(* ConnectionPool (network/connection.rs), and the shutdown of the server  *)
(* (lib.rs), started by a signal in the server binary (bin/server.rs) or   *)
(* by the program that embeds the server.                                  *)
(*                                                                         *)
(* An action runs up to the next point where another task can see a        *)
(* difference: a map or semaphore operation, or an await.  What a command  *)
(* does is left out; that it runs, with the connection's mutex free, and   *)
(* that its reply is written, with the mutex held, is not.                 *)
(***************************************************************************)
EXTENDS Integers, FiniteSets

CONSTANTS
  Conns,            \* the connections clients make
  max_connections,
  None

ASSUME PoolAssumption ==
  /\ IsFiniteSet(Conns) /\ None \notin Conns
  /\ max_connections \in Nat \ {0}

VARIABLES
  embedded,     \* the accept loop is a task of its own, and no signal handler
  phase,        \* up, draining, flushing; down: shutdown returned; killed,
                \* unflushed: the process has exited before it did
  timed,        \* 30 s have passed since the shutdown began
  acc,          \* accept loop: accept, reserved, added, stopped
  cand,         \* the connection it is handling
  st,           \* where each connection's handler stands
  hears,        \* connections whose receiver was there when the signal was sent
  shut,         \* connections whose stream the evictor has shut down
  tries,        \* attempts of a handler to remove its connection
  held,         \* handlers that hold the permit they took out of the map
  connections,  \* DashMap<Uuid, Mutex<ClientConnection>>, its keys
  permits,      \* DashMap<Uuid, OwnedSemaphorePermit>, its keys
  available,    \* permits left in the semaphore
  ev,           \* idle evictor: tick, next, conn, release, stopped
  idle_ids,     \* the connections it found idle and has not evicted yet
  victim,       \* the one it is evicting
  evHeld,       \* it holds the permit it took out of the map
  evicted       \* connections it has taken from the pool (history variable)

acceptVars == <<acc, cand>>
handlerVars == <<st, hears, shut, tries, held>>
poolVars == <<connections, permits, available>>
evictVars == <<ev, idle_ids, victim, evHeld, evicted>>
lifeVars == <<embedded, phase, timed>>
vars == <<lifeVars, acceptVars, handlerVars, poolVars, evictVars>>

Phases == {"up", "draining", "flushing", "down", "killed", "unflushed"}
States == {"backlog", "reserved", "added", "spawned", "read", "exec",
           "write", "closing", "remove", "conn", "release", "retry", "gone"}

Init ==
  /\ embedded \in BOOLEAN
  /\ phase = "up" /\ timed = FALSE
  /\ acc = "accept" /\ cand = None
  /\ st = [c \in Conns |-> "backlog"]
  /\ hears = {} /\ shut = {} /\ held = {}
  /\ tries = [c \in Conns |-> 0]
  /\ connections = {} /\ permits = {}
  /\ available = max_connections
  /\ ev = "tick" /\ idle_ids = {} /\ victim = None /\ evHeld = FALSE
  /\ evicted = {}

Alive == phase \notin {"down", "killed", "unflushed"}
Signalled == phase # "up"
To(c, label) == st' = [st EXCEPT ![c] = label]

-----------------------------------------------------------------------------
(* The accept loop: run_server_loop and handle_new_connection *)

\* try_reserve_slot, after the handler's receiver was made: a receiver made
\* once the signal was sent does not get it.
Reserve(c) ==
  /\ Alive /\ acc = "accept" /\ st[c] = "backlog"
  /\ available > 0
  /\ available' = available - 1
  /\ hears' = IF Signalled THEN hears ELSE hears \cup {c}
  /\ acc' = "reserved" /\ cand' = c
  /\ To(c, "reserved")
  /\ UNCHANGED <<lifeVars, shut, tries, held, connections, permits, evictVars>>

Reject(c) ==
  /\ Alive /\ acc = "accept" /\ st[c] = "backlog"
  /\ available = 0
  /\ To(c, "gone")
  /\ UNCHANGED <<lifeVars, acceptVars, hears, shut, tries, held, poolVars, evictVars>>
\* Mutant: the permit is dropped when add_connection returns.
AddConnectionForgetsPermit ==
  /\ Alive /\ acc = "reserved"
  /\ connections' = connections \cup {cand}
  /\ available' = available + 1
  /\ acc' = "added"
  /\ To(cand, "added")
  /\ UNCHANGED <<lifeVars, cand, hears, shut, tries, held, permits, evictVars>>

\* add_connection.  Nobody looks at a connection this young, so that its two
\* insertions are one step.
AddConnection ==
  /\ Alive /\ acc = "reserved"
  /\ connections' = connections \cup {cand}
  /\ permits' = permits \cup {cand}
  /\ acc' = "added"
  /\ To(cand, "added")
  /\ UNCHANGED <<lifeVars, cand, hears, shut, tries, held, available, evictVars>>

Spawn ==
  /\ Alive /\ acc = "added"
  /\ To(cand, "spawned")
  /\ acc' = "accept" /\ cand' = None
  /\ UNCHANGED <<lifeVars, hears, shut, tries, held, poolVars, evictVars>>

\* select! may take a connection that is ready before the signal.
StopAccepting ==
  /\ Alive /\ embedded /\ Signalled /\ acc = "accept"
  /\ acc' = "stopped"
  /\ UNCHANGED <<lifeVars, cand, handlerVars, poolVars, evictVars>>

-----------------------------------------------------------------------------
(* A connection's handler: the spawned task and handle_connection *)

HandlerStart(c) ==
  /\ Alive /\ st[c] = "spawned"
  /\ To(c, IF c \in connections THEN "read" ELSE "remove")
  /\ UNCHANGED <<lifeVars, acceptVars, hears, shut, tries, held, poolVars, evictVars>>

\* Bytes arrive, for process_buffer.
Read(c) ==
  /\ Alive /\ st[c] = "read"
  /\ To(c, "exec")
  /\ UNCHANGED <<lifeVars, acceptVars, hears, shut, tries, held, poolVars, evictVars>>

\* The client closes, or the read fails or times out.
ReadEnds(c) ==
  /\ Alive /\ st[c] = "read"
  /\ To(c, "closing")
  /\ UNCHANGED <<lifeVars, acceptVars, hears, shut, tries, held, poolVars, evictVars>>

HearSignal(c) ==
  /\ Alive /\ st[c] = "read"
  /\ Signalled /\ c \in hears
  /\ To(c, "closing")
  /\ UNCHANGED <<lifeVars, acceptVars, hears, shut, tries, held, poolVars, evictVars>>

\* The next command of the buffer is executed, or a protocol error found; or
\* the buffer holds no whole command.
Executed(c) ==
  /\ Alive /\ st[c] = "exec"
  /\ To(c, "write") \/ To(c, "read")
  /\ UNCHANGED <<lifeVars, acceptVars, hears, shut, tries, held, poolVars, evictVars>>

\* The reply is written, and process_buffer goes on; or the command was QUIT.
\* Or the write fails or times out; it fails once the evictor has shut down
\* the stream, which stops writes and not reads.
Written(c) ==
  /\ Alive /\ st[c] = "write"
  /\ (c \notin shut /\ To(c, "exec")) \/ To(c, "closing")
  /\ UNCHANGED <<lifeVars, acceptVars, hears, shut, tries, held, poolVars, evictVars>>

\* The stream is shut down and the disconnection counted.
Closed(c) ==
  /\ Alive /\ st[c] = "closing"
  /\ To(c, "remove")
  /\ UNCHANGED <<lifeVars, acceptVars, hears, shut, tries, held, poolVars, evictVars>>

-----------------------------------------------------------------------------
(* remove_connection: the permit leaves its map, then the connection, and   *)
(* the permit is dropped when the function returns.                         *)
\* Mutant: the permit is not bound to a variable, and so dropped at once.
RemovePermitDrops(c) ==
  /\ Alive /\ st[c] = "remove"
  /\ permits' = permits \ {c}
  /\ available' = IF c \in permits THEN available + 1 ELSE available
  /\ tries' = [tries EXCEPT ![c] = @ + 1]
  /\ To(c, "conn")
  /\ UNCHANGED <<lifeVars, acceptVars, hears, shut, held, connections, evictVars>>

RemovePermit(c) ==
  /\ Alive /\ st[c] = "remove"
  /\ permits' = permits \ {c}
  /\ held' = IF c \in permits THEN held \cup {c} ELSE held
  /\ tries' = [tries EXCEPT ![c] = @ + 1]
  /\ To(c, "conn")
  /\ UNCHANGED <<lifeVars, acceptVars, hears, shut, connections, available, evictVars>>
\* Mutant: a connection that is not there ends the task with its permit.
RemoveConnectionGivesUp(c) ==
  /\ Alive /\ st[c] = "conn"
  /\ connections' = connections \ {c}
  /\ To(c, IF c \in connections THEN "release" ELSE "gone")
  /\ UNCHANGED <<lifeVars, acceptVars, hears, shut, tries, held, permits, available,
                 evictVars>>

RemoveConnection(c) ==
  /\ Alive /\ st[c] = "conn"
  /\ connections' = connections \ {c}
  /\ To(c, IF c \in connections THEN "release" ELSE "retry")
  /\ UNCHANGED <<lifeVars, acceptVars, hears, shut, tries, held, permits, available,
                 evictVars>>
\* Mutant: one attempt too many.
DropPermitOffByOne(c) ==
  /\ Alive /\ st[c] \in {"release", "retry"}
  /\ available' = IF c \in held THEN available + 1 ELSE available
  /\ held' = held \ {c}
  /\ To(c, IF st[c] = "retry" /\ tries[c] <= 3 THEN "remove" ELSE "gone")
  /\ UNCHANGED <<lifeVars, acceptVars, hears, shut, tries, connections, permits, evictVars>>

\* Up to three attempts when the connection was not there.
DropPermit(c) ==
  /\ Alive /\ st[c] \in {"release", "retry"}
  /\ available' = IF c \in held THEN available + 1 ELSE available
  /\ held' = held \ {c}
  /\ IF st[c] = "retry" /\ tries[c] < 3
       THEN /\ To(c, "remove")
            /\ UNCHANGED <<hears, shut, tries, evicted>>
       ELSE /\ To(c, "gone")
            /\ hears' = hears \ {c} /\ shut' = shut \ {c}
            /\ tries' = [tries EXCEPT ![c] = 0]
            /\ evicted' = evicted \ {c}
  /\ UNCHANGED <<lifeVars, acceptVars, connections, permits, ev, idle_ids, victim, evHeld>>

-----------------------------------------------------------------------------
(* The idle evictor: spawn_idle_evictor and evict_idle *)

\* try_lock: the handler holds the mutex while it reads, writes or closes.
TryLock(c) == st[c] \notin {"read", "write", "closing"}

\* Any connection may have been without a command for longer than idle_timeout.
FindIdle ==
  /\ Alive /\ ev = "tick"
  /\ idle_ids' \in SUBSET {c \in connections : TryLock(c)}
  /\ ev' = IF idle_ids' = {} THEN "tick" ELSE "next"
  /\ UNCHANGED <<lifeVars, acceptVars, handlerVars, poolVars, victim, evHeld, evicted>>

\* The stream is shut down only if the mutex is free now; the connection is
\* removed in any case.
Evict(c) ==
  /\ Alive /\ ev = "next" /\ c \in idle_ids
  /\ shut' = IF c \in connections /\ TryLock(c) THEN shut \cup {c} ELSE shut
  /\ victim' = c
  /\ idle_ids' = idle_ids \ {c}
  /\ permits' = permits \ {c}
  /\ evHeld' = (c \in permits)
  /\ ev' = "conn"
  /\ UNCHANGED <<lifeVars, acceptVars, st, hears, tries, held, connections, available,
                 evicted>>

EvictConnection ==
  /\ Alive /\ ev = "conn"
  /\ connections' = connections \ {victim}
  /\ evicted' = evicted \cup ({victim} \cap connections)
  /\ ev' = "release"
  /\ UNCHANGED <<lifeVars, acceptVars, handlerVars, permits, available, idle_ids, victim, evHeld>>
\* Mutant: a permit is given back whether or not there was one.
EvictDropAnyPermit ==
  /\ Alive /\ ev = "release"
  /\ available' = available + 1
  /\ evHeld' = FALSE
  /\ victim' = None
  /\ ev' = IF idle_ids = {} THEN "tick" ELSE "next"
  /\ UNCHANGED <<lifeVars, acceptVars, handlerVars, connections, permits, idle_ids, evicted>>

EvictDropPermit ==
  /\ Alive /\ ev = "release"
  /\ available' = IF evHeld THEN available + 1 ELSE available
  /\ evHeld' = FALSE
  /\ victim' = None
  /\ ev' = IF idle_ids = {} THEN "tick" ELSE "next"
  /\ UNCHANGED <<lifeVars, acceptVars, handlerVars, connections, permits, idle_ids, evicted>>

StopEvicting ==
  /\ Alive /\ ev = "tick" /\ Signalled
  /\ ev' = "stopped"
  /\ UNCHANGED <<lifeVars, acceptVars, handlerVars, poolVars, idle_ids, victim, evHeld, evicted>>

-----------------------------------------------------------------------------
(* Shutdown *)

\* In the binary the signal drops the accept loop at the await it is in, after
\* which nobody spawns the handler of a connection just added.
Signal ==
  /\ phase = "up"
  /\ phase' = "draining"
  /\ \/ embedded /\ UNCHANGED acceptVars
     \/ ~embedded /\ acc \in {"accept", "added"} /\ acc' = "stopped" /\ cand' = None
  /\ UNCHANGED <<embedded, timed, handlerVars, poolVars, evictVars>>

\* The drain looks every 100 ms and does not overlook an empty pool for so long.
ThirtySeconds ==
  /\ (phase = "draining" /\ connections # {}) \/ (phase = "flushing" /\ ~embedded)
  /\ ~timed
  /\ timed' = TRUE
  /\ UNCHANGED <<embedded, phase, acceptVars, handlerVars, poolVars, evictVars>>
\* Mutants: the drain counts permits; it waits without a limit.
DrainedByPermits ==
  /\ phase = "draining"
  /\ permits = {} \/ timed
  /\ phase' = "flushing"
  /\ UNCHANGED <<embedded, timed, acceptVars, handlerVars, poolVars, evictVars>>

DrainedForever ==
  /\ phase = "draining"
  /\ connections = {}
  /\ phase' = "flushing"
  /\ UNCHANGED <<embedded, timed, acceptVars, handlerVars, poolVars, evictVars>>

\* RustyPotatoServer::shutdown polls active_connections.
Drained ==
  /\ phase = "draining"
  /\ connections = {} \/ timed
  /\ phase' = "flushing"
  /\ UNCHANGED <<embedded, timed, acceptVars, handlerVars, poolVars, evictVars>>

\* PersistenceManager::shutdown has answered; the binary returns from main.
Flushed ==
  /\ phase = "flushing"
  /\ phase' = "down"
  /\ UNCHANGED <<embedded, timed, acceptVars, handlerVars, poolVars, evictVars>>

\* The binary gives the whole shutdown the 30 s that it gives the drain.
ForceExit ==
  /\ ~embedded /\ timed
  /\ phase \in {"draining", "flushing"}
  /\ phase' = IF phase = "draining" THEN "unflushed" ELSE "killed"
  /\ UNCHANGED <<embedded, timed, acceptVars, handlerVars, poolVars, evictVars>>

-----------------------------------------------------------------------------

Handler(c) ==
  \/ HandlerStart(c) \/ Executed(c) \/ Written(c) \/ Closed(c)
  \/ RemovePermit(c) \/ RemoveConnection(c) \/ DropPermit(c)

Evictor == FindIdle \/ (\E c \in Conns : Evict(c)) \/ EvictConnection \/ EvictDropPermit

Next ==
  \/ \E c \in Conns : Reserve(c) \/ Reject(c)
  \/ AddConnection \/ Spawn \/ StopAccepting
  \/ \E c \in Conns : Handler(c) \/ Read(c) \/ ReadEnds(c) \/ HearSignal(c)
  \/ Evictor \/ StopEvicting
  \/ Signal \/ ThirtySeconds \/ Drained \/ Flushed \/ ForceExit

Spec == Init /\ [][Next]_vars

\* Every task that can go on does; the clock runs.  That clients connect, send
\* commands or leave is up to them.
FairSpec ==
  /\ Spec
  /\ \A c \in Conns : WF_vars(Handler(c))
  /\ WF_vars(AddConnection \/ Spawn)
  /\ WF_vars(Evictor)
  /\ WF_vars(ThirtySeconds) /\ WF_vars(Drained \/ Flushed)

-----------------------------------------------------------------------------
(* Properties *)

\* The shape of the state: the semaphore never has more permits than it began
\* with, and a handler makes at most three attempts to remove its connection.
TypeOK ==
  /\ {embedded, timed, evHeld} \subseteq BOOLEAN
  /\ phase \in Phases
  /\ acc \in {"accept", "reserved", "added", "stopped"}
  /\ cand \in Conns \cup {None}
  /\ acc \in {"reserved", "added"} => cand \in Conns
  /\ st \in [Conns -> States]
  /\ tries \in [Conns -> 0 .. 3]
  /\ \A S \in {hears, shut, held, connections, permits, idle_ids, evicted} : S \subseteq Conns
  /\ available \in 0 .. max_connections
  /\ ev \in {"tick", "next", "conn", "release", "stopped"}
  /\ victim \in Conns \cup {None}
  /\ ev \in {"conn", "release"} => victim \in Conns

Count(b) == IF b THEN 1 ELSE 0

\* Whatever the evictor and a handler that removes the same connection do to
\* each other, a slot is neither lost nor given back twice: every permit is in
\* the semaphore, in the map, or in the hands of exactly one task.
PermitAccounting ==
  available + Cardinality(permits) + Cardinality(held) + Count(evHeld)
    + Count(acc = "reserved") = max_connections

\* The pool never holds more than max_connections: remove_connection keeps the
\* permit until the connection is out of the map.
PoolBounded == Cardinality(connections) <= max_connections

\* Handlers that serve a client.
Serving == {c \in Conns : st[c] \in {"read", "exec", "write"}}

\* Every connection that is served and was not evicted is in the pool, and has
\* its permit there unless the evictor is just taking it.
ServedAreInPool ==
  \A c \in Serving \ evicted :
    c \in connections /\ (c \in permits \/ (ev = "conn" /\ victim = c))

\* When the drain of the binary ends by itself, the only handlers that still
\* serve are those the evictor took out of the pool: no other command can be
\* executed after the writer was told to stop.
DrainedMeansQuiet ==
  (~embedded /\ ~timed /\ phase \in {"flushing", "down"}) => Serving \subseteq evicted

\* A handler that leaves its loop gives its slot back, also when the evictor
\* has removed the connection before it or is removing it.
SlotReturned ==
  \A c \in Conns :
    st[c] = "closing" ~>
      \/ st[c] = "gone" /\ c \notin connections \cup permits \cup held \cup {victim}
      \/ ~Alive

\* A shutdown that was asked for ends, however many handlers hang.
ShutdownEnds == (phase = "draining") ~> ~Alive

\* "waits up to 30 seconds for active connections to drain.  If a persistence
\* manager is attached it is asked to flush+close" (lib.rs:303), and on a drain
\* timeout it is "proceeding with shutdown anyway" (lib.rs:323): the process
\* does not exit before it has asked for the flush.
FlushBeforeExit == phase # "unflushed"
=============================================================================
