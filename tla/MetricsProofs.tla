---------------------------- MODULE MetricsProofs ----------------------------
(***************************************************************************)
(* Proofs about the metrics collector, for any tasks, names and limits:    *)
(* its types, the agreement of its counters, and that every call of it     *)
(* looks atomic.                                                           *)
(***************************************************************************)
EXTENDS Metrics, TLAPS, FiniteSetTheorems

Keys == Names \cup {OTHER_BUCKET}
CommandsType == [keys : SUBSET Keys, total : Nat]
PerformanceType == [total_operations : Nat, memory : Nat, peak : Nat]
NetworkType == [accepted : Nat, rejected : Nat, closed : Nat, active : Nat, bytes : Nat]
BeforeType == [commands : CommandsType, performance : PerformanceType, network : NetworkType]
SnapType == [ops : Nat, total : Nat, page : Nat, resets : Nat]

\* The types, with those of the auxiliary variables.
Types ==
  /\ commands \in CommandsType
  /\ performance \in PerformanceType
  /\ network \in NetworkType
  /\ storage \in Nat
  /\ lock \in [{"commands", "performance", "network"} -> Tasks \cup {Free}]
  /\ pc \in [Tasks -> Busy \cup {"idle"}]
  /\ snap \in [Tasks -> SnapType]
  /\ live \subseteq Tasks
  /\ before \in BeforeType
  /\ resets \in Nat
  /\ calls \in 0..MaxCalls

\* Who holds a lock across an await: the two halves of record_command_latency
\* and the stages of reset.
Owners ==
  \A t \in Tasks :
    /\ lock.commands = t <=> pc[t] \in {"recording", "reset2", "reset3"}
    /\ lock.performance = t <=> pc[t] \in {"reset1", "reset2", "reset3"}
    /\ lock.network = t <=> pc[t] = "reset3"

\* What a call under way has already done behind the locks it keeps.
Phases ==
  \A t \in Tasks :
    /\ pc[t] = "recording" =>
         \E name \in Names : commands = record_command(before.commands, name)
    /\ pc[t] \in {"reset1", "reset2", "reset3"} => performance = NoPerformance
    /\ pc[t] \in {"reset2", "reset3"} => commands = NoCommands
    /\ pc[t] = "reset3" => network = reset_network_metrics(before.network)

\* The visible counters of commands and operations agree at every moment.
Agree ==
  Seen("commands", commands).total = Seen("performance", performance).total_operations

Connections == IsFiniteSet(live) /\ network.active = Cardinality(live)

\* The map of command names is finite and within its cap, OTHER_BUCKET aside.
Capped(c) ==
  IsFiniteSet(c.keys) /\ Cardinality(c.keys \ {OTHER_BUCKET}) <= MAX_DISTINCT_COMMANDS

Bounds == Capped(commands) /\ performance.memory <= performance.peak

Inv == Types /\ Owners /\ Phases /\ Agree /\ Connections /\ Bounds

-----------------------------------------------------------------------------
(* The groups *)

\* Empty groups have their types.
LEMMA EmptyTypes ==
  /\ NoCommands \in CommandsType /\ NoPerformance \in PerformanceType
  /\ NoNetwork \in NetworkType /\ NoSnap \in SnapType
  /\ NoneKept \in BeforeType
  <1>1. NoCommands \in CommandsType
    BY DEF NoCommands, CommandsType
  <1>2. NoPerformance \in PerformanceType
    BY DEF NoPerformance, PerformanceType
  <1>3. NoNetwork \in NetworkType
    BY DEF NoNetwork, NetworkType
  <1>4. NoSnap \in SnapType
    BY DEF NoSnap, SnapType
  <1>5. NoneKept \in BeforeType
    BY <1>1, <1>2, <1>3 DEF NoneKept, BeforeType
  <1> QED
    BY <1>1, <1>2, <1>3, <1>4, <1>5

\* record_command counts one command.
LEMMA CommandStep ==
  ASSUME NEW c \in CommandsType, NEW name \in Names
  PROVE  record_command(c, name) \in CommandsType
         /\ record_command(c, name).total = c.total + 1
  <1>1. bucket_key(c, name) \in Keys
    BY DEF bucket_key, Keys
  <1>2. c.keys \in SUBSET Keys /\ c.total \in Nat
    BY DEF CommandsType
  <1>3. c.keys \cup {bucket_key(c, name)} \in SUBSET Keys
    BY <1>1, <1>2
  <1> QED
    BY <1>2, <1>3 DEF record_command, CommandsType

\* What the helpers of PerformanceMetrics do to the number of operations.
LEMMA PerformanceStep ==
  ASSUME NEW p \in PerformanceType, p.memory <= p.peak
  PROVE  /\ record_operation_latency(p) \in PerformanceType
         /\ record_operation_latency(p).total_operations = p.total_operations + 1
         /\ record_operation_latency(p).memory <= record_operation_latency(p).peak
         /\ \A bytes \in 0..1 :
              /\ update_memory_usage(p, bytes) \in PerformanceType
              /\ update_memory_usage(p, bytes).total_operations = p.total_operations
              /\ update_memory_usage(p, bytes).memory <= update_memory_usage(p, bytes).peak
  <1>1. p.total_operations \in Nat /\ p.memory \in Nat /\ p.peak \in Nat
    BY DEF PerformanceType
  <1>2. ASSUME NEW bytes \in 0..1
        PROVE  /\ update_memory_usage(p, bytes) \in PerformanceType
               /\ update_memory_usage(p, bytes).total_operations = p.total_operations
               /\ update_memory_usage(p, bytes).memory <= update_memory_usage(p, bytes).peak
    <2> DEFINE m == [p EXCEPT !.memory = bytes]
               top == IF bytes > p.peak THEN bytes ELSE p.peak
    <2>1. bytes \in Nat /\ top \in Nat /\ bytes <= top
      BY <1>1
    <2>2. m \in PerformanceType /\ m.total_operations = p.total_operations
            /\ m.memory = bytes /\ m.peak = p.peak
      BY <2>1 DEF PerformanceType
    <2>3. update_memory_usage(p, bytes) = [m EXCEPT !.peak = top]
      BY DEF update_memory_usage
    <2> HIDE DEF m, top
    <2> QED
      BY <2>1, <2>2, <2>3 DEF PerformanceType
  <1>3. /\ record_operation_latency(p) \in PerformanceType
        /\ record_operation_latency(p).total_operations = p.total_operations + 1
        /\ record_operation_latency(p).memory <= record_operation_latency(p).peak
    BY <1>1 DEF PerformanceType, record_operation_latency
  <1> QED
    BY <1>2, <1>3

\* What the helpers of NetworkMetrics do to the number of active connections.
LEMMA NetworkStep ==
  ASSUME NEW n \in NetworkType
  PROVE  /\ increment_connections_accepted(n) \in NetworkType
         /\ increment_connections_accepted(n).active = n.active + 1
         /\ increment_connections_rejected(n) \in NetworkType
         /\ increment_connections_rejected(n).active = n.active
         /\ increment_connections_closed(n) \in NetworkType
         /\ n.active > 0 => increment_connections_closed(n).active = n.active - 1
         /\ reset_network_metrics(n) \in NetworkType
         /\ reset_network_metrics(n).active = n.active
  <1> DEFINE a == [n EXCEPT !.accepted = n.accepted + 1]
             c == [n EXCEPT !.closed = n.closed + 1]
  <1>0. n.accepted \in Nat /\ n.closed \in Nat /\ n.active \in Nat
    BY DEF NetworkType
  <1>1. /\ increment_connections_accepted(n) \in NetworkType
        /\ increment_connections_accepted(n).active = n.active + 1
    <2>1. a \in NetworkType /\ a.active = n.active
      BY <1>0 DEF NetworkType
    <2>2. increment_connections_accepted(n) = [a EXCEPT !.active = n.active + 1]
      BY DEF increment_connections_accepted
    <2> HIDE DEF a
    <2> QED
      BY <1>0, <2>1, <2>2 DEF NetworkType
  <1>2. /\ increment_connections_rejected(n) \in NetworkType
        /\ increment_connections_rejected(n).active = n.active
    BY DEF NetworkType, increment_connections_rejected
  <1>3. /\ increment_connections_closed(n) \in NetworkType
        /\ n.active > 0 => increment_connections_closed(n).active = n.active - 1
    <2> DEFINE fewer == IF n.active > 0 THEN n.active - 1 ELSE n.active
    <2>1. c \in NetworkType /\ c.active = n.active /\ fewer \in Nat
      BY <1>0 DEF NetworkType
    <2>2. increment_connections_closed(n) = [c EXCEPT !.active = fewer]
      BY DEF increment_connections_closed
    <2>3. n.active > 0 => fewer = n.active - 1
      OBVIOUS
    <2> HIDE DEF c, fewer
    <2> QED
      BY <2>1, <2>2, <2>3 DEF NetworkType
  <1>4. /\ reset_network_metrics(n) \in NetworkType
        /\ reset_network_metrics(n).active = n.active
    BY DEF NetworkType, reset_network_metrics, NoNetwork
  <1> QED
    BY <1>1, <1>2, <1>3, <1>4

\* record_command keeps the map within its cap.
LEMMA CapKept ==
  ASSUME NEW c \in CommandsType, NEW name \in Names, Capped(c)
  PROVE  Capped(record_command(c, name))
  <1> DEFINE b == bucket_key(c, name)
  <1>1. record_command(c, name).keys = c.keys \cup {b}
    BY DEF record_command
  <1>2. IsFiniteSet(c.keys \cup {b})
    BY FS_AddElement DEF Capped
  <1>3. CASE b = OTHER_BUCKET \/ b \in c.keys
    <2>1. (c.keys \cup {b}) \ {OTHER_BUCKET} = c.keys \ {OTHER_BUCKET}
      BY <1>3
    <2> QED
      BY <1>1, <1>2, <2>1 DEF Capped
  <1>4. CASE b # OTHER_BUCKET /\ b \notin c.keys
    <2>1. Cardinality(c.keys) < MAX_DISTINCT_COMMANDS
      BY <1>4 DEF bucket_key
    <2>2. Cardinality(c.keys \cup {b}) = Cardinality(c.keys) + 1
      BY <1>4, FS_AddElement DEF Capped
    <2>3. /\ Cardinality(c.keys) \in Nat
          /\ Cardinality((c.keys \cup {b}) \ {OTHER_BUCKET}) \in Nat
          /\ Cardinality((c.keys \cup {b}) \ {OTHER_BUCKET}) <= Cardinality(c.keys \cup {b})
      BY <1>2, FS_Subset, FS_CardinalityType DEF Capped
    <2>4. Cardinality((c.keys \cup {b}) \ {OTHER_BUCKET}) <= MAX_DISTINCT_COMMANDS
      BY <2>1, <2>2, <2>3, MetricsAssumption
    <2> QED
      BY <1>1, <1>2, <2>4 DEF Capped
  <1> QED
    BY <1>3, <1>4

\* Initially no call is under way and nothing is counted.
LEMMA InitInv == Init => Inv
  <1> SUFFICES ASSUME Init PROVE Inv
    OBVIOUS
  <1>1. Types
    BY EmptyTypes, MetricsAssumption DEF Init, Types, Busy
  <1>2. Owners /\ Phases
    BY MetricsAssumption DEF Init, Owners, Phases
  <1>3. Agree
    BY DEF Init, Agree, Seen, Unlocked, NoCommands, NoPerformance
  <1>4. Connections
    BY FS_EmptySet DEF Init, Connections, NoNetwork
  <1>5. Bounds
    <2>1. Cardinality({} \ {OTHER_BUCKET}) = 0
      <3>1. {} \ {OTHER_BUCKET} = {}
        OBVIOUS
      <3> QED
        BY <3>1, FS_EmptySet
    <2> QED
      BY <2>1, FS_EmptySet, MetricsAssumption
      DEF Init, Bounds, Capped, NoCommands, NoPerformance
  <1> QED
    BY <1>1, <1>2, <1>3, <1>4, <1>5 DEF Inv

-----------------------------------------------------------------------------
(* The steps *)

\* The stages of a reader, and of a task outside every call.
Reading == {"idle", "summary1", "summary2", "page", "page1", "page2"}

\* A read takes no lock along and changes no group.
LEMMA ReadInv ==
  ASSUME Inv, NEW t \in Tasks, NEW x \in Reading, pc[t] \in Reading,
         pc' = [pc EXCEPT ![t] = x], snap' \in [Tasks -> SnapType],
         UNCHANGED <<groups, lock, live, aux, calls>>
  PROVE  Inv'
  <1> USE DEF Inv, groups, aux
  <1>1. Types'
    BY DEF Types, Reading, Busy
  <1>2. Owners'
    BY DEF Types, Owners, Reading
  <1>3. Phases'
    BY DEF Types, Phases, Reading
  <1>4. Agree' /\ Connections' /\ Bounds'
    BY DEF Agree, Seen, Unlocked, Connections, Bounds
  <1> QED
    BY <1>1, <1>2, <1>3, <1>4

\* A call that takes one lock and gives it back changes a group only while
\* nobody keeps that lock.
LEMMA OneLockInv ==
  ASSUME Inv, NEW t \in Tasks,
         UNCHANGED <<commands, lock, pc, snap, before, resets>>,
         performance' = performance
           \/ (/\ Unlocked("performance")
               /\ performance' \in PerformanceType
               /\ performance'.total_operations = performance.total_operations
               /\ performance'.memory <= performance'.peak),
         network' = network \/ (Unlocked("network") /\ network' \in NetworkType),
         storage' \in Nat, calls' \in 0..MaxCalls, live' \subseteq Tasks, Connections'
  PROVE  Inv'
  <1> USE DEF Inv
  <1>1. Types'
    BY DEF Types
  <1>2. Owners'
    BY DEF Owners
  <1>3. ASSUME NEW u \in Tasks PROVE lock.performance = u => performance' = performance
    BY MetricsAssumption DEF Unlocked
  <1>4. ASSUME NEW u \in Tasks PROVE lock.network = u => network' = network
    BY MetricsAssumption DEF Unlocked
  <1>5. Phases'
    BY <1>3, <1>4 DEF Owners, Phases
  <1>6. Agree'
    BY DEF Agree, Seen, Unlocked
  <1>7. Bounds'
    BY DEF Bounds, Capped
  <1> QED
    BY <1>1, <1>2, <1>5, <1>6, <1>7

\* The first half of record_command_latency.
LEMMA RecordCommandInv ==
  ASSUME Inv, NEW t \in Tasks, NEW name \in Names, RecordCommand(t, name)
  PROVE  Inv'
  <1> USE DEF Inv, RecordCommand, Go, Count
  <1>0. commands' \in CommandsType /\ calls' \in 0..MaxCalls
    BY CommandStep, MetricsAssumption DEF Types
  <1>1. Types'
    BY <1>0 DEF Types, BeforeType, Busy
  <1>2. Owners'
    BY MetricsAssumption DEF Types, Owners, Unlocked
  <1>3. Phases'
    <2> SUFFICES ASSUME NEW u \in Tasks PROVE Phases!(u)'
      BY DEF Phases
    <2>1. CASE u = t
      BY <2>1 DEF Types, BeforeType
    <2>2. CASE u # t
      BY <2>2, MetricsAssumption DEF Types, Owners, Phases, Unlocked, BeforeType
    <2> QED
      BY <2>1, <2>2
  <1>4. Agree'
    BY MetricsAssumption DEF Types, BeforeType, Agree, Seen, Unlocked
  <1>5. Connections'
    BY DEF Connections
  <1>6. Bounds'
    BY CapKept DEF Types, Bounds
  <1> QED
    BY <1>1, <1>2, <1>3, <1>4, <1>5, <1>6

\* The second half: both counters become visible together.
LEMMA RecordOperationInv ==
  ASSUME Inv, NEW t \in Tasks, RecordOperation(t)
  PROVE  Inv'
  <1> USE DEF Inv, RecordOperation, Go
  <1>0. /\ performance' \in PerformanceType
        /\ performance'.total_operations = performance.total_operations + 1
        /\ performance'.memory <= performance'.peak
    BY PerformanceStep DEF Types, Bounds
  <1>1. Types'
    BY <1>0, EmptyTypes DEF Types, BeforeType
  <1>2. Owners'
    BY MetricsAssumption DEF Types, Owners
  <1>3. Phases'
    <2> SUFFICES ASSUME NEW u \in Tasks PROVE Phases!(u)'
      BY DEF Phases
    <2>1. CASE u = t
      BY <2>1 DEF Types
    <2>2. CASE u # t
      BY <2>2, MetricsAssumption DEF Types, Owners, Phases, Unlocked
    <2> QED
      BY <2>1, <2>2
  <1>4. Agree'
    <2>1. PICK name \in Names : commands = record_command(before.commands, name)
      BY DEF Phases
    <2>2. before.commands \in CommandsType
      BY DEF Types, BeforeType
    <2>3. commands.total = before.commands.total + 1
      BY <2>1, <2>2, CommandStep
    <2>4. lock.commands = t /\ lock'.commands = Free /\ lock'.performance = Free
      BY DEF Types, Owners, Unlocked
    <2>5. before.commands.total = performance.total_operations
      BY <2>4, MetricsAssumption DEF Agree, Seen, Unlocked
    <2> QED
      BY <1>0, <2>3, <2>4, <2>5 DEF Agree, Seen, Unlocked
  <1>5. Connections'
    BY DEF Connections
  <1>6. Bounds'
    BY <1>0 DEF Bounds
  <1> QED
    BY <1>1, <1>2, <1>3, <1>4, <1>5, <1>6

\* reset clears the operations, out of sight.
LEMMA ResetPerformanceInv ==
  ASSUME Inv, NEW t \in Tasks, ResetPerformance(t)
  PROVE  Inv'
  <1> USE DEF Inv, ResetPerformance, Go, Count
  <1>0. performance' \in PerformanceType /\ calls' \in 0..MaxCalls
    BY EmptyTypes, MetricsAssumption DEF Types
  <1>1. Types'
    BY <1>0 DEF Types, BeforeType, Busy
  <1>2. Owners'
    BY MetricsAssumption DEF Types, Owners, Unlocked
  <1>3. Phases'
    <2> SUFFICES ASSUME NEW u \in Tasks PROVE Phases!(u)'
      BY DEF Phases
    <2>1. CASE u = t
      BY <2>1 DEF Types
    <2>2. CASE u # t
      BY <2>2, MetricsAssumption DEF Types, Owners, Phases, Unlocked, BeforeType
    <2> QED
      BY <2>1, <2>2
  <1>4. Agree'
    BY MetricsAssumption DEF Types, BeforeType, Agree, Seen, Unlocked
  <1>5. Connections'
    BY DEF Connections
  <1>6. Bounds'
    BY DEF Bounds, NoPerformance
  <1> QED
    BY <1>1, <1>2, <1>3, <1>4, <1>5, <1>6

\* Then the commands, also out of sight.
LEMMA ResetCommandsInv ==
  ASSUME Inv, NEW t \in Tasks, ResetCommands(t)
  PROVE  Inv'
  <1> USE DEF Inv, ResetCommands, Go
  <1>1. Types'
    BY EmptyTypes DEF Types, BeforeType, Busy
  <1>2. Owners'
    BY MetricsAssumption DEF Types, Owners, Unlocked
  <1>3. Phases'
    <2> SUFFICES ASSUME NEW u \in Tasks PROVE Phases!(u)'
      BY DEF Phases
    <2>1. CASE u = t
      BY <2>1 DEF Types, Phases
    <2>2. CASE u # t
      BY <2>2, MetricsAssumption DEF Types, Owners, Phases, Unlocked, BeforeType
    <2> QED
      BY <2>1, <2>2
  <1>4. Agree'
    BY MetricsAssumption DEF Types, BeforeType, Agree, Seen, Unlocked
  <1>5. Connections'
    BY DEF Connections
  <1>6. Bounds'
    <2>1. {} \ {OTHER_BUCKET} = {}
      OBVIOUS
    <2> QED
      BY <2>1, FS_EmptySet, MetricsAssumption DEF Bounds, Capped, NoCommands
  <1> QED
    BY <1>1, <1>2, <1>3, <1>4, <1>5, <1>6

\* Then the network group, whose active connections stay.
LEMMA ResetNetworkInv ==
  ASSUME Inv, NEW t \in Tasks, ResetNetwork(t)
  PROVE  Inv'
  <1> USE DEF Inv, ResetNetwork, Go
  <1>0. network' \in NetworkType /\ network'.active = network.active
    BY NetworkStep DEF Types
  <1>1. Types'
    BY <1>0 DEF Types, BeforeType, Busy
  <1>2. Owners'
    BY MetricsAssumption DEF Types, Owners, Unlocked
  <1>3. Phases'
    <2> SUFFICES ASSUME NEW u \in Tasks PROVE Phases!(u)'
      BY DEF Phases
    <2>1. CASE u = t
      BY <2>1 DEF Types, Phases, BeforeType
    <2>2. CASE u # t
      BY <2>2, MetricsAssumption DEF Types, Owners, Phases, Unlocked, BeforeType
    <2> QED
      BY <2>1, <2>2
  <1>4. Agree'
    BY DEF Types, BeforeType, Agree, Seen, Unlocked
  <1>5. Connections'
    BY <1>0 DEF Connections
  <1>6. Bounds'
    BY DEF Bounds
  <1> QED
    BY <1>1, <1>2, <1>3, <1>4, <1>5, <1>6

\* Last the storage group; all guards are dropped.
LEMMA ResetStorageInv ==
  ASSUME Inv, NEW t \in Tasks, ResetStorage(t)
  PROVE  Inv'
  <1> USE DEF Inv, ResetStorage, Go
  <1>1. Types'
    BY EmptyTypes DEF Types
  <1>2. Owners'
    BY MetricsAssumption DEF Types, Owners
  <1>3. Phases'
    BY DEF Types, Owners, Phases
  <1>4. Agree'
    BY DEF Types, Phases, Agree, Seen, Unlocked, NoCommands, NoPerformance
  <1>5. Connections' /\ Bounds'
    BY DEF Connections, Bounds
  <1> QED
    BY <1>1, <1>2, <1>3, <1>4, <1>5

\* A connection is counted when it is accepted and forgotten when it closes.
LEMMA ConnectionStep ==
  ASSUME Inv, NEW t \in Tasks, Connected(t) \/ Disconnected(t)
  PROVE  Connections' /\ network' \in NetworkType
  <1> USE DEF Inv
  <1>1. CASE Connected(t)
    <2>1. IsFiniteSet(live') /\ Cardinality(live') = Cardinality(live) + 1
      BY <1>1, FS_AddElement DEF Connected, Connections
    <2> QED
      BY <1>1, <2>1, NetworkStep DEF Connected, Connections, Types
  <1>2. CASE Disconnected(t)
    <2>1. IsFiniteSet(live') /\ Cardinality(live') = Cardinality(live) - 1
      BY <1>2, FS_RemoveElement DEF Disconnected, Connections
    <2>2. Cardinality(live) \in Nat /\ Cardinality(live') \in Nat
      BY <2>1, FS_CardinalityType DEF Connections
    <2>3. network.active > 0
      BY <2>1, <2>2 DEF Connections
    <2> QED
      BY <1>2, <2>1, <2>3, NetworkStep DEF Disconnected, Connections, Types
  <1> QED
    BY <1>1, <1>2

\* The calls on a single group.
LEMMA SingleInv ==
  ASSUME Inv, NEW t \in Tasks,
         \/ \E bytes \in 0..1 : record_memory_usage(t, bytes)
         \/ Connected(t) \/ Rejected(t) \/ Disconnected(t)
         \/ record_network_bytes(t) \/ record_storage_operation(t)
  PROVE  Inv'
  <1> USE DEF Inv
  <1>1. ASSUME NEW bytes \in 0..1, record_memory_usage(t, bytes) PROVE Inv'
    <2>1. /\ performance' \in PerformanceType
          /\ performance'.total_operations = performance.total_operations
          /\ performance'.memory <= performance'.peak
      BY <1>1, PerformanceStep DEF record_memory_usage, Types, Bounds
    <2>2. Connections'
      BY <1>1 DEF record_memory_usage, Connections
    <2> QED
      BY <1>1, <2>1, <2>2, OneLockInv, MetricsAssumption
      DEF record_memory_usage, Count, aux, Types
  <1>2. CASE Connected(t) \/ Disconnected(t)
    <2>1. Connections' /\ network' \in NetworkType
      BY <1>2, ConnectionStep
    <2> QED
      BY <1>2, <2>1, OneLockInv, MetricsAssumption
      DEF Connected, Disconnected, Count, aux, Types
  <1>3. CASE Rejected(t)
    <2>1. Connections' /\ network' \in NetworkType
      BY <1>3, NetworkStep DEF Rejected, Types, Connections
    <2> QED
      BY <1>3, <2>1, OneLockInv, MetricsAssumption DEF Rejected, Count, aux, Types
  <1>4. CASE record_network_bytes(t)
    <2>1. network' \in NetworkType /\ network'.active = network.active
      BY <1>4 DEF record_network_bytes, Types, NetworkType
    <2>2. Connections'
      BY <1>4, <2>1 DEF record_network_bytes, Connections
    <2> QED
      BY <1>4, <2>1, <2>2, OneLockInv, MetricsAssumption
      DEF record_network_bytes, Count, aux, Types
  <1>5. CASE record_storage_operation(t)
    <2>1. Connections'
      BY <1>5 DEF record_storage_operation, Connections
    <2> QED
      BY <1>5, <2>1, OneLockInv, MetricsAssumption
      DEF record_storage_operation, Count, aux, Types
  <1> QED
    BY <1>1, <1>2, <1>3, <1>4, <1>5

\* The reads of get_summary and format_prometheus_metrics.
Reads(t) ==
  \/ SummaryPerformance(t) \/ SummaryCommands(t) \/ SummaryRest(t)
  \/ PagePerformance(t) \/ PageCommands(t) \/ PageRest(t)

\* Their steps are quiet: no group and no lock changes.
LEMMA ReadStep ==
  ASSUME Types, NEW t \in Tasks, Reads(t)
  PROVE  /\ pc[t] \in Reading
         /\ \E x \in Reading : pc' = [pc EXCEPT ![t] = x]
         /\ snap' \in [Tasks -> SnapType]
         /\ UNCHANGED <<groups, lock, live, aux, calls>>
  <1>0. performance.total_operations \in Nat /\ commands.total \in Nat
    BY DEF Types, PerformanceType, CommandsType
  <1>1. CASE SummaryPerformance(t)
    <2>1. [NoSnap EXCEPT !.ops = performance.total_operations, !.resets = resets] \in SnapType
      <3> DEFINE m == [NoSnap EXCEPT !.ops = performance.total_operations]
      <3>1. m \in SnapType
        BY <1>0, EmptyTypes DEF SnapType
      <3>2. [NoSnap EXCEPT !.ops = performance.total_operations, !.resets = resets]
              = [m EXCEPT !.resets = resets]
        OBVIOUS
      <3> HIDE DEF m
      <3>3. [m EXCEPT !.resets = resets] \in SnapType
        BY <3>1 DEF SnapType, Types
      <3> QED
        BY <3>2, <3>3
    <2> QED
      BY <1>1, <2>1 DEF SummaryPerformance, Go, Reading, Types
  <1>2. CASE SummaryCommands(t)
    BY <1>0, <1>2 DEF SummaryCommands, Go, Reading, Types, SnapType
  <1>3. CASE SummaryRest(t)
    BY <1>3, EmptyTypes DEF SummaryRest, Go, Reading, Types
  <1>4. CASE PagePerformance(t)
    BY <1>4 DEF PagePerformance, Go, Reading, Types
  <1>5. CASE PageCommands(t)
    BY <1>0, <1>5 DEF PageCommands, Go, Reading, Types, SnapType
  <1>6. CASE PageRest(t)
    BY <1>6, EmptyTypes DEF PageRest, Go, Reading, Types
  <1> QED
    BY <1>1, <1>2, <1>3, <1>4, <1>5, <1>6 DEF Reads

\* Every step preserves the invariant.
LEMMA NextInv == Inv /\ [Next]_vars => Inv'
  <1> SUFFICES ASSUME Inv, [Next]_vars PROVE Inv'
    OBVIOUS
  <1>1. CASE UNCHANGED vars
    BY <1>1 DEF vars, Inv, Types, Owners, Phases, Agree, Seen, Unlocked, Connections, Bounds, Capped
  <1>2. ASSUME NEW t \in Tasks, Begin(t) \/ Proceed(t) PROVE Inv'
    <2>1. CASE Reads(t)
      BY <2>1, ReadStep, ReadInv DEF Inv
    <2>2. CASE ~Reads(t)
      BY <1>2, <2>2, RecordCommandInv, RecordOperationInv, ResetPerformanceInv,
         ResetCommandsInv, ResetNetworkInv, ResetStorageInv, SingleInv
      DEF Begin, Proceed, Reads
    <2> QED
      BY <2>1, <2>2
  <1> QED
    BY <1>1, <1>2 DEF Next

-----------------------------------------------------------------------------
(* The theorems *)

\* The inductive invariant holds in every reachable state.
THEOREM Invariance == Spec => []Inv
  BY InitInv, NextInv, PTL DEF Spec

\* The collector's state keeps its shape, and the map of command names its cap,
\* for any number of tasks, names and buckets (metrics/collector.rs).
THEOREM TypesHold == Spec => []TypeOK
  <1>1. Inv => TypeOK
    BY DEF Inv, Types, Bounds, Capped, TypeOK, CommandsType, PerformanceType, NetworkType,
       SnapType, Keys
  <1> QED
    BY <1>1, Invariance, PTL

\* record_command_latency and reset never let the two counters they share come
\* apart, and active_connections is the number of connected handlers.
THEOREM CountersAlwaysAgree == Spec => []CountersAgree
  <1>1. Inv => CountersAgree
    BY DEF Inv, Agree, Seen, Connections, CountersAgree
  <1> QED
    BY <1>1, Invariance, PTL

-----------------------------------------------------------------------------
(* Refinement of AtomicMetrics *)

\* What readers see, as one value.
Visible == <<Seen("commands", commands), Seen("performance", performance),
             Seen("network", network), storage>>

\* The first steps of a call that keeps its locks, and all reads, are invisible.
LEMMA InvisibleSteps ==
  ASSUME Inv, NEW t \in Tasks,
         \/ \E name \in Names : RecordCommand(t, name)
         \/ ResetPerformance(t) \/ ResetCommands(t) \/ ResetNetwork(t) \/ Reads(t)
  PROVE  UNCHANGED Visible
  <1> USE MetricsAssumption DEF Inv, Types, BeforeType, Seen, Unlocked, Visible
  <1>1. ASSUME NEW name \in Names, RecordCommand(t, name) PROVE UNCHANGED Visible
    BY <1>1 DEF RecordCommand
  <1>2. CASE ResetPerformance(t)
    BY <1>2 DEF ResetPerformance
  <1>3. CASE ResetCommands(t)
    BY <1>3 DEF ResetCommands
  <1>4. CASE ResetNetwork(t)
    BY <1>4 DEF ResetNetwork
  <1>5. CASE Reads(t)
    BY <1>5, ReadStep DEF groups, aux
  <1> QED
    BY <1>1, <1>2, <1>3, <1>4, <1>5

\* The step that drops the guards is the whole call.
LEMMA VisibleSteps ==
  ASSUME Inv, NEW t \in Tasks
  PROVE  /\ RecordOperation(t) => Atomic!record_command_latency
         /\ ResetStorage(t) => Atomic!reset
  <1> USE MetricsAssumption DEF Inv
  <1>1. ASSUME RecordOperation(t) PROVE Atomic!record_command_latency
    <2>1. PICK name \in Names : commands = record_command(before.commands, name)
      BY <1>1 DEF RecordOperation, Go, Phases
    <2>2. /\ lock.commands = t /\ lock'.commands = Free
          /\ lock.performance = Free /\ lock'.performance = Free
          /\ lock'.network = lock.network /\ before'.network = before.network
      BY <1>1 DEF RecordOperation, Go, Owners, Types, BeforeType, Unlocked
    <2>3. /\ Seen("commands", commands) = before.commands
          /\ Seen("commands", commands)' = commands
          /\ Seen("performance", performance)' = record_operation_latency(Seen("performance", performance))
          /\ Seen("network", network)' = Seen("network", network)
          /\ storage' = storage
      BY <1>1, <2>2 DEF RecordOperation, Seen, Unlocked
    <2> QED
      BY <2>1, <2>3 DEF Atomic!record_command_latency
  <1>2. ASSUME ResetStorage(t) PROVE Atomic!reset
    <2>1. /\ lock.network = t
          /\ lock'.commands = Free /\ lock'.performance = Free /\ lock'.network = Free
          /\ commands' = NoCommands /\ performance' = NoPerformance
          /\ network' = reset_network_metrics(before.network) /\ storage' = 0
      BY <1>2 DEF ResetStorage, Go, Owners, Phases, Types
    <2>2. /\ Seen("commands", commands)' = NoCommands
          /\ Seen("performance", performance)' = NoPerformance
          /\ Seen("network", network) = before.network
          /\ Seen("network", network)' = network'
      BY <2>1 DEF Seen, Unlocked
    <2> QED
      BY <2>1, <2>2 DEF Atomic!reset
  <1> QED
    BY <1>1, <1>2

\* A call on one group is the abstract call on that group.
LEMMA SingleSteps ==
  ASSUME Inv, NEW t \in Tasks
  PROVE  /\ \A bytes \in 0..1 : record_memory_usage(t, bytes) => Atomic!record_memory_usage
         /\ Connected(t) \/ Disconnected(t) \/ Rejected(t) \/ record_network_bytes(t)
              => Atomic!record_network
         /\ record_storage_operation(t) => Atomic!record_storage_operation
  <1> USE DEF Inv, Seen, Unlocked, aux
  <1>1. ASSUME NEW bytes \in 0..1, record_memory_usage(t, bytes)
        PROVE  Atomic!record_memory_usage
    <2>1. performance'.total_operations = performance.total_operations
      BY <1>1, PerformanceStep DEF record_memory_usage, Types, Bounds
    <2> QED
      BY <1>1, <2>1 DEF record_memory_usage, Atomic!record_memory_usage
  <1>2. ASSUME Connected(t) \/ Disconnected(t) \/ Rejected(t) \/ record_network_bytes(t)
        PROVE  Atomic!record_network
    BY <1>2 DEF Connected, Disconnected, Rejected, record_network_bytes, Atomic!record_network
  <1>3. ASSUME record_storage_operation(t) PROVE Atomic!record_storage_operation
    BY <1>3 DEF record_storage_operation, Atomic!record_storage_operation
  <1> QED
    BY <1>1, <1>2, <1>3

\* Every call of the collector looks atomic to whoever reads under the locks,
\* however record_command_latency, reset and the readers interleave.
THEOREM Refinement == Spec => CallsAreAtomic
  <1>1. Init => Atomic!Init
    BY DEF Init, Atomic!Init, Seen, Unlocked
  <1>2. Inv /\ [Next]_vars => [Atomic!Next]_(Atomic!vars)
    <2> SUFFICES ASSUME Inv, [Next]_vars PROVE [Atomic!Next]_(Atomic!vars)
      OBVIOUS
    <2>1. CASE UNCHANGED vars
      BY <2>1 DEF vars, Atomic!vars, Seen, Unlocked
    <2>2. ASSUME NEW t \in Tasks, Begin(t) \/ Proceed(t)
          PROVE  Atomic!Next \/ UNCHANGED Visible
      BY <2>2, InvisibleSteps, VisibleSteps, SingleSteps
      DEF Begin, Proceed, Reads, Atomic!Next
    <2> QED
      BY <2>1, <2>2 DEF Next, Visible, Atomic!vars
  <1> QED
    BY <1>1, <1>2, Invariance, PTL DEF Spec, CallsAreAtomic, Atomic!Spec

-----------------------------------------------------------------------------
(* The order of the reads *)

\* The number of commands a reader would see now.
Shown == Seen("commands", commands).total

\* What each reader has read is not more than what was read, or could be read,
\* after it, unless a reset was completed since it began.
Ordered ==
  \A t \in Tasks :
    /\ snap[t].resets <= resets
    /\ \/ resets > snap[t].resets
       \/ /\ pc[t] = "summary1" => snap[t].ops <= Shown
          /\ pc[t] \in {"summary2", "page", "page1", "page2"} => snap[t].ops <= snap[t].total
          /\ pc[t] \in {"summary2", "page", "page1"} => snap[t].total <= Shown
          /\ pc[t] = "page2" => snap[t].total <= snap[t].page

\* Only a completed reset makes the visible number smaller.
LEMMA ShownGrows ==
  ASSUME Inv, NEW t \in Tasks, Begin(t) \/ Proceed(t)
  PROVE  /\ Shown \in Nat /\ Shown' \in Nat
         /\ (resets' = resets /\ Shown' >= Shown) \/ resets' = resets + 1
  <1>0. Inv'
    BY NextInv DEF Next
  <1>1. Shown \in Nat /\ Shown' \in Nat /\ Seen("commands", commands) \in CommandsType
    BY <1>0 DEF Inv, Types, BeforeType, CommandsType, Shown, Seen
  <1>2. CASE ResetStorage(t)
    BY <1>1, <1>2 DEF ResetStorage
  <1>3. CASE RecordOperation(t)
    <2>1. PICK name \in Names :
            Seen("commands", commands)' = record_command(Seen("commands", commands), name)
      BY <1>3, VisibleSteps DEF Atomic!record_command_latency
    <2> QED
      BY <1>1, <1>3, <2>1, CommandStep DEF RecordOperation, Shown
  <1>4. CASE \/ \E name \in Names : RecordCommand(t, name)
             \/ ResetPerformance(t) \/ ResetCommands(t) \/ ResetNetwork(t) \/ Reads(t)
    <2>1. Shown' = Shown
      BY <1>4, InvisibleSteps DEF Visible, Shown
    <2>2. resets' = resets
      BY <1>4, ReadStep DEF Inv, aux, RecordCommand, ResetPerformance, ResetCommands, ResetNetwork
    <2> QED
      BY <1>1, <2>1, <2>2
  <1>5. CASE \/ \E bytes \in 0..1 : record_memory_usage(t, bytes)
             \/ Connected(t) \/ Disconnected(t) \/ Rejected(t)
             \/ record_network_bytes(t) \/ record_storage_operation(t)
    BY <1>1, <1>5 DEF record_memory_usage, Connected, Disconnected, Rejected,
       record_network_bytes, record_storage_operation, aux, Shown, Seen, Unlocked
  <1> QED
    BY <1>2, <1>3, <1>4, <1>5 DEF Begin, Proceed, Reads

\* A step that reads nothing leaves every reader where it is.
LEMMA OtherSteps ==
  ASSUME Inv, NEW t \in Tasks, Begin(t) \/ Proceed(t), ~Reads(t)
  PROVE  /\ snap' = snap
         /\ \A u \in Tasks : pc'[u] = pc[u] \/ pc'[u] \in {"idle", "recording", "reset1", "reset2", "reset3"}
  BY DEF Inv, Types, Begin, Proceed, Reads, RecordCommand, RecordOperation, record_memory_usage,
     Connected, Rejected, Disconnected, record_network_bytes, record_storage_operation,
     ResetPerformance, ResetCommands, ResetNetwork, ResetStorage, Go

\* Every step preserves the order.
LEMMA OrderedStep ==
  ASSUME Inv, Ordered, NEW t \in Tasks, Begin(t) \/ Proceed(t)
  PROVE  Ordered'
  <1>0. /\ resets \in Nat /\ snap \in [Tasks -> SnapType]
        /\ \A u \in Tasks : /\ snap[u].ops \in Nat /\ snap[u].total \in Nat
                             /\ snap[u].page \in Nat /\ snap[u].resets \in Nat
    BY DEF Inv, Types, SnapType
  <1>1. /\ Shown \in Nat /\ Shown' \in Nat
        /\ (resets' = resets /\ Shown' >= Shown) \/ resets' = resets + 1
    BY ShownGrows
  <1>2. CASE ~Reads(t)
    BY <1>0, <1>1, <1>2, OtherSteps DEF Ordered
  <1>3. CASE Reads(t)
    <2>1. resets' = resets /\ Shown' = Shown
      BY <1>3, ReadStep, InvisibleSteps DEF Inv, aux, Visible, Shown
    <2>2. ASSUME NEW u \in Tasks, u # t PROVE pc'[u] = pc[u] /\ snap'[u] = snap[u]
      BY <1>3, <2>2 DEF Inv, Types, Reads, SummaryPerformance, SummaryCommands, SummaryRest,
         PagePerformance, PageCommands, PageRest, Go
    <2>3. SUFFICES Ordered!(t)'
      BY <2>1, <2>2 DEF Ordered
    <2>4. CASE SummaryPerformance(t)
      <3>1. pc'[t] = "summary1" /\ snap'[t].ops = performance.total_operations
              /\ snap'[t].resets = resets
        BY <2>4, <1>0 DEF SummaryPerformance, Go, NoSnap, Inv, Types
      <3>2. performance.total_operations = Shown
        BY <2>4 DEF SummaryPerformance, Inv, Agree, Shown, Seen
      <3> QED
        BY <1>0, <1>1, <2>1, <3>1, <3>2
    <2>5. CASE SummaryCommands(t)
      <3>1. /\ pc[t] = "summary1" /\ pc'[t] = "summary2"
            /\ snap'[t].total = commands.total /\ snap'[t].ops = snap[t].ops
            /\ snap'[t].resets = snap[t].resets
        BY <2>5, <1>0 DEF SummaryCommands, Go, SnapType, Inv, Types
      <3>2. commands.total = Shown
        BY <2>5 DEF SummaryCommands, Shown, Seen
      <3> QED
        BY <1>0, <1>1, <2>1, <3>1, <3>2 DEF Ordered
    <2>6. CASE PageCommands(t)
      <3>1. /\ pc[t] = "page1" /\ pc'[t] = "page2"
            /\ snap'[t].page = commands.total /\ snap'[t].ops = snap[t].ops
            /\ snap'[t].total = snap[t].total /\ snap'[t].resets = snap[t].resets
        BY <2>6, <1>0 DEF PageCommands, Go, SnapType, Inv, Types
      <3>2. commands.total = Shown
        BY <2>6 DEF PageCommands, Shown, Seen
      <3> QED
        BY <1>0, <1>1, <2>1, <3>1, <3>2 DEF Ordered
    <2>7. CASE SummaryRest(t) \/ PagePerformance(t) \/ PageRest(t)
      BY <1>0, <1>1, <2>1, <2>7
      DEF SummaryRest, PagePerformance, PageRest, Go, NoSnap, Ordered, Inv, Types
    <2> QED
      BY <1>3, <2>4, <2>5, <2>6, <2>7 DEF Reads
  <1> QED
    BY <1>2, <1>3

\* A page of metrics never shows an operation whose command it does not count,
\* unless a reset was completed while it was read.
THEOREM ReadsAlwaysOrdered == Spec => []ReadsAreOrdered
  <1>1. Init => Ordered
    BY DEF Init, Ordered, NoSnap
  <1>2. Inv /\ Ordered /\ [Next]_vars => Ordered'
    <2> SUFFICES ASSUME Inv, Ordered, [Next]_vars PROVE Ordered'
      OBVIOUS
    <2>1. CASE UNCHANGED vars
      BY <2>1 DEF vars, Ordered, Shown, Seen, Unlocked
    <2> QED
      BY <2>1, OrderedStep DEF Next
  <1>3. Ordered => ReadsAreOrdered
    BY DEF Ordered, ReadsAreOrdered
  <1> QED
    BY <1>1, <1>2, <1>3, Invariance, PTL DEF Spec
=============================================================================
