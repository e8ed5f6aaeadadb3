------------------------------- MODULE Metrics -------------------------------
(***************************************************************************)
(* The metrics collector (metrics/collector.rs): four groups of counters,  *)
(* each behind a tokio RwLock of its own.  Connection handlers record,     *)
(* monitoring requests read (get_summary and format_prometheus_metrics of  *)
(* monitoring.rs), and reset clears everything.  A lock that is held while *)
(* another one is awaited shows between two steps; all other critical      *)
(* sections are one step.                                                  *)
(*                                                                         *)
(* Of the command map the keys and the sum of the counts are kept, of the  *)
(* bytes and the storage operations a number.                              *)
(***************************************************************************)
EXTENDS Integers, FiniteSets

CONSTANTS
  Tasks,                  \* connection handlers and monitoring requests
  Names,                  \* command names
  OTHER_BUCKET,
  MAX_DISTINCT_COMMANDS,
  Free,                   \* no holder
  MaxCalls                \* bound: calls that write

ASSUME MetricsAssumption ==
  /\ Free \notin Tasks
  /\ MAX_DISTINCT_COMMANDS \in Nat
  /\ MaxCalls \in Nat

VARIABLES
  commands,      \* command_counts: [keys, total]
  performance,   \* [total_operations, memory, peak]
  network,       \* [accepted, rejected, closed, active, bytes]
  storage,       \* operations
  lock,          \* the task that holds each lock across an await
  pc,            \* where each task is
  snap,          \* what a reading task has read so far
  live,          \* handlers between their Connected and Disconnected events
  before,        \* auxiliary: each group whose lock is kept, when it was taken
  resets,        \* auxiliary: completed resets
  calls          \* writing calls so far

groups == <<commands, performance, network, storage>>
aux == <<before, resets>>
vars == <<commands, performance, network, storage, lock, pc, snap, live, before, resets, calls>>

NoCommands == [keys |-> {}, total |-> 0]
NoPerformance == [total_operations |-> 0, memory |-> 0, peak |-> 0]
NoNetwork == [accepted |-> 0, rejected |-> 0, closed |-> 0, active |-> 0, bytes |-> 0]
NoneKept == [commands |-> NoCommands, performance |-> NoPerformance, network |-> NoNetwork]
NoSnap == [ops |-> 0, total |-> 0, page |-> 0, resets |-> 0]

-----------------------------------------------------------------------------
(* The groups *)

\* Mutant of bucket_key: one name too many gets a key of its own.
bucket_key_late(c, name) ==
  IF name \in c.keys \/ Cardinality(c.keys) <= MAX_DISTINCT_COMMANDS THEN name ELSE OTHER_BUCKET

bucket_key(c, name) ==
  IF name \in c.keys \/ Cardinality(c.keys) < MAX_DISTINCT_COMMANDS THEN name ELSE OTHER_BUCKET

record_command(c, name) ==
  [keys |-> c.keys \cup {bucket_key(c, name)}, total |-> c.total + 1]

record_operation_latency(p) == [p EXCEPT !.total_operations = @ + 1]

update_memory_usage(p, bytes) ==
  [p EXCEPT !.memory = bytes, !.peak = IF bytes > @ THEN bytes ELSE @]

increment_connections_accepted(n) == [n EXCEPT !.accepted = @ + 1, !.active = @ + 1]
increment_connections_rejected(n) == [n EXCEPT !.rejected = @ + 1]
increment_connections_closed(n) ==
  [n EXCEPT !.closed = @ + 1, !.active = IF @ > 0 THEN @ - 1 ELSE @]

\* active_connections is current state and stays.
reset_network_metrics(n) == [NoNetwork EXCEPT !.active = n.active]

-----------------------------------------------------------------------------

Init ==
  /\ commands = NoCommands /\ performance = NoPerformance
  /\ network = NoNetwork /\ storage = 0
  /\ lock = [l \in {"commands", "performance", "network"} |-> Free]
  /\ pc = [t \in Tasks |-> "idle"]
  /\ snap = [t \in Tasks |-> NoSnap]
  /\ live = {}
  /\ before = NoneKept
  /\ resets = 0 /\ calls = 0

Go(t, from, to) == pc[t] = from /\ pc' = [pc EXCEPT ![t] = to]
Unlocked(l) == lock[l] = Free

\* A writing call begins.
Count == calls < MaxCalls /\ calls' = calls + 1

(* record_command_latency: the commands lock is kept for the second half. *)

RecordCommand(t, name) ==
  /\ Go(t, "idle", "recording") /\ Count
  /\ Unlocked("commands")
  /\ commands' = record_command(commands, name)
  /\ lock' = [lock EXCEPT !.commands = t]
  /\ before' = [before EXCEPT !.commands = commands]
  /\ UNCHANGED <<performance, network, storage, snap, live, resets>>

RecordOperation(t) ==
  /\ Go(t, "recording", "idle")
  /\ Unlocked("performance")
  /\ performance' = record_operation_latency(performance)
  /\ lock' = [lock EXCEPT !.commands = Free]
  /\ before' = [before EXCEPT !.commands = NoCommands]
  /\ UNCHANGED <<commands, network, storage, snap, live, resets, calls>>

(* Calls that take one lock *)

record_memory_usage(t, bytes) ==
  /\ pc[t] = "idle" /\ Count
  /\ Unlocked("performance")
  /\ performance' = update_memory_usage(performance, bytes)
  /\ UNCHANGED <<commands, network, storage, lock, pc, snap, live, aux>>

Connected(t) ==
  /\ pc[t] = "idle" /\ t \notin live /\ Count
  /\ Unlocked("network")
  /\ network' = increment_connections_accepted(network)
  /\ live' = live \cup {t}
  /\ UNCHANGED <<commands, performance, storage, lock, pc, snap, aux>>

Rejected(t) ==
  /\ pc[t] = "idle" /\ t \notin live /\ Count
  /\ Unlocked("network")
  /\ network' = increment_connections_rejected(network)
  /\ UNCHANGED <<commands, performance, storage, lock, pc, snap, live, aux>>

Disconnected(t) ==
  /\ pc[t] = "idle" /\ t \in live
  /\ Unlocked("network")
  /\ network' = increment_connections_closed(network)
  /\ live' = live \ {t}
  /\ UNCHANGED <<commands, performance, storage, lock, pc, snap, aux, calls>>

record_network_bytes(t) ==
  /\ pc[t] = "idle" /\ t \in live /\ Count
  /\ Unlocked("network")
  /\ network' = [network EXCEPT !.bytes = @ + 1]
  /\ UNCHANGED <<commands, performance, storage, lock, pc, snap, live, aux>>

record_storage_operation(t) ==
  /\ pc[t] = "idle" /\ Count
  /\ storage' = storage + 1
  /\ UNCHANGED <<commands, performance, network, lock, pc, snap, live, aux>>

(* reset: performance, commands, network, storage, each lock kept to the end *)

ResetPerformance(t) ==
  /\ Go(t, "idle", "reset1") /\ Count
  /\ Unlocked("performance")
  /\ performance' = NoPerformance
  /\ lock' = [lock EXCEPT !.performance = t]
  /\ before' = [before EXCEPT !.performance = performance]
  /\ UNCHANGED <<commands, network, storage, snap, live, resets>>

\* Mutant of ResetCommands: each guard is dropped once its group is cleared.
ResetCommandsScoped(t) ==
  /\ Go(t, "reset1", "reset2")
  /\ Unlocked("commands")
  /\ commands' = NoCommands
  /\ lock' = [lock EXCEPT !.commands = t, !.performance = Free]
  /\ before' = [before EXCEPT !.commands = commands]
  /\ UNCHANGED <<performance, network, storage, snap, live, resets, calls>>

ResetCommands(t) ==
  /\ Go(t, "reset1", "reset2")
  /\ Unlocked("commands")
  /\ commands' = NoCommands
  /\ lock' = [lock EXCEPT !.commands = t]
  /\ before' = [before EXCEPT !.commands = commands]
  /\ UNCHANGED <<performance, network, storage, snap, live, resets, calls>>

ResetNetwork(t) ==
  /\ Go(t, "reset2", "reset3")
  /\ Unlocked("network")
  /\ network' = reset_network_metrics(network)
  /\ lock' = [lock EXCEPT !.network = t]
  /\ before' = [before EXCEPT !.network = network]
  /\ UNCHANGED <<commands, performance, storage, snap, live, resets, calls>>

ResetStorage(t) ==
  /\ Go(t, "reset3", "idle")
  /\ storage' = 0
  /\ lock' = [l \in DOMAIN lock |-> Free]
  /\ before' = NoneKept
  /\ resets' = resets + 1
  /\ UNCHANGED <<commands, performance, network, snap, live, calls>>

(* get_summary, then the four groups again for a page of metrics.  A read  *)
(* clones the group and drops its guard.                                   *)

\* Mutant of SummaryPerformance: the guard lives until the next read.
SummaryPerformanceGuarded(t) ==
  /\ Go(t, "idle", "summary1")
  /\ Unlocked("performance")
  /\ snap' = [snap EXCEPT ![t] = [NoSnap EXCEPT !.ops = performance.total_operations,
                                                !.resets = resets]]
  /\ lock' = [lock EXCEPT !.performance = t]
  /\ UNCHANGED <<groups, live, aux, calls>>

SummaryPerformance(t) ==
  /\ Go(t, "idle", "summary1")
  /\ Unlocked("performance")
  /\ snap' = [snap EXCEPT ![t] = [NoSnap EXCEPT !.ops = performance.total_operations,
                                                !.resets = resets]]
  /\ UNCHANGED <<groups, lock, live, aux, calls>>

\* Mutant of SummaryCommands: try_read, and nothing counted if the lock is taken.
SummaryCommandsTry(t) ==
  /\ Go(t, "summary1", "summary2")
  /\ snap' = [snap EXCEPT ![t].total = IF Unlocked("commands") THEN commands.total ELSE 0]
  /\ UNCHANGED <<groups, lock, live, aux, calls>>

SummaryCommands(t) ==
  /\ Go(t, "summary1", "summary2")
  /\ Unlocked("commands")
  /\ snap' = [snap EXCEPT ![t].total = commands.total]
  /\ UNCHANGED <<groups, lock, live, aux, calls>>

\* The network and the storage group; a summary that is all ends here.
SummaryRest(t) ==
  /\ Unlocked("network")
  /\ \/ Go(t, "summary2", "idle") /\ snap' = [snap EXCEPT ![t] = NoSnap]
     \/ Go(t, "summary2", "page") /\ UNCHANGED snap
  /\ UNCHANGED <<groups, lock, live, aux, calls>>

PagePerformance(t) ==
  /\ Go(t, "page", "page1")
  /\ Unlocked("performance")
  /\ UNCHANGED <<groups, lock, snap, live, aux, calls>>

PageCommands(t) ==
  /\ Go(t, "page1", "page2")
  /\ Unlocked("commands")
  /\ snap' = [snap EXCEPT ![t].page = commands.total]
  /\ UNCHANGED <<groups, lock, live, aux, calls>>

PageRest(t) ==
  /\ Go(t, "page2", "idle")
  /\ Unlocked("network")
  /\ snap' = [snap EXCEPT ![t] = NoSnap]
  /\ UNCHANGED <<groups, lock, live, aux, calls>>

-----------------------------------------------------------------------------

\* The steps of a call that is under way.
Proceed(t) ==
  \/ RecordOperation(t)
  \/ ResetCommands(t) \/ ResetNetwork(t) \/ ResetStorage(t)
  \/ SummaryCommands(t) \/ SummaryRest(t)
  \/ PagePerformance(t) \/ PageCommands(t) \/ PageRest(t)

Begin(t) ==
  \/ \E name \in Names : RecordCommand(t, name)
  \/ \E bytes \in 0..1 : record_memory_usage(t, bytes)
  \/ Connected(t) \/ Rejected(t) \/ Disconnected(t)
  \/ record_network_bytes(t) \/ record_storage_operation(t)
  \/ ResetPerformance(t) \/ SummaryPerformance(t)

Next == \E t \in Tasks : Begin(t) \/ Proceed(t)

Spec == Init /\ [][Next]_vars

\* tokio's RwLock queues its waiters in order, so a waiter whose lock is free
\* again and again gets it: strong fairness of a call under way.
FairSpec == Spec /\ \A t \in Tasks : SF_vars(Proceed(t))

-----------------------------------------------------------------------------
(* Properties *)

Busy == {"recording", "reset1", "reset2", "reset3",
         "summary1", "summary2", "page", "page1", "page2"}

\* The shape of the state.  Beside OTHER_BUCKET the command map has no more keys
\* than the limit.
TypeOK ==
  /\ commands.keys \subseteq Names \cup {OTHER_BUCKET}
  /\ Cardinality(commands.keys \ {OTHER_BUCKET}) <= MAX_DISTINCT_COMMANDS
  /\ commands.total \in Nat /\ storage \in Nat
  /\ performance \in [total_operations : Nat, memory : Nat, peak : Nat]
  /\ performance.memory <= performance.peak
  /\ network \in [accepted : Nat, rejected : Nat, closed : Nat, active : Nat, bytes : Nat]
  /\ lock \in [{"commands", "performance", "network"} -> Tasks \cup {Free}]
  /\ pc \in [Tasks -> Busy \cup {"idle"}]
  /\ snap \in [Tasks -> [ops : Nat, total : Nat, page : Nat, resets : Nat]]
  /\ live \subseteq Tasks
  /\ resets \in Nat /\ calls \in 0..MaxCalls

\* The two halves of record_command_latency are never torn apart by a reset:
\* whoever could read both counters finds them equal.  And active_connections is
\* the number of handlers that are connected, a reset in between or not.
CountersAgree ==
  /\ Unlocked("commands") /\ Unlocked("performance")
       => commands.total = performance.total_operations
  /\ network.active = Cardinality(live)

\* The reads of a summary, and of the page behind it, are not one snapshot, but
\* they are ordered so that the page never shows an operation whose command it
\* does not count, unless a reset was completed in between.
ReadsAreOrdered ==
  \A t \in Tasks :
    /\ pc[t] \in {"summary2", "page", "page1", "page2"} =>
         snap[t].ops <= snap[t].total \/ resets > snap[t].resets
    /\ pc[t] = "page2" => snap[t].total <= snap[t].page \/ resets > snap[t].resets

\* A handler that records holds the lock a reset wants, and the other way round.
Entangled ==
  \E t, u \in Tasks : pc[t] = "recording" /\ pc[u] = "reset1"

\* No call waits for ever on the collector's locks, except when a reset has met a
\* record half-way: the two take the locks in opposite order.
CallsReturn ==
  \A t \in Tasks : pc[t] # "idle" ~> (pc[t] = "idle" \/ Entangled)

\* What a reader may see: a group whose lock is kept is as it was before.
Seen(l, group) == IF Unlocked(l) THEN group ELSE before[l]

Atomic == INSTANCE AtomicMetrics WITH
  commands <- Seen("commands", commands),
  performance <- Seen("performance", performance),
  network <- Seen("network", network)

\* Every call of the collector looks atomic to whoever reads under the locks:
\* each step is a step of AtomicMetrics or changes nothing.
CallsAreAtomic == Atomic!Spec
=============================================================================
