---------------------------- MODULE AtomicMetrics ----------------------------
(***************************************************************************)
(* What the metrics collector promises: each call is one step on all four  *)
(* groups of counters together.                                            *)
(***************************************************************************)
EXTENDS Integers

CONSTANTS Names, record_command(_, _), record_operation_latency(_), reset_network_metrics(_),
          NoCommands, NoPerformance, NoNetwork

VARIABLES commands, performance, network, storage

vars == <<commands, performance, network, storage>>

Init ==
  /\ commands = NoCommands /\ performance = NoPerformance
  /\ network = NoNetwork /\ storage = 0

record_command_latency ==
  /\ \E name \in Names : commands' = record_command(commands, name)
  /\ performance' = record_operation_latency(performance)
  /\ UNCHANGED <<network, storage>>

reset ==
  /\ commands' = NoCommands /\ performance' = NoPerformance
  /\ network' = reset_network_metrics(network) /\ storage' = 0

\* A call on one group; the number of operations is not its to change.
record_memory_usage ==
  /\ performance'.total_operations = performance.total_operations
  /\ UNCHANGED <<commands, network, storage>>

record_network == UNCHANGED <<commands, performance, storage>>

record_storage_operation == storage' = storage + 1 /\ UNCHANGED <<commands, performance, network>>

Next == record_command_latency \/ reset \/ record_memory_usage \/ record_network
          \/ record_storage_operation

Spec == Init /\ [][Next]_vars
=============================================================================
