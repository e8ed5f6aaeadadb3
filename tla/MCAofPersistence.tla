-------------------------- MODULE MCAofPersistence --------------------------
(* Instances of AofPersistence for TLC. *)
EXTENDS AofPersistence

CONSTANTS c1, c2, k1, k2

\* Each client sets a key of its own.
OwnSets ==
  {[client |-> c1, op |-> "set", key |-> k1, n |-> v] : v \in {1, 2}}
    \cup {[client |-> c2, op |-> "set", key |-> k2, n |-> 1]}

\* One client writes, once; which of the two does not matter.
OneSet == {w \in OwnSets : w.client = c1 /\ w.n = 1}

\* Both clients set the same key.
SharedSets ==
  {[client |-> c1, op |-> "set", key |-> k1, n |-> 1],
   [client |-> c2, op |-> "set", key |-> k1, n |-> 2]}

\* A client counts.
Counts == {[client |-> c1, op |-> "incr", key |-> k1]}
=============================================================================
