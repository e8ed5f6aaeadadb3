----------------------- MODULE MCConnectionLifecycle -----------------------
(* The instance of ConnectionLifecycle for TLC: two connections that compete *)
(* for one slot.                                                             *)
EXTENDS ConnectionLifecycle
=============================================================================
