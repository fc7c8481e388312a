--------------------------- MODULE MCCoordinator ---------------------------
(* Small instances of Coordinator for TLC.  Two trades let the orders of   *)
(* the first outlive its call and meet the second; a cooldown of two ticks *)
(* and one slot of drift put a behaviour on both sides of every gate.   *)
EXTENDS Coordinator
=============================================================================
