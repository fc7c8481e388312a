---------------------------- MODULE MCPnlTracker ----------------------------
(* Six trades of five sizes: every order of wins, losses and breakevens,   *)
(* a fall over several trades and a new peak after it.                     *)
EXTENDS PnlTracker

FiveNets == {-3, -2, 1, 2, 4}
=============================================================================
