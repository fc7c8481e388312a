---------------------------- MODULE MCPriceState ----------------------------
(* Small instances of PriceState for TLC.  100 and 109 pass each other's   *)
(* cross-check; 50 passes neither's and is sane; a slot or a tick past an  *)
(* age limit is within the bounds.                                         *)
EXTENDS PriceState

One   == {100}
Band  == {100, 109}
Half  == {50}
=============================================================================
