----------------------------- MODULE MCBinanceWs -----------------------------
(* Small instances of BinanceWs for TLC: PAIRS empty, with a single name   *)
(* that is not the default one, and with two; a backoff that reaches its   *)
(* cap at the fourth reconnect.                                            *)
EXTENDS BinanceWs

SomePairs == {<<>>, <<"wifusdc">>, <<"solusdc", "wifusdc">>}
=============================================================================
