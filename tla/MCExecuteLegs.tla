---------------------------- MODULE MCExecuteLegs ----------------------------
(* Small instances of ExecuteLegs for TLC: a trade of 12 USDC between 3    *)
(* and 4 USDC a SOL, filled in full, in part, better or worse than the     *)
(* signal promised; quotes that are refused, and swaps that pay the quote, *)
(* less or more.                                                           *)
EXTENDS ExecuteLegs

TwoWays == {[dir |-> "BuyCexSellDex", cex |-> 3, dex |-> 4],
            [dir |-> "BuyDexSellCex", cex |-> 4, dex |-> 3]}

SomeFills == {[qty |-> q, value |-> v] : q \in {2, 3, 4, 5}, v \in {8, 12, 16}}
=============================================================================
