---------------------------- MODULE MCPoolMonitor ----------------------------
(* A small instance of PoolMonitor for TLC: an Orca and a Raydium pool and *)
(* one that is listed under both; a limit of two connections and none.     *)
(* The accounts: either program's, an Orca one that lost its tail behind   *)
(* the tick, one without its discriminator, a shallow and a dead pool.     *)
EXTENDS PoolMonitor

FewPools == SelectSeq(DefaultPools, LAMBDA e : e.address \in {"SOL_USDC_64", "RAY_SOL_USDC", "WIF_USDC"})

SmallConfigs == {[DefaultConfig EXCEPT
    !.pools = FewPools, !.ping_interval = 1, !.reconnect_delay = 1,
    !.max_reconnect_attempts = n, !.min_liquidity_usd = 50000] : n \in {0, 2}}

(* What stands at the places of the other program's fields is arbitrary.   *)
Orca(sqrt, liquidity) ==
    [tickSpacing |-> 64, fee |-> 300, liquidity |-> liquidity, sqrtPrice |-> sqrt,
     tick |-> 7, mintA |-> 1, mintB |-> 2]

Raydium(sqrt, liquidity) ==
    [mintA |-> 1, mintB |-> 2, decimalsA |-> 9, decimalsB |-> 6,
     tickSpacing |-> 60, liquidity |-> liquidity, sqrtPrice |-> sqrt, tick |-> 7]

Account(len, disc, orca, raydium) ==
    [len |-> len, disc |-> disc, at |-> [Orca |-> orca, Raydium |-> raydium],
     noise |-> 9]

SomeAccounts ==
    {Account(653, "Orca", Orca(4, 10), Raydium(6, 10)),
     Account(653, "Orca", Orca(4, 1), Raydium(6, 10)),
     Account(653, "Orca", Orca(0, 10), Raydium(6, 10)),
     Account(100, "Orca", Orca(4, 10), Raydium(6, 10)),
     Account(653, Zeroed, Orca(4, 10), Raydium(6, 10)),
     Account(1544, "Raydium", Orca(5, 10), Raydium(4, 10))}
=============================================================================
