--------------------------- MODULE MCPaperTrading ---------------------------
(* Snapshots around $100.00, one per outcome of a check or a trade.        *)
EXTENDS PaperTrading

S(cex, dex, fee, liq, age) == [cex |-> cex, dex |-> dex, fee |-> fee, liq |-> liq, age |-> age]

MCSnaps == {
    S(10000, 10060,  40, 500000, 0),    \* pays, bought on the CEX
    S(10000,  9930,  40, 500000, 2),    \* pays, bought on the DEX
    S(10000, 10060,  40, 500000, 3),    \* stale for the coordinator only
    S(10000, 10060,  40, 500000, 4),    \* stale for the detector
    S(10000, 10150,  40,  60000, 0),    \* the slippage charged twice eats it
    S(10000, 10150,  40,  74700, 0),    \* ends within a cent of zero
    S(10000, 10150,  40,  40000, 0),    \* too little liquidity
    S(10000, 10012,  40, 500000, 0),    \* gap below the fees
    S(10000, 10500,  40, 500000, 0)}    \* gap not believed

MCSetups == {LiveSetup(1000), LiveSetup(4000), DemoSetup(Unset, 1000)}
EnvSetups == {DemoSetup(300, 1000), DemoSetup(Unset, 1000)}
=============================================================================
