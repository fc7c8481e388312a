----------------------------- MODULE ExecuteLegs -----------------------------
(***************************************************************************)
(* One call of Coordinator::execute_both_legs down to the requests of its  *)
(* two clients: BinanceClient::place_market_order and, under the same      *)
(* join, JupiterClient::get_quote and execute_swap.                        *)
(*                                                                         *)
(* Amounts are whole units of USDC and SOL.  Requests that fail, time out  *)
(* or cannot be read are one case: an error while the order stands at its  *)
(* venue.  Commissions, signatures and the text of requests are left out.  *)
(***************************************************************************)
EXTENDS Integers

CONSTANTS
    Trade,          \* config.trade_size_usdt
    Signals,        \* [dir, cex, dex]: a direction and the signal's prices
    Fills,          \* [qty, value] Binance may execute: SOL and USDC
    Outs, Impacts,  \* output amounts and price impacts Jupiter may quote
    MaxImpact,      \* config.max_price_impact_pct
    SlippagePct,    \* config.slippage_bps, in percent
    NaN             \* no number

Directions == {"BuyCexSellDex", "BuyDexSellCex"}
Legs       == {"cex", "dex"}

ASSUME LegsAssumption ==
    /\ Trade \in Nat \ {0}
    /\ Signals \subseteq [dir : Directions, cex : Nat \ {0}, dex : Nat \ {0}]
    /\ Fills \subseteq [qty : Nat \ {0}, value : Nat \ {0}]
    /\ Outs \subseteq Nat /\ Impacts \subseteq Nat
    /\ MaxImpact \in Nat /\ SlippagePct \in 0 .. 100
    /\ NaN \notin Int

VARIABLES
    signal, live,       \* the signal; per leg: does the client hold keys?
    cpc, dpc,           \* where each leg's future stands
    order, fill,        \* the order at Binance, what it executed
    seen,               \* the fill as the client parsed it
    quote,              \* Jupiter's quote
    swap, got,          \* the transaction on the chain, what it paid out
    reply,              \* per leg: what its future resolved to
    result, gross       \* what execute_both_legs made of them

cexLeg == <<cpc, order, fill, seen>>
dexLeg == <<dpc, quote, swap, got>>
joined == <<result, gross>>
vars   == <<signal, live, cexLeg, dexLeg, reply, joined>>

NoFill  == [qty |-> 0, value |-> 0]
NoQuote == [in |-> 0, out |-> 0]

BuysOnCex == signal.dir = "BuyCexSellDex"

-----------------------------------------------------------------------------
(* The SOL the other leg is expected to buy.                               *)
SolEstimate == Trade \div (IF BuysOnCex THEN signal.cex ELSE signal.dex)

(* Sold on Jupiter: the estimate of SOL, or the trade in USDC.             *)
SwapIn == IF BuysOnCex THEN SolEstimate ELSE Trade

(* A buy spends at most the trade, a sale sells at most the estimate.      *)
Covers(f) == IF BuysOnCex THEN f.value <= Trade ELSE f.qty <= SolEstimate

(* get_quote: the price impact gate and the zero output.                   *)
Acceptable(out, impact) == impact <= MaxImpact /\ out # 0

(* The least the transaction pays out, or it fails.                        *)
Slippage(out) == (out * SlippagePct) \div 100

(* parse_order_response: an order that was answered with success is Ok,    *)
(* whatever it executed.                                                   *)
\* Mutant: the status of the response is not looked at.
ReadAnyStatus == "ok"

ReplyOfOrder == IF order = "refused" THEN "err" ELSE "ok"

(* The first `?` returns on a CEX error without looking at the DEX result. *)
\* Mutant: a result of its own for two errors.
JoinedBoth ==
    IF reply["cex"] = "err" /\ reply["dex"] = "err" THEN "both_err"
    ELSE IF reply["cex"] = "err" THEN "cex_err"
    ELSE IF reply["dex"] = "err" THEN "dex_err" ELSE "Filled"

Joined ==
    IF reply["cex"] = "err" THEN "cex_err"
    ELSE IF reply["dex"] = "err" THEN "dex_err" ELSE "Filled"

(* The gross profit.  What Jupiter quoted, not what the swap paid, counts; *)
(* it is multiplied and divided by the SOL bought: 0 / 0 without fills.    *)
\* Mutant: taken from the CEX leg in both directions.
GrossOfCex == seen.value - Trade

\* Mutant: what Binance spent in the place of the trade size.
GrossOfSpent ==
    IF ~BuysOnCex THEN seen.value - Trade
    ELSE IF seen.qty = 0 THEN NaN ELSE quote.out - seen.value

Gross ==
    IF ~BuysOnCex THEN seen.value - Trade
    ELSE IF seen.qty = 0 THEN NaN ELSE quote.out - Trade

-----------------------------------------------------------------------------
Init ==
    /\ signal \in Signals /\ live \in [Legs -> BOOLEAN]
    /\ cpc = "place" /\ order = "none" /\ fill = NoFill /\ seen = NoFill
    /\ dpc = "quote" /\ quote = NoQuote /\ swap = "none" /\ got = 0
    /\ reply = [l \in Legs |-> "none"]
    /\ result = "none" /\ gross = 0

Resolve(leg, r) == reply' = [reply EXCEPT ![leg] = r]

(* OrderError::PaperMode, before any request.                              *)
OrderRefusedByClient ==
    /\ cpc = "place" /\ ~live["cex"]
    /\ cpc' = "done" /\ Resolve("cex", "err")
    /\ UNCHANGED <<signal, live, order, fill, seen, dexLeg, joined>>

PlaceOrder ==
    /\ cpc = "place" /\ live["cex"]
    /\ cpc' = "sent" /\ order' = "pending"
    /\ UNCHANGED <<signal, live, fill, seen, dexLeg, reply, joined>>

(* send() fails or times out, or the server answers with an error of its   *)
(* own; the order may be at Binance or get there yet.                      *)
OrderRequestFails ==
    /\ cpc = "sent"
    /\ cpc' = "done" /\ Resolve("cex", "err")
    /\ UNCHANGED <<signal, live, order, fill, seen, dexLeg, joined>>

OrderAnswered ==
    /\ cpc = "sent" /\ order \in {"executed", "expired", "refused"}
    /\ cpc' = "body"
    /\ UNCHANGED <<signal, live, order, fill, seen, dexLeg, reply, joined>>

(* A quantity or a value that is no number counts as zero.                 *)
BodyRead ==
    /\ cpc = "body"
    /\ cpc' = "done" /\ Resolve("cex", ReplyOfOrder)
    /\ seen' \in [qty : {fill.qty, 0}, value : {fill.value, 0}]
    /\ UNCHANGED <<signal, live, order, fill, dexLeg, joined>>

(* The body cannot be read, text() defaults to nothing, nothing parses.    *)
BodyLost ==
    /\ cpc = "body"
    /\ cpc' = "done" /\ Resolve("cex", "err")
    /\ UNCHANGED <<signal, live, order, fill, seen, dexLeg, joined>>

-----------------------------------------------------------------------------
(* get_quote: the request, its status or its JSON.                         *)
QuoteFails ==
    /\ dpc = "quote"
    /\ dpc' = "done" /\ Resolve("dex", "err")
    /\ UNCHANGED <<signal, live, cexLeg, quote, swap, got, joined>>

(* PriceImpactTooHigh, ZeroOutput: the order may be at Binance already.    *)
QuoteRefused(out, impact) ==
    /\ dpc = "quote" /\ ~Acceptable(out, impact)
    /\ dpc' = "done" /\ Resolve("dex", "err")
    /\ UNCHANGED <<signal, live, cexLeg, quote, swap, got, joined>>

Quoted(out, impact) ==
    /\ dpc = "quote" /\ Acceptable(out, impact)
    /\ dpc' = "swap" /\ quote' = [in |-> SwapIn, out |-> out]
    /\ UNCHANGED <<signal, live, cexLeg, swap, got, reply, joined>>

(* execute_swap: PaperMode, or the /swap request or the bytes it returns.  *)
SwapFails ==
    /\ dpc = "swap"
    /\ dpc' = "done" /\ Resolve("dex", "err")
    /\ UNCHANGED <<signal, live, cexLeg, quote, swap, got, joined>>

(* Signed and handed to the RPC node.                                      *)
SwapSent ==
    /\ dpc = "swap" /\ live["dex"]
    /\ dpc' = "confirm" /\ swap' = "pending"
    /\ UNCHANGED <<signal, live, cexLeg, quote, got, reply, joined>>

Confirmed ==
    /\ dpc = "confirm" /\ swap = "executed"
    /\ dpc' = "done" /\ Resolve("dex", "ok")
    /\ UNCHANGED <<signal, live, cexLeg, quote, swap, got, joined>>

(* The node refuses it, or gives up on the confirmation: it may still land.*)
ConfirmFails ==
    /\ dpc = "confirm"
    /\ dpc' = "done" /\ Resolve("dex", "err")
    /\ UNCHANGED <<signal, live, cexLeg, quote, swap, got, joined>>

-----------------------------------------------------------------------------
(* tokio::join! and what follows it.                                       *)
Join ==
    /\ result = "none" /\ \A l \in Legs : reply[l] # "none"
    /\ result' = Joined
    /\ gross' = IF Joined = "Filled" THEN Gross ELSE gross
    /\ UNCHANGED <<signal, live, cexLeg, dexLeg, reply>>

(* The venues, whether or not the client still waits.                      *)
Execute(f) ==
    /\ order = "pending" /\ Covers(f)
    /\ order' = "executed" /\ fill' = f
    /\ UNCHANGED <<signal, live, cpc, seen, dexLeg, reply, joined>>

NotExecuted ==
    /\ order = "pending" /\ order' \in {"expired", "refused"}
    /\ UNCHANGED <<signal, live, cpc, fill, seen, dexLeg, reply, joined>>

Land(g) ==
    /\ swap = "pending" /\ g >= quote.out - Slippage(quote.out)
    /\ swap' = "executed" /\ got' = g
    /\ UNCHANGED <<signal, live, cexLeg, dpc, quote, reply, joined>>

Dropped ==
    /\ swap = "pending" /\ swap' = "refused"
    /\ UNCHANGED <<signal, live, cexLeg, dpc, quote, got, reply, joined>>

Cex == \/ OrderRefusedByClient \/ PlaceOrder \/ OrderRequestFails
       \/ OrderAnswered \/ BodyRead \/ BodyLost

Dex == \/ QuoteFails
       \/ \E o \in Outs, i \in Impacts : QuoteRefused(o, i) \/ Quoted(o, i)
       \/ SwapFails \/ SwapSent \/ Confirmed \/ ConfirmFails

Venues == \/ \E f \in Fills : Execute(f)
          \/ NotExecuted
          \/ \E g \in Outs : Land(g)
          \/ Dropped

Next == Cex \/ Dex \/ Join \/ Venues

Spec == Init /\ [][Next]_vars

(* Every request has a timeout of its client's, and the RPC node gives up  *)
(* on a confirmation.                                                      *)
FairSpec == Spec /\ WF_vars(Cex) /\ WF_vars(Dex) /\ WF_vars(Join)
-----------------------------------------------------------------------------
(* Types of every variable.                                                *)
OrderStates == {"none", "pending", "executed", "expired", "refused"}

TypeOK ==
    /\ signal \in Signals /\ live \in [Legs -> BOOLEAN]
    /\ cpc \in {"place", "sent", "body", "done"}
    /\ dpc \in {"quote", "swap", "confirm", "done"}
    /\ order \in OrderStates /\ swap \in OrderStates \ {"expired"}
    /\ fill \in Fills \cup {NoFill}
    /\ seen \in [qty : Nat, value : Nat]
    /\ quote \in [in : Nat, out : Nat] /\ got \in Nat
    /\ reply \in [Legs -> {"none", "ok", "err"}]
    /\ result \in {"none", "cex_err", "dex_err", "Filled"}
    /\ gross \in Int \cup {NaN}

(* What the two venues hold more than before the call.                     *)
Sign(buys) == IF buys THEN 1 ELSE -1

UsdcDelta == Sign(~BuysOnCex) * fill.value
           + (IF swap # "executed" THEN 0 ELSE IF BuysOnCex THEN got ELSE -quote.in)

SolDelta == Sign(BuysOnCex) * fill.qty
          + (IF swap # "executed" THEN 0 ELSE IF BuysOnCex THEN -quote.in ELSE got)

(* The gross profit of a Filled trade overstates the USDC that came in by  *)
(* no more than the slippage allowed, and is exactly that when Binance     *)
(* sold, unless it could not read the proceeds; it is no number exactly    *)
(* for a buy that filled nothing or whose quantity could not be read.      *)
GrossIsSettled ==
    result = "Filled" =>
        /\ gross = NaN <=> (BuysOnCex /\ seen.qty = 0)
        /\ gross # NaN => gross - UsdcDelta <= Slippage(quote.out)
        /\ ~BuysOnCex /\ seen.value = fill.value => gross = UsdcDelta

(* Binance sold SOL no dearer than the signal's price; Jupiter paid out no *)
(* less SOL than the signal's price promises.                              *)
NoWorseThanSignal ==
    IF BuysOnCex THEN fill.value <= fill.qty * signal.cex ELSE got >= SolEstimate

(* Neither leg is sized by the other's fill, so a Filled trade leaves SOL  *)
(* behind or short.  Counted at the price of Binance's fill, the two       *)
(* venues together gained what is reported, but for slippage, also when    *)
(* the order was filled in part: unless a leg went at a worse price than   *)
(* the signal's, which the report does not see.                            *)
Gained == (UsdcDelta * fill.qty) + (SolDelta * fill.value)

ProfitIsReal ==
    result = "Filled" /\ gross # NaN /\ NoWorseThanSignal
        => (gross - Slippage(quote.out)) * fill.qty <= Gained

(* Both legs keep the contract Coordinator is modelled on, the promise to  *)
(* resolve included: from the first poll an order is as good as placed     *)
(* wherever there are credentials, and stays so when it never was.         *)
AtVenue(leg, o) ==
    IF ~live[leg] THEN "unsent" ELSE IF o = "none" THEN "pending" ELSE o

CexContract == INSTANCE LegContract
    WITH order <- AtVenue("cex", order), reply <- reply["cex"]
DexContract == INSTANCE LegContract
    WITH order <- AtVenue("dex", swap), reply <- reply["dex"]

LegsKeepContract == CexContract!Spec /\ DexContract!Spec
=============================================================================
