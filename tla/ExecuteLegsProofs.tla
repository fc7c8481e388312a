-------------------------- MODULE ExecuteLegsProofs --------------------------
(***************************************************************************)
(* Theorems of ExecuteLegs for any trade size, prices, fills, quotes and   *)
(* slippage, whatever the clients' requests and the venues do.             *)
(***************************************************************************)
EXTENDS ExecuteLegs, TLAPS

(* What the steps of one leg leave true for the end of the join.           *)
CexCoherent ==
    /\ order = "executed" => fill \in Fills /\ Covers(fill)
    /\ order # "executed" => fill = NoFill
    /\ cpc = "body" => order \in {"executed", "expired", "refused"}
    /\ reply["cex"] = "ok" => order \in {"executed", "expired"}
    /\ reply["cex"] = "none" <=> cpc # "done"
    /\ order # "none" => live["cex"]
    /\ order = "none" <=> (cpc = "place" \/ ~live["cex"])
    /\ reply["cex"] = "ok" =>
          seen.qty \in {fill.qty, 0} /\ seen.value \in {fill.value, 0}

DexCoherent ==
    /\ dpc \in {"swap", "confirm"} \/ swap # "none" => quote.in = SwapIn
    /\ swap = "executed" => got >= quote.out - Slippage(quote.out)
    /\ reply["dex"] = "ok" => swap = "executed"
    /\ reply["dex"] = "none" <=> dpc # "done"
    /\ swap # "none" => live["dex"]
    /\ dpc \in {"quote", "swap"} => swap = "none"

JoinCoherent ==
    result = "Filled" =>
        gross = Gross /\ reply["cex"] = "ok" /\ reply["dex"] = "ok"

Inv == TypeOK /\ CexCoherent /\ DexCoherent /\ JoinCoherent

-----------------------------------------------------------------------------
(* Estimates and slippages are amounts.                                    *)
LEMMA EstimateIsNat == TypeOK => SolEstimate \in Nat /\ SwapIn \in Nat
<1> SUFFICES ASSUME TypeOK PROVE SolEstimate \in Nat /\ SwapIn \in Nat
  OBVIOUS
<1> DEFINE p == IF BuysOnCex THEN signal.cex ELSE signal.dex
<1>1. p \in Nat \ {0}
  BY LegsAssumption DEF LegsAssumption, TypeOK
<1>2. Trade \div p \in Nat
  <2> HIDE DEF p
  <2> QED BY <1>1, LegsAssumption DEF LegsAssumption
<1>3. QED
  BY <1>2, LegsAssumption DEF SolEstimate, SwapIn, LegsAssumption

(* The least amount accepted after slippage is an amount.                  *)
LEMMA SlippageIsNat == ASSUME NEW out \in Nat PROVE Slippage(out) \in Nat
<1>1. out * SlippagePct \in Nat
  BY LegsAssumption DEF LegsAssumption
<1> DEFINE m == out * SlippagePct
<1>2. m \div 100 \in Nat
  <2> HIDE DEF m
  <2> QED BY <1>1 DEF m
<1>3. QED
  BY <1>2 DEF Slippage

(* The fill of a CEX order is made of amounts; only NoFill has none.       *)
LEMMA FillsAreAmounts ==
    ASSUME TypeOK
    PROVE  /\ fill.qty \in Nat /\ fill.value \in Nat
           /\ fill \in Fills => fill.qty # 0
  BY LegsAssumption DEF TypeOK, LegsAssumption, NoFill

(* The gross result is a number or NaN, never anything else.               *)
LEMMA GrossTyped == ASSUME TypeOK PROVE Gross \in Int \cup {NaN}
  BY LegsAssumption DEF Gross, TypeOK, LegsAssumption

-----------------------------------------------------------------------------
(* Types hold in every state.                                              *)
LEMMA TypeInit == Init => TypeOK
  BY LegsAssumption DEF Init, TypeOK, OrderStates, NoQuote, NoFill, LegsAssumption, Legs

(* Every step keeps the types.                                             *)
LEMMA TypeStep == Inv /\ [Next]_vars => TypeOK'
<1> SUFFICES ASSUME Inv, [Next]_vars PROVE TypeOK'
  OBVIOUS
<1> USE DEF Inv, TypeOK, OrderStates, Legs
<1>1. CASE Cex
  <2>1. CASE BodyRead
    <3>1. seen' \in [qty : Nat, value : Nat]
      BY <2>1, FillsAreAmounts DEF BodyRead
    <3>2. QED
      BY <2>1, <3>1 DEF BodyRead, Resolve, ReplyOfOrder, dexLeg, joined
  <2>2. CASE ~BodyRead
    BY <1>1, <2>2 DEF Cex, OrderRefusedByClient, PlaceOrder, OrderRequestFails,
       OrderAnswered, BodyLost, Resolve, dexLeg, joined
  <2>3. QED
    BY <2>1, <2>2
<1>2. CASE Dex
  <2>1. ASSUME NEW o \in Outs, NEW i \in Impacts, Quoted(o, i) PROVE TypeOK'
    <3>1. quote' \in [in : Nat, out : Nat]
      BY <2>1, EstimateIsNat, LegsAssumption DEF Quoted, LegsAssumption
    <3>2. QED
      BY <2>1, <3>1 DEF Quoted, cexLeg, joined
  <2>2. ASSUME NEW o \in Outs, NEW i \in Impacts, QuoteRefused(o, i) PROVE TypeOK'
    BY <2>2 DEF QuoteRefused, Resolve, cexLeg, joined
  <2>3. CASE QuoteFails \/ SwapFails \/ SwapSent \/ Confirmed \/ ConfirmFails
    BY <2>3 DEF QuoteFails, SwapFails, SwapSent, Confirmed, ConfirmFails,
       Resolve, cexLeg, joined
  <2>4. QED
    BY <1>2, <2>1, <2>2, <2>3 DEF Dex
<1>3. CASE Join
  BY <1>3, GrossTyped DEF Join, Joined, cexLeg, dexLeg
<1>4. CASE Venues
  <2>1. ASSUME NEW f \in Fills, Execute(f) PROVE TypeOK'
    BY <2>1 DEF Execute, dexLeg, joined
  <2>2. CASE NotExecuted
    BY <2>2 DEF NotExecuted, dexLeg, joined
  <2>3. ASSUME NEW g \in Outs, Land(g) PROVE TypeOK'
    BY <2>3, LegsAssumption DEF Land, cexLeg, joined, LegsAssumption
  <2>4. CASE Dropped
    BY <2>4 DEF Dropped, cexLeg, joined
  <2>5. QED
    BY <1>4, <2>1, <2>2, <2>3, <2>4 DEF Venues
<1>5. CASE UNCHANGED vars
  BY <1>5 DEF vars, cexLeg, dexLeg, joined
<1>6. QED
  BY <1>1, <1>2, <1>3, <1>4, <1>5 DEF Next

(* The signal stays, so the sizes of both legs stay.                       *)
LEMMA SignalStays == [Next]_vars => UNCHANGED <<signal, live>>
  BY DEF Next, vars, Cex, Dex, Join, Venues, OrderRefusedByClient, PlaceOrder,
     OrderRequestFails, OrderAnswered, BodyRead, BodyLost, QuoteFails,
     QuoteRefused, Quoted, SwapFails, SwapSent, Confirmed, ConfirmFails,
     Execute, NotExecuted, Land, Dropped

(* What is computed from the signal stays as long as the signal does.      *)
LEMMA SizesStay ==
    ASSUME UNCHANGED signal
    PROVE  /\ BuysOnCex' = BuysOnCex /\ SwapIn' = SwapIn /\ SolEstimate' = SolEstimate
           /\ \A f : Covers(f)' = Covers(f)
  BY DEF BuysOnCex, SwapIn, SolEstimate, Covers

(* What a leg does, and what the rest leaves alone.                        *)
LEMMA CexStep == Inv /\ [Next]_vars => CexCoherent'
<1> SUFFICES ASSUME Inv, [Next]_vars PROVE CexCoherent'
  OBVIOUS
<1>1. UNCHANGED <<signal, live>> /\ \A f : Covers(f)' = Covers(f)
  BY SignalStays, SizesStay
<1> USE DEF Inv, TypeOK, CexCoherent, Legs
<1>2. CASE Cex
  BY <1>1, <1>2 DEF Cex, OrderRefusedByClient, PlaceOrder, OrderRequestFails,
     OrderAnswered, BodyRead, BodyLost, Resolve, ReplyOfOrder
<1>3. ASSUME NEW f \in Fills, Execute(f) PROVE CexCoherent'
  <2>1. fill' \in Fills /\ Covers(fill)'
    <3>1. Covers(f) /\ fill' = f
      BY <1>3 DEF Execute
    <3>2. BuysOnCex' = BuysOnCex /\ SolEstimate' = SolEstimate
      BY <1>1, SizesStay
    <3>3. QED
      BY <3>1, <3>2 DEF Covers
  <2>2. QED
    BY <1>1, <1>3, <2>1 DEF Execute
<1>4. CASE NotExecuted
  BY <1>1, <1>4 DEF NotExecuted
<1>5. CASE UNCHANGED <<cexLeg, reply>>
  BY <1>1, <1>5 DEF cexLeg, Covers
<1>6. CASE UNCHANGED cexLeg /\ \E r : Resolve("dex", r)
  BY <1>1, <1>6 DEF cexLeg, Covers, Resolve
<1>7. \/ UNCHANGED cexLeg /\ (UNCHANGED reply \/ \E r : Resolve("dex", r))
      \/ Cex \/ NotExecuted \/ \E f \in Fills : Execute(f)
  BY DEF Next, Dex, Join, Venues, QuoteFails, QuoteRefused, Quoted, SwapFails,
     SwapSent, Confirmed, ConfirmFails, Land, Dropped, vars
<1>8. QED
  BY <1>2, <1>3, <1>4, <1>5, <1>6, <1>7

(* Every step keeps the DEX leg in agreement with its transaction.         *)
LEMMA DexStep == Inv /\ [Next]_vars => DexCoherent'
<1> SUFFICES ASSUME Inv, [Next]_vars PROVE DexCoherent'
  OBVIOUS
<1>1. UNCHANGED <<signal, live>> /\ SwapIn' = SwapIn
  BY SignalStays, SizesStay
<1> USE DEF Inv, TypeOK, DexCoherent, Legs
<1>2. CASE Dex
  <2>1. ASSUME NEW o \in Outs, NEW i \in Impacts, Quoted(o, i) PROVE DexCoherent'
    BY <1>1, <2>1 DEF Quoted, Slippage
  <2>2. ASSUME NEW o \in Outs, NEW i \in Impacts, QuoteRefused(o, i) PROVE DexCoherent'
    BY <1>1, <2>2 DEF QuoteRefused, Resolve, Slippage
  <2>3. CASE QuoteFails \/ SwapFails \/ SwapSent
    BY <1>1, <2>3 DEF QuoteFails, SwapFails, SwapSent, Resolve, Slippage
  <2>4. CASE Confirmed \/ ConfirmFails
    BY <1>1, <2>4 DEF Confirmed, ConfirmFails, Resolve, Slippage
  <2>5. QED
    BY <1>2, <2>1, <2>2, <2>3, <2>4 DEF Dex
<1>3. ASSUME NEW g \in Outs, Land(g) PROVE DexCoherent'
  BY <1>1, <1>3 DEF Land, Slippage
<1>4. CASE Dropped
  BY <1>1, <1>4 DEF Dropped, Slippage
<1>5. CASE UNCHANGED <<dexLeg, reply>>
  BY <1>1, <1>5 DEF dexLeg, Slippage
<1>6. CASE UNCHANGED dexLeg /\ \E r : Resolve("cex", r)
  BY <1>1, <1>6 DEF dexLeg, Slippage, Resolve
<1>7. \/ UNCHANGED dexLeg /\ (UNCHANGED reply \/ \E r : Resolve("cex", r))
      \/ Dex \/ Dropped \/ \E g \in Outs : Land(g)
  BY DEF Next, Cex, Join, Venues, OrderRefusedByClient, PlaceOrder,
     OrderRequestFails, OrderAnswered, BodyRead, BodyLost, Execute, NotExecuted, vars
<1>8. QED
  BY <1>2, <1>3, <1>4, <1>5, <1>6, <1>7

(* Once both legs said Ok there is nothing left that could change what the *)
(* gross profit was made of.                                               *)
LEMMA JoinStep == Inv /\ [Next]_vars => JoinCoherent'
<1> SUFFICES ASSUME Inv, [Next]_vars, result' = "Filled"
             PROVE  gross' = Gross' /\ reply'["cex"] = "ok" /\ reply'["dex"] = "ok"
  BY DEF JoinCoherent
<1>1. CASE Join
  <2>1. Joined = "Filled" /\ gross' = Gross /\ UNCHANGED <<signal, live, cexLeg, dexLeg, reply>>
    BY <1>1 DEF Join
  <2>2. reply["cex"] = "ok" /\ reply["dex"] = "ok"
    BY <1>1, <2>1 DEF Join, Joined, Inv, TypeOK, Legs
  <2>3. Gross' = Gross
    BY <2>1 DEF Gross, BuysOnCex, cexLeg, dexLeg
  <2>4. QED
    BY <2>1, <2>2, <2>3
<1>2. CASE ~Join
  <2>1. UNCHANGED joined
    BY <1>2 DEF Next, Cex, Dex, Venues, OrderRefusedByClient, PlaceOrder,
     OrderRequestFails, OrderAnswered, BodyRead, BodyLost, QuoteFails,
     QuoteRefused, Quoted, SwapFails, SwapSent, Confirmed, ConfirmFails,
     Execute, NotExecuted, Land, Dropped, vars
  <2>2. /\ gross = Gross /\ reply["cex"] = "ok" /\ reply["dex"] = "ok"
        /\ cpc = "done" /\ dpc = "done" /\ order # "pending" /\ swap # "pending"
    BY <2>1 DEF joined, Inv, JoinCoherent, CexCoherent, DexCoherent
  <2>3. UNCHANGED <<signal, seen, quote, reply>>
    BY <1>2, <2>2 DEF Next, Cex, Dex, Venues, OrderRefusedByClient, PlaceOrder,
     OrderRequestFails, OrderAnswered, BodyRead, BodyLost, QuoteFails,
     QuoteRefused, Quoted, SwapFails, SwapSent, Confirmed, ConfirmFails,
     Execute, NotExecuted, Land, Dropped, vars, cexLeg, dexLeg
  <2>4. QED
    BY <2>1, <2>2, <2>3 DEF Gross, BuysOnCex, joined
<1>3. QED
  BY <1>1, <1>2

(* The inductive invariant holds in every reachable state.                 *)
LEMMA InvAlways == Spec => []Inv
<1>1. Init => Inv
  BY TypeInit DEF Init, Inv, CexCoherent, DexCoherent, JoinCoherent, Legs
<1>2. Inv /\ [Next]_vars => Inv'
  BY TypeStep, CexStep, DexStep, JoinStep DEF Inv
<1>3. QED
  BY <1>1, <1>2, PTL DEF Spec

-----------------------------------------------------------------------------
(* Types hold in every state, for any amounts.                             *)
THEOREM TypeCorrect == Spec => []TypeOK
<1>1. Inv => TypeOK
  BY DEF Inv
<1>2. QED
  BY <1>1, InvAlways, PTL

(* What is true of the money when a trade is reported Filled.              *)
LEMMA WhenFilled ==
    ASSUME Inv, result = "Filled"
    PROVE  /\ gross = Gross /\ swap = "executed" /\ quote.in = SwapIn
           /\ got >= quote.out - Slippage(quote.out)
           /\ seen.qty \in {fill.qty, 0} /\ seen.value \in {fill.value, 0}
           /\ fill = NoFill \/ Covers(fill)
           /\ fill.qty \in Nat /\ fill.value \in Nat /\ got \in Nat
           /\ quote.out \in Nat /\ Slippage(quote.out) \in Nat /\ Trade \in Nat
           /\ SolEstimate \in Nat
<1>1. /\ gross = Gross /\ order \in {"executed", "expired"} /\ swap = "executed"
      /\ quote.in = SwapIn /\ got >= quote.out - Slippage(quote.out)
      /\ seen.qty \in {fill.qty, 0} /\ seen.value \in {fill.value, 0}
  BY DEF Inv, JoinCoherent, CexCoherent, DexCoherent
<1>2. fill = NoFill \/ Covers(fill)
  BY <1>1 DEF Inv, CexCoherent
<1>3. /\ fill.qty \in Nat /\ fill.value \in Nat /\ got \in Nat
      /\ quote.out \in Nat /\ Slippage(quote.out) \in Nat
      /\ Trade \in Nat /\ SolEstimate \in Nat
  BY FillsAreAmounts, SlippageIsNat, EstimateIsNat, LegsAssumption
     DEF Inv, TypeOK, LegsAssumption
<1>4. QED
  BY <1>1, <1>2, <1>3

(* The reported gross profit is what the venues settled, but for slippage  *)
(* and for what could not be read.                                         *)
THEOREM GrossSettled == Spec => []GrossIsSettled
<1>1. Inv => GrossIsSettled
  <2> SUFFICES ASSUME Inv, result = "Filled"
               PROVE  /\ gross = NaN <=> (BuysOnCex /\ seen.qty = 0)
                      /\ gross # NaN => gross - UsdcDelta <= Slippage(quote.out)
                      /\ ~BuysOnCex /\ seen.value = fill.value => gross = UsdcDelta
    BY DEF GrossIsSettled
  <2>1. NaN \notin Int /\ seen.value \in Nat
    BY LegsAssumption DEF Inv, TypeOK, LegsAssumption
  <2>2. CASE BuysOnCex
    <3>1. fill.value <= Trade
      BY <2>2, WhenFilled DEF Covers, NoFill
    <3>2. UsdcDelta = got - fill.value
      BY <2>2, WhenFilled DEF UsdcDelta, Sign
    <3>3. gross = IF seen.qty = 0 THEN NaN ELSE quote.out - Trade
      BY <2>2, WhenFilled DEF Gross
    <3>4. QED
      BY <2>1, <2>2, <3>1, <3>2, <3>3, WhenFilled
  <2>3. CASE ~BuysOnCex
    <3>1. gross = seen.value - Trade
      BY <2>3, WhenFilled DEF Gross
    <3>2. UsdcDelta = fill.value - Trade
      BY <2>3, WhenFilled DEF UsdcDelta, Sign, SwapIn
    <3>3. QED
      BY <2>1, <2>3, <3>1, <3>2, WhenFilled
  <2>4. QED
    BY <2>2, <2>3
<1>2. QED
  BY <1>1, InvAlways, PTL

(* The estimate is worth no more than the trade at the price it was made.  *)
LEMMA EstimateIsCovered ==
    ASSUME TypeOK, BuysOnCex PROVE SolEstimate * signal.cex <= Trade
<1> DEFINE p == signal.cex
           e == Trade \div p
<1>1. p \in Nat \ {0} /\ Trade \in Nat
  BY LegsAssumption DEF LegsAssumption, TypeOK
<1>2. SolEstimate = e
  BY DEF SolEstimate
<1> HIDE DEF p
<1>3. e \in Nat /\ Trade = p * e + (Trade % p) /\ Trade % p \in Nat
  BY <1>1
<1>4. e * p <= Trade
  <2> HIDE DEF e
  <2> QED BY <1>1, <1>3
<1>5. QED
  BY <1>2, <1>4 DEF p

(* Products keep an inequality.                                            *)
LEMMA TimesKeeps ==
    ASSUME NEW a \in Int, NEW b \in Int, NEW n \in Nat, a <= b PROVE a * n <= b * n
  OBVIOUS

(* A buy spends no more on the SOL that Jupiter is to sell than the trade: *)
(* q SOL cost v, and e of them are worth the trade size at the signal's    *)
(* price or less.                                                          *)
LEMMA WorthTheTrade ==
    ASSUME NEW e \in Nat, NEW v \in Nat, NEW q \in Nat, NEW p \in Nat, NEW t \in Nat,
           v <= q * p, e * p <= t
    PROVE  e * v <= t * q
<1>1. v * e <= (q * p) * e
  BY TimesKeeps
<1>2. (e * p) * q <= t * q
  BY TimesKeeps
<1>3. (q * p) * e = (e * p) * q
  OBVIOUS
<1>4. v * e = e * v /\ v * e \in Int /\ (q * p) * e \in Int /\ t * q \in Int
  OBVIOUS
<1>5. QED
  BY <1>1, <1>2, <1>3, <1>4

(* The profit that is reported was made, the SOL left over counted in,     *)
(* when neither leg was worse than the signal's prices.                    *)
THEOREM ProfitReal == Spec => []ProfitIsReal
<1>1. Inv => ProfitIsReal
  <2> SUFFICES ASSUME Inv, result = "Filled", gross # NaN, NoWorseThanSignal
               PROVE  (gross - Slippage(quote.out)) * fill.qty <= Gained
    BY DEF ProfitIsReal
  <2> DEFINE q == fill.qty
             v == fill.value
             e == SolEstimate
             z == Slippage(quote.out)
             o == quote.out
             g == got
             t == Trade
  <2>1. /\ q \in Nat /\ v \in Nat /\ e \in Nat /\ z \in Nat /\ o \in Nat
        /\ g \in Nat /\ t \in Nat /\ g >= o - z
    BY WhenFilled
  <2>2. CASE BuysOnCex
    <3>1. UsdcDelta = g - v /\ SolDelta = q - e /\ gross = o - t
      BY <2>1, <2>2, WhenFilled DEF UsdcDelta, SolDelta, Sign, SwapIn, Gross
    <3>2. e * v <= t * q
      <4>1. signal.cex \in Nat
        BY LegsAssumption DEF Inv, TypeOK, LegsAssumption
      <4>2. v <= q * signal.cex
        BY <2>2 DEF NoWorseThanSignal
      <4>3. e * signal.cex <= t
        BY <2>2, EstimateIsCovered DEF Inv
      <4> HIDE DEF q, v, e, t
      <4>4. QED
        BY <2>1, <4>1, <4>2, <4>3, WorthTheTrade
    <3>3. Gained = ((g - v) * q) + ((q - e) * v)
      BY <3>1 DEF Gained
    <3>4. (gross - z) * q = ((o - t) - z) * q
      BY <3>1
    <3> HIDE DEF q, v, e, z, o, g, t
    <3>5. ((g - v) * q) + ((q - e) * v) = (g * q) - (e * v)
      BY <2>1
    <3>6. ((o - t) - z) * q = ((o - z) * q) - (t * q)
      BY <2>1
    <3>7. (o - z) * q <= g * q
      BY <2>1, TimesKeeps
    <3>8. ((o - t) - z) * q <= ((g - v) * q) + ((q - e) * v)
      <4>1. /\ (o - z) * q \in Int /\ g * q \in Int /\ t * q \in Int /\ e * v \in Int
        BY <2>1
      <4>2. QED
        BY <3>2, <3>5, <3>6, <3>7, <4>1
    <3>9. QED
      BY <3>3, <3>4, <3>8 DEF q, z
  <2>3. CASE ~BuysOnCex
    <3>1. UsdcDelta = v - t /\ SolDelta = g - q
      BY <2>1, <2>3, WhenFilled DEF UsdcDelta, SolDelta, Sign, SwapIn
    <3>2. gross \in Int /\ gross <= v - t
      BY <2>1, <2>3, WhenFilled DEF Gross
    <3>3. q <= g
      BY <2>1, <2>3, WhenFilled DEF NoWorseThanSignal, Covers, NoFill
    <3>4. Gained = ((v - t) * q) + ((g - q) * v)
      BY <3>1 DEF Gained
    <3> HIDE DEF q, v, e, z, o, g, t
    <3>5. gross - z <= v - t
      BY <2>1, <3>2
    <3>6. (gross - z) * q <= (v - t) * q
      BY <2>1, <3>2, <3>5, TimesKeeps
    <3>7. (g - q) * v >= 0
      BY <2>1, <3>3
    <3>8. (gross - z) * q <= ((v - t) * q) + ((g - q) * v)
      <4>1. (gross - z) * q \in Int /\ (v - t) * q \in Int /\ (g - q) * v \in Int
        BY <2>1, <3>2
      <4>2. QED
        BY <3>6, <3>7, <4>1
    <3>9. QED
      BY <3>4, <3>8 DEF q, z
  <2>4. QED
    BY <2>2, <2>3
<1>2. QED
  BY <1>1, InvAlways, PTL

-----------------------------------------------------------------------------
(* Each leg's future implements the safety of its contract: Coordinator    *)
(* assumes of the legs no less than the clients do.                        *)
THEOREM LegsAreSafe == Spec => CexContract!Safety /\ DexContract!Safety
<1>1. Init => CexContract!Init /\ DexContract!Init
  BY DEF Init, CexContract!Init, DexContract!Init, AtVenue, Legs
<1>2. ASSUME Inv, [Next]_vars PROVE [CexContract!Next]_CexContract!vars
  <2> USE DEF CexContract!Next, CexContract!vars, CexContract!Settle,
              CexContract!ReplyOk, CexContract!ReplyErr, AtVenue
  <2>1. UNCHANGED live
    BY <1>2, SignalStays
  <2>2. CASE Cex
    BY <1>2, <2>1, <2>2 DEF Inv, TypeOK, CexCoherent, Legs, OrderStates, Cex,
       OrderRefusedByClient, PlaceOrder, OrderRequestFails, OrderAnswered,
       BodyRead, BodyLost, Resolve, ReplyOfOrder
  <2>3. CASE NotExecuted \/ \E f \in Fills : Execute(f)
    BY <1>2, <2>1, <2>3 DEF Inv, TypeOK, CexCoherent, NotExecuted, Execute
  <2>4. CASE UNCHANGED <<order, reply>>
    BY <2>1, <2>4
  <2>5. CASE UNCHANGED order /\ \E r : Resolve("dex", r)
    BY <1>2, <2>1, <2>5 DEF Inv, TypeOK, Resolve, Legs
  <2>6. \/ UNCHANGED order /\ (UNCHANGED reply \/ \E r : Resolve("dex", r))
        \/ Cex \/ NotExecuted \/ \E f \in Fills : Execute(f)
    BY <1>2 DEF Next, Dex, Join, Venues, QuoteFails, QuoteRefused, Quoted,
       SwapFails, SwapSent, Confirmed, ConfirmFails, Land, Dropped, vars, cexLeg
  <2>7. QED
    BY <2>2, <2>3, <2>4, <2>5, <2>6
<1>3. ASSUME Inv, [Next]_vars PROVE [DexContract!Next]_DexContract!vars
  <2> USE DEF DexContract!Next, DexContract!vars, DexContract!Settle,
              DexContract!ReplyOk, DexContract!ReplyErr, AtVenue
  <2>1. UNCHANGED live
    BY <1>3, SignalStays
  <2>2. CASE Dex
    BY <1>3, <2>1, <2>2 DEF Inv, TypeOK, DexCoherent, Legs, OrderStates, Dex,
       QuoteFails, QuoteRefused, Quoted, SwapFails, SwapSent, Confirmed,
       ConfirmFails, Resolve
  <2>3. CASE Dropped \/ \E g \in Outs : Land(g)
    BY <1>3, <2>1, <2>3 DEF Inv, TypeOK, DexCoherent, Dropped, Land
  <2>4. CASE UNCHANGED <<swap, reply>>
    BY <2>1, <2>4
  <2>5. CASE UNCHANGED swap /\ \E r : Resolve("cex", r)
    BY <1>3, <2>1, <2>5 DEF Inv, TypeOK, Resolve, Legs
  <2>6. \/ UNCHANGED swap /\ (UNCHANGED reply \/ \E r : Resolve("cex", r))
        \/ Dex \/ Dropped \/ \E g \in Outs : Land(g)
    BY <1>3 DEF Next, Cex, Join, Venues, OrderRefusedByClient, PlaceOrder,
       OrderRequestFails, OrderAnswered, BodyRead, BodyLost, Execute,
       NotExecuted, vars, dexLeg
  <2>7. QED
    BY <2>2, <2>3, <2>4, <2>5, <2>6
<1>4. QED
  BY <1>1, <1>2, <1>3, InvAlways, PTL DEF Spec, CexContract!Safety, DexContract!Safety
=============================================================================
