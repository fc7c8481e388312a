------------------------- MODULE PaperTradingProofs -------------------------
(***************************************************************************)
(* Theorems of PaperTrading for every set of snapshots and configurations, *)
(* every cooldown and any number of checks and trades.                     *)
(***************************************************************************)
EXTENDS PaperTrading, FoldLemmas, SequenceTheorems, TLAPS

(* A sum and a product the provers are given rather than left to find.     *)
LEMMA ProductAtLeast == \A x, k \in Nat : x >= 1 => x * (Unit + k) >= Unit
BY DEF Unit

(* The price impact is a natural number.                                   *)
LEMMA ImpactNat ==
    ASSUME NEW s \in Snaps, NEW size \in Nat
    PROVE  Impact(s, size) \in Nat
<1>1. s.liq \in Nat \ {0}
  BY DetectorAssumption
<1>2. Unit \div 2 = 50000
  BY DEF Unit
<1>3. size * 50000 \in Nat
  OBVIOUS
<1>4. \A a \in Nat, b \in Nat \ {0} : a \div b \in Nat
  OBVIOUS
<1> QED BY <1>1, <1>2, <1>3, <1>4 DEF Impact

(* The result of a trade is a number: neither division divides by zero.    *)
LEMMA NetInt ==
    ASSUME NEW s \in Snaps, NEW size \in Nat
    PROVE  NetAt(s, size) \in Int
<1>1. /\ s.cex \in Nat \ {0} /\ s.dex \in Nat \ {0} /\ s.fee \in Nat
      /\ TakerFee \in Nat /\ HalfSpread \in Nat
  BY DetectorAssumption, EngineAssumption
<1>2. Impact(s, size) \in Nat
  BY ImpactNat
<1> DEFINE k == Impact(s, size)
<1>3. /\ CexFill(s) \in Int /\ DexFill(s, size) \in Int
      /\ BuyOnCex(s) => CexFill(s) >= Unit
      /\ ~BuyOnCex(s) => DexFill(s, size) >= Unit
  <2>1. s.cex * (Unit + HalfSpread) >= Unit /\ s.dex * (Unit + k) >= Unit
    BY <1>1, <1>2, ProductAtLeast
  <2>2. /\ s.cex * (Unit + HalfSpread) \in Int /\ s.cex * (Unit - HalfSpread) \in Int
        /\ s.dex * (Unit + k) \in Int /\ s.dex * (Unit - k) \in Int
    BY <1>1, <1>2 DEF Unit
  <2> QED BY <2>1, <2>2 DEF CexFill, DexFill
<1>4. \A a, b \in Int : b >= Unit => a \div (b \div Unit) \in Int
  BY DEF Unit
<1>5. GrossRate(s, size) \in Int
  <2>1. CASE BuyOnCex(s)
    <3>1. GrossRate(s, size) = (DexFill(s, size) - CexFill(s)) \div (CexFill(s) \div Unit)
      BY <2>1 DEF GrossRate
    <3> QED BY <3>1, <2>1, <1>3, <1>4
  <2>2. CASE ~BuyOnCex(s)
    <3>1. GrossRate(s, size) = (CexFill(s) - DexFill(s, size)) \div (DexFill(s, size) \div Unit)
      BY <2>2 DEF GrossRate
    <3> QED BY <3>1, <2>2, <1>3, <1>4
  <2> QED BY <2>1, <2>2
<1>6. NetRate(s, size) \in Int
  BY <1>1, <1>2, <1>5 DEF NetRate, Fees
<1>7. \A r \in Int, z \in Nat : (r * z) \div 10 \in Int
  OBVIOUS
<1> QED BY <1>6, <1>7 DEF NetAt, Money

-----------------------------------------------------------------------------
(* The inductive invariant.                                                *)

Records == [id : 1 .. MaxLedger, net : Int, after : Nat, outcome : Pnl!Outcomes]

Engines == [balance : Nat, trades : Seq(Records), skipped : Nat]

Shape ==
    /\ setup \in Setups /\ hand \in Snaps
    /\ last \in 0 .. MaxClock /\ now \in 1 .. MaxClock
    /\ pc \in {"idle", "signal", "record", "stopped", "dead"}
    /\ engine \in Engines /\ stale \in Nat
    /\ tracker.total \in Nat /\ tracker.lastId = tracker.total
    /\ tracker.balance \in Int
    /\ ending \in {"running", "cancelled", "reported"}
    /\ report.complete \in BOOLEAN /\ report.total \in -1 .. MaxLedger

(* The trade the tracker does not have yet, if any, is the engine's last,  *)
(* it gained, and it starts where the tracker stands.                      *)
Pending ==
    LET trade == engine.trades[tracker.total + 1]
    IN  /\ pc \in {"record", "dead"}
        /\ trade.net \in Results /\ trade.net > 0
        /\ trade = Pnl!TradeOf(tracker.lastId + 1, tracker.balance, trade.net)
        /\ engine.balance = trade.after

Follow ==
    /\ Len(engine.trades) <= MaxLedger
    /\ Len(engine.trades) \in {tracker.total, tracker.total + 1}
    /\ pc = "record" => Len(engine.trades) = tracker.total + 1
    /\ Len(engine.trades) = tracker.total => engine.balance = tracker.balance
    /\ Len(engine.trades) = tracker.total + 1 => Pending

NoLoss ==
    /\ tracker.losses = 0 /\ tracker.drawdown = 0
    /\ tracker.peak = tracker.balance

Reported ==
    report.complete => /\ pc \in {"stopped", "dead"}
                       /\ report.total = Len(engine.trades)

(* Every signal is settled as stale, a skip or a trade, but the one in     *)
(* hand or lost; every other check is a rejection.                         *)
Settled == stale + engine.skipped + Len(engine.trades)

Tally ==
    /\ count \in [Counters -> Nat]
    /\ \A c \in Counters : count[c] <= count["checks"]
    /\ count["checks"] <= MaxChecks
    /\ count["checks"] = count["signals"] + Rejections
    /\ count["signals"] - Settled \in {0, 1}
    /\ pc # "dead" => count["signals"] = Settled + InFlight

IInv == Shape /\ Follow /\ NoLoss /\ Reported /\ Tally

(* What the tracker becomes when it is given a gain.                       *)
LEMMA GainRecorded ==
    ASSUME NEW trade, trade.net \in Int, trade.net > 0,
           tracker.total \in Nat, tracker.balance \in Int, NoLoss,
           trade = Pnl!TradeOf(tracker.lastId + 1, tracker.balance, trade.net)
    PROVE  LET t == Pnl!Recorded(tracker, trade)
           IN  /\ t.total = tracker.total + 1 /\ t.lastId = tracker.lastId + 1
               /\ t.balance = trade.after /\ trade.after \in Int
               /\ t.losses = 0 /\ t.drawdown = 0 /\ t.peak = t.balance
<1>1. /\ trade.id = tracker.lastId + 1
      /\ trade.after = tracker.balance + trade.net
      /\ trade.outcome = Pnl!FromPnl(trade.net)
  BY DEF Pnl!TradeOf
<1>2. trade.outcome # "Loss"
  BY <1>1, EngineAssumption DEF Pnl!FromPnl
<1>3. Pnl!PeakAfter(tracker, trade.after) = trade.after
  BY <1>1 DEF Pnl!PeakAfter, Pnl!Larger, NoLoss
<1> QED
  BY <1>1, <1>2, <1>3 DEF Pnl!Recorded, Pnl!Larger, Pnl!Count, NoLoss

(* A trade the engine just closed.                                         *)
LEMMA ClosedGain ==
    ASSUME Shape, Positive(hand), Len(engine.trades) < MaxLedger
    PROVE  LET x == Closed(hand)
           IN  /\ x \in Records /\ x.net \in Results /\ x.net > 0
               /\ x.net = FillNet(hand) /\ FillNet(hand) \in Int
               /\ x = Pnl!TradeOf(Len(engine.trades) + 1, engine.balance, x.net)
<1>1. setup.size \in Nat
  BY DetectorAssumption DEF Shape
<1>2. FillNet(hand) \in Int
  BY <1>1, NetInt DEF FillNet, Shape
<1>3. FillNet(hand) \in Results
  BY DEF FillNet, Results, Shape
<1>4. Pnl!FromPnl(FillNet(hand)) \in Pnl!Outcomes
  BY DEF Pnl!FromPnl, Pnl!Outcomes
<1>5. Len(engine.trades) \in Nat /\ engine.balance \in Nat /\ MaxLedger \in Nat
  BY EngineAssumption DEF Shape, Engines
<1>6. /\ Len(engine.trades) + 1 \in 1 .. MaxLedger
      /\ engine.balance + FillNet(hand) \in Nat
  BY <1>2, <1>5 DEF Positive
<1> QED BY <1>2, <1>3, <1>4, <1>6 DEF Closed, Records, Positive, Pnl!TradeOf

-----------------------------------------------------------------------------
(* What a check does to the counters.                                      *)
LEMMA Counted ==
    ASSUME Tally, NEW s, NEW v \in Counters \ {"checks"}, count' = CountedAs(s, v),
           count["checks"] < MaxChecks
    PROVE  /\ count' \in [Counters -> Nat]
           /\ \A c \in Counters : count'[c] <= count'["checks"]
           /\ count'["checks"] = count["checks"] + 1 /\ count'["checks"] <= MaxChecks
           /\ count'[v] = count[v] + 1
           /\ \A c \in Counters \ {"checks", v} : count'[c] = count[c]
<1>1. count \in [Counters -> Nat] /\ \A c \in Counters : count[c] <= count["checks"]
  BY DEF Tally
<1>2. "checks" \in Counters /\ MaxChecks \in Nat
  BY DetectorAssumption DEF Counters
<1>3. \A c \in Counters : count'[c] = count[c] + (IF c \in {"checks", v} THEN 1 ELSE 0)
  BY DEF CountedAs
<1>4. DOMAIN count' = Counters /\ count' = [c \in Counters |-> count'[c]]
  BY DEF CountedAs
<1>5. \A c \in Counters : count'[c] \in Nat
  BY <1>1, <1>3
<1> QED BY <1>1, <1>2, <1>3, <1>4, <1>5

(* The rejections are a sum of integers over a finite set of reasons.      *)
LEMMA RejectionsType ==
    ASSUME count \in [Counters -> Nat]
    PROVE  Rejections \in Int /\ IsFiniteSet(Reasons) /\ \A c \in Reasons : count[c] \in Int
<1>1. IsFiniteSet(Reasons)
  <2>1. IsFiniteSet({"spread"}) /\ IsFiniteSet({"spread"} \cup {"liquidity"})
    BY FS_Singleton, FS_AddElement
  <2>2. IsFiniteSet((({"spread"} \cup {"liquidity"}) \cup {"staleness"}) \cup {"cooldown"})
    BY <2>1, FS_AddElement
  <2>3. IsFiniteSet(((({"spread"} \cup {"liquidity"}) \cup {"staleness"}) \cup {"cooldown"}) \cup {"profit"})
    BY <2>2, FS_AddElement
  <2>4. Reasons = ((({"spread"} \cup {"liquidity"}) \cup {"staleness"}) \cup {"cooldown"}) \cup {"profit"}
    BY DEF Reasons
  <2> QED BY <2>3, <2>4
<1>2. \A c \in Reasons : count[c] \in Int
  BY DEF Counters
<1> QED BY <1>1, <1>2, SumTakeOff DEF Rejections

(* A rejection is one check and one reason.                                *)
LEMMA RejectTally ==
    ASSUME Tally, NEW s, Reject(s), UNCHANGED <<pc, engine, stale>>
    PROVE  Tally'
<1> DEFINE v == Verdict(s)
<1>1. v \in Reasons
  BY DEF Reject, Verdict, Reasons
<1> HIDE DEF v
<1>2. count' = CountedAs(s, v) /\ count["checks"] < MaxChecks
  BY DEF Reject, v
<1>3. v \in Counters \ {"checks"} /\ v # "signals" /\ "signals" \in Counters /\ "checks" \in Counters
  BY <1>1 DEF Counters, Reasons
<1>4. /\ count' \in [Counters -> Nat]
      /\ \A c \in Counters : count'[c] <= count'["checks"]
      /\ count'["checks"] = count["checks"] + 1 /\ count'["checks"] <= MaxChecks
      /\ count'[v] = count[v] + 1
      /\ \A c \in Counters \ {"checks", v} : count'[c] = count[c]
  BY <1>2, <1>3, Counted
<1>5. count'["signals"] = count["signals"]
  BY <1>3, <1>4
<1>6. Rejections' = Rejections + 1
  <2>1. count \in [Counters -> Nat]
    BY DEF Tally
  <2>2. IsFiniteSet(Reasons) /\ \A c \in Reasons : count[c] \in Int
    BY <2>1, RejectionsType
  <2>3. \A c \in Reasons \ {v} : count'[c] = count[c]
    BY <1>4 DEF Counters, Reasons
  <2>4. count[v] \in Nat /\ count'[v] \in Int
    BY <1>3, <1>4, <2>1
  <2>5. SumFunctionOnSet(count', Reasons) = SumFunctionOnSet(count, Reasons) + (count'[v] - count[v])
    BY <1>1, <2>2, <2>3, <2>4, SumChange
  <2>6. SumFunctionOnSet(count, Reasons) \in Int
    BY <2>1, RejectionsType DEF Rejections
  <2> QED BY <1>4, <2>4, <2>5, <2>6 DEF Rejections
<1>7. Settled' = Settled /\ InFlight' = InFlight
  BY DEF Settled, InFlight
<1>8. Rejections \in Int /\ count["signals"] \in Nat /\ count["checks"] \in Nat
  BY <1>3, RejectionsType DEF Tally
<1> QED BY <1>4, <1>5, <1>6, <1>7, <1>8 DEF Tally

(* A signal is one check; it is in hand until it is settled.               *)
LEMMA EmitTally ==
    ASSUME Tally, Shape, NEW s, Emit(s), pc = "idle", pc' = "signal", UNCHANGED <<engine, stale>>
    PROVE  Tally'
<1> DEFINE v == "signals"
<1>2. count' = CountedAs(s, v) /\ count["checks"] < MaxChecks
  BY DEF Emit, v
<1>3. v \in Counters \ {"checks"} /\ "signals" \in Counters /\ "checks" \in Counters
  BY DEF Counters, Reasons
<1>4. /\ count' \in [Counters -> Nat]
      /\ \A c \in Counters : count'[c] <= count'["checks"]
      /\ count'["checks"] = count["checks"] + 1 /\ count'["checks"] <= MaxChecks
      /\ count'[v] = count[v] + 1
      /\ \A c \in Counters \ {"checks", v} : count'[c] = count[c]
  BY <1>2, <1>3, Counted
<1>6. Rejections' = Rejections
  <2>1. count \in [Counters -> Nat]
    BY DEF Tally
  <2>2. IsFiniteSet(Reasons) /\ \A c \in Reasons : count[c] \in Int
    BY <2>1, RejectionsType
  <2>3. \A c \in Reasons : count'[c] = count[c]
    BY <1>4 DEF Counters, Reasons
  <2> QED BY <2>2, <2>3, SumSame DEF Rejections
<1>7. Settled' = Settled /\ InFlight' = 1 /\ InFlight = 0 /\ Settled \in Int
  BY DEF Settled, InFlight, Shape, Engines
<1>8. Rejections \in Int /\ count["signals"] \in Nat /\ count["checks"] \in Nat
  BY <1>3, RejectionsType DEF Tally
<1> QED BY <1>4, <1>6, <1>7, <1>8 DEF Tally

(* A signal in hand is settled.                                            *)
LEMMA SettleTally ==
    ASSUME Tally, Shape, pc = "signal", pc' \in {"idle", "record"}, count' = count,
           Settled' = Settled + 1
    PROVE  Tally'
<1>1. InFlight = 1 /\ InFlight' = 0 /\ Rejections' = Rejections /\ Settled \in Int
  BY DEF InFlight, Rejections, Settled, Shape, Engines
<1>2. count["signals"] \in Nat
  BY DEF Tally, Counters
<1> QED BY <1>1, <1>2 DEF Tally

(* A step that neither checks nor settles a signal keeps the tally.        *)
LEMMA QuietTally ==
    ASSUME Tally, Shape, UNCHANGED <<count, engine, stale>>,
           \/ pc' = "dead"
           \/ pc # "dead" /\ (pc = "signal" <=> pc' = "signal")
    PROVE  Tally'
<1>1. Rejections' = Rejections /\ Settled' = Settled
  BY DEF Rejections, Settled
<1> QED BY <1>1 DEF Tally, InFlight

-----------------------------------------------------------------------------
(* The inductive invariant holds at the start.                             *)
THEOREM Start == Init => IInv
<1> SUFFICES ASSUME Init PROVE IInv
  OBVIOUS
<1>1. hand \in Snaps
  BY DetectorAssumption DEF Init
<1>2. Len(engine.trades) = 0 /\ engine.trades \in Seq(Records)
  BY DEF Init, NewEngine
<1>3. MaxLedger \in Nat /\ Initial \in Nat /\ MaxClock \in Nat \ {0} /\ MaxChecks \in Nat
  BY EngineAssumption, DetectorAssumption
<1>4. Shape
  <2>1. engine \in Engines
    BY <1>2, <1>3 DEF Init, NewEngine, Engines
  <2>2. setup \in Setups /\ last \in 0 .. MaxClock /\ now \in 1 .. MaxClock
    BY <1>3 DEF Init, DetectorInit
  <2>3. tracker.total = 0 /\ tracker.lastId = 0 /\ tracker.balance = Initial
    BY DEF Init, Pnl!NewTracker
  <2>4. report.complete \in BOOLEAN /\ report.total \in -1 .. MaxLedger
    BY <1>3 DEF Init, Nothing
  <2> QED BY <1>1, <1>3, <2>1, <2>2, <2>3, <2>4 DEF Init, Shape
<1>5. Follow /\ NoLoss /\ Reported
  BY <1>2, <1>3
  DEF Init, NewEngine, Pnl!NewTracker, Nothing, Follow, NoLoss, Reported
<1>6. Tally
  <2>1. count = [c \in Counters |-> 0]
    BY DEF Init, DetectorInit
  <2>2. count \in [Counters -> Nat] /\ \A c \in Counters : count[c] = 0
    BY <2>1
  <2>3. \A c \in Reasons : count[c] = 0
    BY <2>2 DEF Counters
  <2>4. Rejections = 0
    BY <2>2, <2>3, RejectionsType, SumZero DEF Rejections
  <2>5. Settled = 0 /\ InFlight = 0
    BY <1>2 DEF Init, NewEngine, Settled, InFlight
  <2>6. count["checks"] = 0 /\ count["signals"] = 0
    BY <2>2 DEF Counters
  <2> QED BY <1>3, <2>2, <2>4, <2>5, <2>6 DEF Tally
<1> QED BY <1>4, <1>5, <1>6 DEF IInv

(* Steps that leave engine and tracker alone.                              *)
LEMMA QuietStep ==
    ASSUME IInv, UNCHANGED <<engine, tracker>>,
           setup' = setup, hand' \in Snaps, last' \in 0 .. MaxClock, now' \in 1 .. MaxClock,
           pc' \in {"idle", "signal", "stopped", "dead", pc},
           (pc = "record" => pc' \in {"record", "dead"}),
           (pc \in {"stopped", "dead"} => pc' \in {pc, "dead"}),
           UNCHANGED <<stale, report>>, ending' \in {"running", "cancelled", "reported"},
           Tally'
    PROVE  IInv'
<1>1. Shape'
  BY DEF IInv, Shape
<1>2. Follow'
  BY DEF IInv, Shape, Follow, Pending, Pnl!TradeOf, Pnl!FromPnl
<1>3. NoLoss' /\ Reported'
  BY DEF IInv, NoLoss, Reported
<1> QED BY <1>1, <1>2, <1>3 DEF IInv

(* simulate_trade keeps the inductive invariant.                           *)
LEMMA TradeStep == ASSUME IInv, Trade PROVE IInv'
<1> DEFINE x == Closed(hand)  n == Len(engine.trades)
<1>1. /\ x \in Records /\ x.net \in Results /\ x.net > 0
      /\ x.net = FillNet(hand) /\ FillNet(hand) \in Int
      /\ x = Pnl!TradeOf(n + 1, engine.balance, x.net)
  BY ClosedGain DEF IInv, Trade
<1>2. engine.trades \in Seq(Records) /\ n \in Nat /\ engine.balance \in Nat
  BY DEF IInv, Shape, Engines
<1>3. n = tracker.total /\ engine.balance = tracker.balance
  BY <1>2 DEF IInv, Shape, Follow, Pending, Trade
<1>4. /\ engine'.trades = Append(engine.trades, x)
      /\ engine'.balance = engine.balance + FillNet(hand)
      /\ engine' \in Engines
  <2>1. x.after \in Nat /\ x.after = engine.balance + FillNet(hand)
    BY <1>1 DEF Records, Pnl!TradeOf
  <2> HIDE DEF x
  <2> QED BY <1>1, <1>2, <2>1 DEF Trade, IInv, Shape, Engines, x
<1>5. Len(engine'.trades) = n + 1 /\ engine'.trades[n + 1] = x
  BY <1>1, <1>2, <1>4
<1>6. x.after = engine.balance + x.net
  BY <1>1 DEF Pnl!TradeOf
<1> HIDE DEF x
<1>7. Shape'
  BY <1>4 DEF Trade, IInv, Shape, detectorVars
<1>8. Pending'
  <2>1. engine'.trades[tracker'.total + 1] = x
    BY <1>3, <1>5 DEF Trade
  <2>2. x = Pnl!TradeOf(tracker'.lastId + 1, tracker'.balance, x.net)
    BY <1>1, <1>3 DEF Trade, IInv, Shape
  <2>3. engine'.balance = x.after
    BY <1>1, <1>4, <1>6
  <2> QED BY <1>1, <2>1, <2>2, <2>3 DEF Pending, Trade, Pnl!TradeOf, Pnl!FromPnl
<1>9. Follow'
  BY <1>2, <1>3, <1>5, <1>8, EngineAssumption DEF Follow, Trade
<1>10. NoLoss' /\ Reported'
  BY DEF IInv, NoLoss, Reported, Trade
<1>11. Tally'
  <2>1. Settled' = Settled + 1
    <3>1. engine'.skipped = engine.skipped /\ stale' = stale
      BY DEF Trade
    <3>2. engine.skipped \in Nat /\ stale \in Nat
      BY DEF IInv, Shape, Engines
    <3> QED BY <1>2, <1>5, <3>1, <3>2 DEF Settled
  <2> QED BY <2>1, SettleTally DEF Trade, IInv, detectorVars
<1> QED BY <1>7, <1>9, <1>10, <1>11 DEF IInv

(* PnlTracker::record after a trade keeps the inductive invariant.         *)
LEMMA RecordStep == ASSUME IInv, RecordTrade PROVE IInv'
<1> DEFINE x == Last(engine.trades)
<1>1. Len(engine.trades) = tracker.total + 1 /\ tracker.total \in Nat
  BY DEF IInv, Shape, Follow, RecordTrade
<1>2. x = engine.trades[tracker.total + 1]
  BY <1>1 DEF Last
<1>3. Pending /\ x.net \in Int
  <2>1. engine.trades \in Seq(Records) /\ tracker.total + 1 \in 1 .. Len(engine.trades)
    BY <1>1 DEF IInv, Shape, Engines
  <2>2. x \in Records
    BY <1>2, <2>1
  <2> QED BY <1>1, <2>2 DEF IInv, Follow, Records
<1>4. /\ x.net > 0
      /\ x = Pnl!TradeOf(tracker.lastId + 1, tracker.balance, x.net)
      /\ engine.balance = x.after
  BY <1>2, <1>3 DEF Pending
<1> HIDE DEF x
<1>5. /\ tracker'.total = tracker.total + 1 /\ tracker'.lastId = tracker.lastId + 1
      /\ tracker'.balance = x.after /\ x.after \in Int
      /\ tracker'.losses = 0 /\ tracker'.drawdown = 0
      /\ tracker'.peak = tracker'.balance
  BY <1>1, <1>3, <1>4, GainRecorded DEF IInv, Shape, RecordTrade, x
<1>6. Shape'
  BY <1>1, <1>5 DEF IInv, Shape, RecordTrade, detectorVars
<1>7. Follow'
  BY <1>1, <1>4, <1>5 DEF IInv, Follow, RecordTrade
<1>8. NoLoss' /\ Reported'
  BY <1>5 DEF IInv, NoLoss, Reported, RecordTrade
<1>9. Tally'
  BY QuietTally DEF RecordTrade, IInv, detectorVars
<1> QED BY <1>6, <1>7, <1>8, <1>9 DEF IInv

(* Every step keeps the inductive invariant.                               *)
LEMMA InvStep == ASSUME IInv, [Next]_vars PROVE IInv'
<1>1. /\ now \in 1 .. MaxClock /\ last \in 0 .. MaxClock /\ MaxClock \in Nat
      /\ now \in 0 .. MaxClock /\ hand \in Snaps
      /\ ending \in {"running", "cancelled", "reported"}
  BY DetectorAssumption DEF IInv, Shape
<1>2. ASSUME NEW s \in Snaps, CheckRejects(s) PROVE IInv'
  <2>1. Tally'
    BY <1>2, RejectTally DEF CheckRejects, IInv
  <2> QED BY <1>1, <1>2, <2>1, QuietStep DEF CheckRejects, Reject
<1>3. ASSUME NEW s \in Snaps, CheckEmits(s) PROVE IInv'
  <2>1. Tally'
    BY <1>3, EmitTally DEF CheckEmits, IInv
  <2>2. now \in 0 .. MaxClock
    BY <1>1
  <2> QED BY <1>1, <1>3, <2>1, <2>2, QuietStep DEF CheckEmits, Emit
<1>4. CASE SignalStale
  <2>1. Settled' = Settled + 1
    BY <1>4 DEF SignalStale, Settled, IInv, Shape, Engines
  <2>2. Tally'
    BY <1>4, <2>1, SettleTally DEF SignalStale, IInv, detectorVars
  <2>3. Shape'
    BY <1>4 DEF SignalStale, IInv, Shape, detectorVars
  <2>4. Follow' /\ NoLoss' /\ Reported'
    BY <1>4 DEF SignalStale, IInv, Follow, Pending, NoLoss, Reported, Pnl!TradeOf, Pnl!FromPnl
  <2> QED BY <2>2, <2>3, <2>4 DEF IInv
<1>5. CASE Skip
  <2>1. /\ engine'.trades = engine.trades /\ engine'.balance = engine.balance
        /\ engine'.skipped = engine.skipped + 1 /\ engine' \in Engines
    BY <1>5 DEF Skip, SkippedNow, IInv, Shape, Engines
  <2>2. Shape'
    BY <1>5, <2>1 DEF Skip, IInv, Shape, detectorVars
  <2>3. Len(engine.trades) = tracker.total
    BY <1>5 DEF Skip, IInv, Follow, Pending, Shape
  <2>4. Follow'
    BY <1>5, <2>1, <2>3 DEF Skip, IInv, Follow, Shape
  <2>5. NoLoss' /\ Reported'
    BY <1>5, <2>1 DEF Skip, IInv, NoLoss, Reported
  <2>6. Settled' = Settled + 1
    BY <1>5, <2>1 DEF Skip, Settled, IInv, Shape, Engines
  <2>7. Tally'
    BY <1>5, <2>6, SettleTally DEF Skip, IInv, detectorVars
  <2> QED BY <2>2, <2>4, <2>5, <2>7 DEF IInv
<1>6. CASE Trade
  BY <1>6, TradeStep
<1>7. CASE RecordTrade
  BY <1>7, RecordStep
<1>8. CASE Cancel
  <2>1. UNCHANGED <<count, engine, stale, pc>>
    BY <1>8 DEF Cancel, detectorVars
  <2>2. Tally'
    BY <2>1 DEF IInv, Tally, Rejections, Settled, InFlight
  <2> QED BY <1>1, <1>8, <2>2, QuietStep DEF Cancel, detectorVars
<1>9. CASE Stop
  <2>1. Tally'
    BY <1>9, QuietTally DEF Stop, AtTick, IInv, detectorVars
  <2> QED BY <1>1, <1>9, <2>1, QuietStep DEF Stop, AtTick, detectorVars
<1>10. CASE PrintReport
  <2>1. NoLoss'
    BY <1>10 DEF PrintReport, IInv, NoLoss
  <2>2. Follow'
    BY <1>10 DEF PrintReport, IInv, Shape, Follow, Pending, Pnl!TradeOf, Pnl!FromPnl
  <2>3. pc = "stopped" => Len(engine.trades) = tracker.total
    BY DEF IInv, Follow, Pending
  <2>4. Reported'
    BY <1>10, <2>3 DEF PrintReport, Reported
  <2>5. Tally'
    BY <1>10 DEF PrintReport, IInv, Tally, Rejections, Settled, InFlight, detectorVars
  <2>6. Shape'
    <3>1. tracker.total \in -1 .. MaxLedger
      BY EngineAssumption DEF IInv, Shape, Follow, Engines
    <3>2. report'.total \in -1 .. MaxLedger /\ report'.complete \in BOOLEAN
      BY <1>10, <3>1 DEF PrintReport
    <3>3. ending' \in {"running", "cancelled", "reported"}
      BY <1>10 DEF PrintReport
    <3> QED BY <1>10, <3>2, <3>3 DEF PrintReport, IInv, Shape, detectorVars
  <2> QED BY <2>1, <2>2, <2>4, <2>5, <2>6 DEF IInv
<1>11. CASE Exit
  <2>1. Tally'
    BY <1>11, QuietTally DEF Exit, IInv, detectorVars
  <2> QED BY <1>1, <1>11, <2>1, QuietStep DEF Exit, detectorVars
<1>12. CASE Clock
  <2>1. UNCHANGED <<count, engine, stale, pc>>
    BY <1>12 DEF Clock, Tick, StepBack
  <2>2. Tally'
    BY <2>1 DEF IInv, Tally, Rejections, Settled, InFlight
  <2>3. now' \in 1 .. MaxClock /\ last' = last /\ setup' = setup
    BY <1>1, <1>12 DEF Clock, Tick, StepBack
  <2> QED BY <1>1, <1>12, <2>2, <2>3, QuietStep DEF Clock
<1>13. CASE UNCHANGED vars
  <2>1. UNCHANGED <<count, engine, stale, pc>>
    BY <1>13 DEF vars, detectorVars
  <2>2. Tally'
    BY <2>1 DEF IInv, Tally, Rejections, Settled, InFlight
  <2> QED BY <1>1, <1>13, <2>2, QuietStep DEF vars, detectorVars
<1> QED BY <1>2, <1>3, <1>4, <1>5, <1>6, <1>7, <1>8, <1>9, <1>10, <1>11, <1>12, <1>13 DEF Next

(* So it holds in every reachable state: the detector, the engine and the  *)
(* tracker agree on what was checked, signalled, traded and recorded.      *)
THEOREM Inductive == Spec => []IInv
<1>1. Init => IInv
  BY Start
<1>2. IInv /\ [Next]_vars => IInv'
  BY InvStep
<1> QED BY <1>1, <1>2, PTL DEF Spec

-----------------------------------------------------------------------------
(* Every variable keeps its type and its bound: balances stay positive,    *)
(* ids are those of the trades, and no counter outgrows the checks.        *)
THEOREM TypeCorrect == Spec => []TypeOK
<1>1. IInv => TypeOK
  <2> SUFFICES ASSUME IInv PROVE TypeOK
    OBVIOUS
  <2>1. MaxChecks \in Nat /\ MaxLedger \in Nat
    BY EngineAssumption, DetectorAssumption
  <2>2. /\ engine.balance \in Nat /\ engine.skipped \in Nat /\ stale \in Nat
        /\ engine.trades \in Seq(Records) /\ Len(engine.trades) \in Nat
    BY DEF IInv, Shape, Engines
  <2>3. /\ count \in [Counters -> Nat]
        /\ \A c \in Counters : count[c] <= count["checks"]
        /\ count["checks"] <= MaxChecks
        /\ count["signals"] - Settled \in {0, 1}
    BY DEF IInv, Tally
  <2>4. "checks" \in Counters /\ "signals" \in Counters
    BY DEF Counters
  <2>5. count \in [Counters -> 0 .. MaxChecks]
    <3>1. \A c \in Counters : count[c] \in 0 .. MaxChecks
      BY <2>1, <2>3, <2>4
    <3> QED BY <2>3, <3>1
  <2>6. engine.skipped \in 0 .. MaxChecks /\ stale \in 0 .. MaxChecks
    <3>1. count["signals"] \in Nat /\ count["signals"] <= MaxChecks
      BY <2>1, <2>4, <2>5
    <3> QED BY <2>1, <2>2, <2>3, <3>1 DEF Settled
  <2>7. tracker.total \in 0 .. MaxLedger
    BY <2>1, <2>2 DEF IInv, Shape, Follow
  <2>8. DetectorTypeOK
    BY <2>5 DEF DetectorTypeOK, IInv, Shape
  <2>9. engine.trades \in Seq([id : 1 .. MaxLedger, net : Int, after : Nat,
                              outcome : Pnl!Outcomes])
    BY <2>2 DEF Records
  <2> QED BY <2>2, <2>6, <2>7, <2>8, <2>9 DEF TypeOK, IInv, Shape
<1> QED BY <1>1, Inductive, PTL

(* Every check ends as a rejection, a stale signal, a skip or a trade, but *)
(* the one whose signal is in hand or died with the process                *)
(* (spread_detector.rs:311-409, paper_engine.rs:376-396).                  *)
THEOREM Accounted == Spec => []ChecksAccountedFor
<1>1. IInv => ChecksAccountedFor
  <2> SUFFICES ASSUME IInv PROVE ChecksAccountedFor
    OBVIOUS
  <2>1. /\ count["checks"] = count["signals"] + Rejections
        /\ count["signals"] - Settled \in {0, 1}
        /\ pc # "dead" => count["signals"] = Settled + InFlight
    BY DEF IInv, Tally
  <2>2. count["signals"] \in Nat /\ Rejections \in Int
    BY RejectionsType DEF IInv, Tally, Counters
  <2>3. stale \in Nat /\ engine.skipped \in Nat /\ Len(engine.trades) \in Nat
    BY DEF IInv, Shape, Engines
  <2>4. Rejections + stale + engine.skipped + Len(engine.trades) = Rejections + Settled
    BY <2>2, <2>3 DEF Settled
  <2>5. Settled \in Nat /\ InFlight \in {0, 1}
    BY <2>3 DEF Settled, InFlight
  <2> QED BY <2>1, <2>2, <2>4, <2>5 DEF ChecksAccountedFor
<1> QED BY <1>1, Inductive, PTL

(* The paper path opens no losing trade: the tracker never shows a loss or *)
(* a drawdown, whatever prices, fees and pools the engine is given         *)
(* (paper_engine.rs:386).                                                  *)
THEOREM NeverLoses == Spec => []PaperNeverLoses
<1>1. IInv => PaperNeverLoses
  <2> SUFFICES ASSUME IInv PROVE engine.balance >= tracker.balance
    BY DEF PaperNeverLoses, IInv, NoLoss
  <2>1. CASE Len(engine.trades) = tracker.total
    BY <2>1 DEF IInv, Follow, Shape
  <2>2. CASE Len(engine.trades) = tracker.total + 1
    <3> DEFINE x == engine.trades[tracker.total + 1]
    <3>1. x \in Records
      BY <2>2 DEF IInv, Shape, Engines
    <3>2. engine.balance = x.after /\ x.net > 0 /\ x.after = tracker.balance + x.net
      BY <2>2 DEF IInv, Follow, Pending, Pnl!TradeOf
    <3> QED BY <3>1, <3>2 DEF Records, IInv, Shape
  <2> QED BY <2>1, <2>2 DEF IInv, Follow
<1> QED BY <1>1, Inductive, PTL

(* The tracker misses at most the trade whose entry waits for its lock     *)
(* (coordinator.rs:209-212).                                               *)
THEOREM Follows == Spec => []TrackerFollowsEngine
<1>1. IInv => TrackerFollowsEngine
  BY DEF IInv, Shape, Follow, Pending, TrackerFollowsEngine
<1> QED BY <1>1, Inductive, PTL

(* A report printed after the detector task stopped has every trade        *)
(* (live_trade.rs:203-211).                                                *)
THEOREM Complete == Spec => []ReportIsComplete
<1>1. IInv => ReportIsComplete
  BY DEF IInv, Reported, ReportIsComplete
<1> QED BY <1>1, Inductive, PTL

(* Signals are a cooldown apart on a wall clock that may be set back       *)
(* (spread_detector.rs:317-324).                                           *)
THEOREM Spaced == Spec => SignalsSpaced
<1> DEFINE Apart == last' # last => last = 0 \/ last' >= last + Cooldown
<1>1. IInv /\ [Next]_vars => [Apart]_detectorVars
  <2> SUFFICES ASSUME IInv, [Next]_vars, last' # last, last # 0
               PROVE  last' >= last + Cooldown
    OBVIOUS
  <2>1. PICK s \in Snaps : CheckEmits(s)
    BY DEF Next, vars, detectorVars, CheckRejects, Reject, SignalStale, Skip, Trade,
           RecordTrade, Cancel, Stop, PrintReport, Exit, Clock, Tick, StepBack
  <2>2. last' = now /\ ~Cooling
    BY <2>1 DEF CheckEmits, Emit, Verdict
  <2>3. last \in Nat /\ now \in Nat /\ Cooldown \in Nat \ {0}
    BY DetectorAssumption DEF IInv, Shape
  <2> QED BY <2>2, <2>3 DEF Cooling, ElapsedNow
<1> QED BY <1>1, Inductive, PTL DEF Spec, SignalsSpaced

-----------------------------------------------------------------------------
(* Prefixes of a sequence.                                                 *)
LEMMA PrefixKept ==
    ASSUME NEW S, NEW q \in Seq(S), NEW x \in S
    PROVE  SubSeq(Append(q, x), 1, Len(q)) = SubSeq(q, 1, Len(q))
<1>1. /\ SubSeq(Append(q, x), 1, Len(q)) \in Seq(S) /\ SubSeq(q, 1, Len(q)) \in Seq(S)
      /\ Len(SubSeq(Append(q, x), 1, Len(q))) = Len(SubSeq(q, 1, Len(q)))
  OBVIOUS
<1>2. \A i \in 1 .. Len(q) : SubSeq(Append(q, x), 1, Len(q))[i] = SubSeq(q, 1, Len(q))[i]
  OBVIOUS
<1>3. Len(SubSeq(q, 1, Len(q))) = Len(q)
  OBVIOUS
<1> QED BY <1>1, <1>2, <1>3, SeqEqual

(* A prefix that is one longer has the next element at its end.            *)
LEMMA PrefixGrows ==
    ASSUME NEW S, NEW q \in Seq(S), NEW k \in Nat, Len(q) = k + 1
    PROVE  SubSeq(q, 1, k + 1) = Append(SubSeq(q, 1, k), q[k + 1])
<1> DEFINE a == SubSeq(q, 1, k + 1)  b == Append(SubSeq(q, 1, k), q[k + 1])
<1>1. a \in Seq(S) /\ Len(a) = k + 1
  OBVIOUS
<1>2. q[k + 1] \in S /\ SubSeq(q, 1, k) \in Seq(S) /\ Len(SubSeq(q, 1, k)) = k
  OBVIOUS
<1>3. b \in Seq(S) /\ Len(b) = k + 1
  BY <1>2
<1>4. \A i \in 1 .. k + 1 : a[i] = b[i]
  BY <1>2
<1> QED BY <1>1, <1>3, <1>4, SeqEqual

(* The paper path implements the tracker's specification: it is given the  *)
(* engine's trades in order, each once, with consecutive ids and balances  *)
(* that follow one another (coordinator.rs:208-212).                       *)
THEOREM Implements == Spec => LedgerKept
<1>1. Init => Pnl!Init
  <2> SUFFICES ASSUME Init PROVE Pnl!Init
    OBVIOUS
  <2>1. tracker.total = 0 /\ engine.trades = <<>>
    BY DEF Init, NewEngine, Pnl!NewTracker
  <2>2. Fed = <<>>
    BY <2>1 DEF Fed
  <2> QED BY <2>2 DEF Init, Pnl!Init
<1>2. ASSUME IInv, Trade PROVE tracker' = tracker /\ Fed' = Fed
  <2>1. Len(engine.trades) = tracker.total
    BY <1>2 DEF Trade, IInv, Shape, Follow, Pending
  <2>2. Closed(hand) \in Records /\ engine.trades \in Seq(Records)
    BY <1>2, ClosedGain DEF Trade, IInv, Shape, Engines
  <2>3. engine'.trades = Append(engine.trades, Closed(hand)) /\ tracker' = tracker
    BY <1>2 DEF Trade
  <2> QED BY <2>1, <2>2, <2>3, PrefixKept DEF Fed
<1>3. ASSUME IInv, RecordTrade PROVE Pnl!Record
  <2> DEFINE x == engine.trades[tracker.total + 1]
  <2>1. /\ Len(engine.trades) = tracker.total + 1 /\ tracker.total \in Nat
        /\ engine.trades \in Seq(Records) /\ MaxLedger \in Nat
        /\ Len(engine.trades) <= MaxLedger
    BY <1>3, EngineAssumption DEF IInv, Shape, Engines, Follow, RecordTrade
  <2>2. x \in Records /\ Last(engine.trades) = x
    BY <2>1 DEF Last
  <2>3. /\ x.net \in Results
        /\ x = Pnl!TradeOf(tracker.lastId + 1, tracker.balance, x.net)
    BY <1>3, <2>1 DEF IInv, Follow, Pending
  <2>4. tracker' = Pnl!Recorded(tracker, x) /\ engine' = engine
    BY <1>3, <2>2 DEF RecordTrade
  <2>5. tracker'.total = tracker.total + 1
    BY <2>4 DEF Pnl!Recorded
  <2>6. Fed' = Append(Fed, x)
    BY <2>1, <2>4, <2>5, PrefixGrows DEF Fed
  <2>7. Len(Fed) < MaxLedger
    BY <2>1 DEF Fed
  <2> QED BY <2>3, <2>4, <2>6, <2>7 DEF Pnl!Record
<1>4. IInv /\ [Next]_vars => [Pnl!Next]_Pnl!pnlVars
  <2> SUFFICES ASSUME IInv, [Next]_vars PROVE Pnl!Record \/ (tracker' = tracker /\ Fed' = Fed)
    BY DEF Pnl!Next, Pnl!pnlVars
  <2>1. CASE Trade
    BY <2>1, <1>2
  <2>2. CASE RecordTrade
    BY <2>2, <1>3
  <2>3. CASE Skip
    <3>1. engine'.trades = engine.trades /\ tracker' = tracker
      BY <2>3 DEF Skip, IInv, Shape
    <3> QED BY <3>1 DEF Fed
  <2>4. CASE UNCHANGED <<engine, tracker>>
    BY <2>4 DEF Fed
  <2>5. Trade \/ RecordTrade \/ Skip \/ UNCHANGED <<engine, tracker>>
    BY DEF Next, vars, CheckRejects, CheckEmits, SignalStale, Cancel, Stop,
           PrintReport, Exit, Clock
  <2> QED BY <2>1, <2>2, <2>3, <2>4, <2>5
<1> QED BY <1>1, <1>4, Inductive, PTL DEF Spec, LedgerKept, Pnl!Spec

=============================================================================
