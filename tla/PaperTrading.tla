---------------------------- MODULE PaperTrading ----------------------------
(***************************************************************************)
(* The paper path: detector task, coordinator in paper mode, PaperEngine   *)
(* (src/src/paper/paper_engine.rs) and PnlTracker, from a snapshot to the  *)
(* report main prints after Ctrl+C.                                        *)
(*                                                                         *)
(* The detector task awaits a lock between the detection and the trade,    *)
(* and between the trade and its entry in the tracker; there the clock     *)
(* moves, the user interrupts, and the runtime may drop the task.          *)
(***************************************************************************)
EXTENDS SpreadDetector, Sequences, SequencesExt

CONSTANTS
    Initial,        \* INITIAL_BALANCE of engine and tracker
    HalfSpread,     \* cex_spread_fraction / 2
    Cent,           \* half width of TradeOutcome::Breakeven
    Infinity,       \* f64::INFINITY of the tracker
    CoordinatorAge, \* max_signal_slot_age of CoordinatorConfig
    MaxLedger       \* bound: trades of one behaviour

ASSUME EngineAssumption ==
    /\ {Initial, HalfSpread, Cent, Infinity, CoordinatorAge, MaxLedger} \subseteq Nat
    /\ HalfSpread < Unit

VARIABLES
    pc,         \* the detector task
    hand,       \* the signal in hand, the snapshot it was built from
    engine,     \* PaperEngine: balance, trades, skipped
    stale,      \* signals the coordinator's freshness gate dropped
    tracker,    \* PnlTracker
    ending,     \* main: "running", "cancelled", "reported"
    report      \* what main printed, and whether the task had stopped

vars == <<detectorVars, pc, hand, engine, stale, tracker, ending, report>>

(* The configurations main builds: live_trade's is the default one but for *)
(* the size; the demo's threshold comes from MIN_NET_SPREAD_PCT, and so    *)
(* does its largest believable gap.                                        *)
Unset == 0

LiveSetup(size) ==
    [binary |-> "live_trade", size |-> size, minProfit |-> 1000,
     minNet |-> 150, maxSpread |-> 2000]

DemoSetup(min, size) ==
    [binary |-> "paper_trade", size |-> size, minProfit |-> 500,
     minNet    |-> IF min = Unset THEN 150 ELSE min,
     maxSpread |-> IF min = Unset THEN 2000 ELSE min]

Nothing == [total |-> -1, complete |-> FALSE]

-----------------------------------------------------------------------------
(* PaperEngine: fills, in price times Unit, and the result of a trade.     *)

NewEngine == [balance |-> Initial, trades |-> <<>>, skipped |-> 0]

CexFill(s) == s.cex * (IF BuyOnCex(s) THEN Unit + HalfSpread ELSE Unit - HalfSpread)

DexFill(s, size) ==
    s.dex * (IF BuyOnCex(s) THEN Unit - Impact(s, size) ELSE Unit + Impact(s, size))

GrossRate(s, size) ==
    LET buy  == IF BuyOnCex(s) THEN CexFill(s) ELSE DexFill(s, size)
        sell == IF BuyOnCex(s) THEN DexFill(s, size) ELSE CexFill(s)
    IN (sell - buy) \div (buy \div Unit)

(* The fill prices hold the slippage already; it is charged once more.     *)
NetRate(s, size) == GrossRate(s, size) - Fees(s) - HalfSpread - Impact(s, size)

NetAt(s, size) == Money(NetRate(s, size), size)

FillNet(s) == NetAt(s, setup.size)

Results == {NetAt(s, c.size) : s \in Snaps, c \in Setups}

(* The engine's trades as far as the tracker has them.                     *)
Fed == SubSeq(engine.trades, 1, tracker.total)

Pnl == INSTANCE PnlTracker WITH Nets <- Results, ledger <- Fed

(* Gate 3: what must be positive for the trade to open.                    *)
\* Mutant: the gross result.
PositiveGross(s) == GrossRate(s, setup.size) > 0

Positive(s) == FillNet(s) > 0

Funded == engine.balance >= setup.size * 10000

(* close_trade: the record carries the balance after the trade.            *)
\* Mutant: the balance before it.
ClosedBefore(s) ==
    [id |-> Len(engine.trades) + 1, net |-> FillNet(s),
     after |-> engine.balance, outcome |-> Pnl!FromPnl(FillNet(s))]

\* Mutant: ids start at zero.
ClosedFromZero(s) ==
    [id |-> Len(engine.trades), net |-> FillNet(s),
     after |-> engine.balance + FillNet(s), outcome |-> Pnl!FromPnl(FillNet(s))]

Closed(s) ==
    [id |-> Len(engine.trades) + 1, net |-> FillNet(s),
     after |-> engine.balance + FillNet(s), outcome |-> Pnl!FromPnl(FillNet(s))]

(* Both early returns count the signal.                                    *)
\* Mutant: the balance check does not.
SkippedFilled == engine.skipped + (IF Funded THEN 1 ELSE 0)

SkippedNow == engine.skipped + 1

(* live_trade hands the signal to the coordinator, which tests its age     *)
(* again; the demo calls the engine itself.                                *)
FreshEnough(s) == setup.binary = "live_trade" => s.age <= CoordinatorAge

(* select! sees the cancellation between two ticks only.                   *)
\* Mutant: at any await.
AtAnyAwait == pc \in {"idle", "record"}

AtTick == pc = "idle"

-----------------------------------------------------------------------------
Init ==
    /\ DetectorInit
    /\ pc = "idle" /\ hand \in {CHOOSE s \in Snaps : TRUE}
    /\ engine = NewEngine
    /\ stale = 0
    /\ tracker = Pnl!NewTracker
    /\ ending = "running" /\ report = Nothing

CheckRejects(s) ==
    /\ pc = "idle" /\ Reject(s)
    /\ UNCHANGED <<pc, hand, engine, stale, tracker, ending, report>>

CheckEmits(s) ==
    /\ pc = "idle" /\ Emit(s)
    /\ pc' = "signal" /\ hand' = s
    /\ UNCHANGED <<engine, stale, tracker, ending, report>>

(* CoordinatorResult::SignalStale; the detector's cooldown runs all the    *)
(* same.                                                                   *)
SignalStale ==
    /\ pc = "signal" /\ ~FreshEnough(hand)
    /\ pc' = "idle" /\ stale' = stale + 1
    /\ UNCHANGED <<detectorVars, hand, engine, tracker, ending, report>>

(* SkipReason::InsufficientBalance and NegativeAfterFills.                 *)
Skip ==
    /\ pc = "signal" /\ FreshEnough(hand)
    /\ ~Funded \/ ~Positive(hand)
    /\ pc' = "idle" /\ engine' = [engine EXCEPT !.skipped = SkippedNow]
    /\ UNCHANGED <<detectorVars, hand, stale, tracker, ending, report>>

(* PaperEngine::on_signal opens and closes the trade in one call.          *)
Trade ==
    /\ pc = "signal" /\ FreshEnough(hand)
    /\ Funded /\ Positive(hand)
    /\ Len(engine.trades) < MaxLedger
    /\ pc' = "record"
    /\ engine' = [balance |-> engine.balance + FillNet(hand),
                  trades  |-> Append(engine.trades, Closed(hand)),
                  skipped |-> engine.skipped]
    /\ UNCHANGED <<detectorVars, hand, stale, tracker, ending, report>>

(* The tracker's lock is granted.                                          *)
RecordTrade ==
    /\ pc = "record"
    /\ pc' = "idle" /\ tracker' = Pnl!Recorded(tracker, Last(engine.trades))
    /\ UNCHANGED <<detectorVars, hand, engine, stale, ending, report>>

(* Ctrl+C.                                                                 *)
Cancel ==
    /\ ending = "running" /\ ending' = "cancelled"
    /\ UNCHANGED <<detectorVars, pc, hand, engine, stale, tracker, report>>

Stop ==
    /\ ending # "running" /\ AtTick
    /\ pc' = "stopped"
    /\ UNCHANGED <<detectorVars, hand, engine, stale, tracker, ending, report>>

(* The join ends, or its timeout does, and main prints the tracker.        *)
PrintReport ==
    /\ ending = "cancelled" /\ ending' = "reported"
    /\ report' = [total |-> tracker.total, complete |-> pc = "stopped"]
    /\ UNCHANGED <<detectorVars, pc, hand, engine, stale, tracker>>

(* main returns and the runtime drops the task wherever it waits.          *)
Exit ==
    /\ ending = "reported" /\ pc # "dead" /\ pc' = "dead"
    /\ UNCHANGED <<detectorVars, hand, engine, stale, tracker, ending, report>>

Clock ==
    /\ pc # "dead" /\ (Tick \/ StepBack)
    /\ UNCHANGED <<pc, hand, engine, stale, tracker, ending, report>>

Next ==
    \/ \E s \in Snaps : CheckRejects(s) \/ CheckEmits(s)
    \/ SignalStale \/ Skip \/ Trade \/ RecordTrade
    \/ Cancel \/ Stop \/ PrintReport \/ Exit
    \/ Clock

Spec == Init /\ [][Next]_vars
-----------------------------------------------------------------------------
TypeOK ==
    /\ DetectorTypeOK
    /\ pc \in {"idle", "signal", "record", "stopped", "dead"}
    /\ hand \in Snaps
    /\ engine.balance \in Nat /\ engine.skipped \in 0 .. MaxChecks
    /\ engine.trades \in Seq([id : 1 .. MaxLedger, net : Int, after : Nat,
                              outcome : Pnl!Outcomes])
    /\ stale \in 0 .. MaxChecks
    /\ tracker.total \in 0 .. MaxLedger
    /\ ending \in {"running", "cancelled", "reported"}
    /\ report.total \in -1 .. MaxLedger /\ report.complete \in BOOLEAN

InFlight == IF pc = "signal" THEN 1 ELSE 0

(* Every check ends as a rejection, a stale signal, a skip or a trade, but *)
(* the one whose signal is in hand or died with the process.               *)
ChecksAccountedFor ==
    LET ended == Rejections + stale + engine.skipped + Len(engine.trades)
    IN  /\ pc # "dead" => count["checks"] = ended + InFlight
        /\ count["checks"] - ended \in {0, 1}
        /\ count["checks"] = count["signals"] + Rejections

(* The tracker misses at most the engine's last trade, and that only while *)
(* the entry waits for the lock or when the process died there.            *)
TrackerFollowsEngine ==
    LET behind == Len(engine.trades) - tracker.total
    IN  /\ behind \in {0, 1}
        /\ behind = 1 => pc \in {"record", "dead"}
        /\ behind = 0 => tracker.balance = engine.balance

(* The engine opens no trade that loses, so a paper history shows neither  *)
(* a loss nor a drawdown: only breakevens hold the win rate under 100 %.   *)
PaperNeverLoses ==
    /\ tracker.losses = 0 /\ tracker.drawdown = 0
    /\ tracker.balance = tracker.peak /\ engine.balance >= tracker.balance

(* When the detector task stopped in time, the final report has every      *)
(* trade the engine made.                                                  *)
ReportIsComplete == report.complete => report.total = Len(engine.trades)

(* The tracker is a PnlTracker fed the engine's trades in order, each      *)
(* once, with ids and balances that follow one another.                    *)
LedgerKept == Pnl!Spec

-----------------------------------------------------------------------------
Believable == 2000

(* paper_trade.rs:20: MIN_NET_SPREAD_PCT is the signal threshold after     *)
(* fees.  A fresh, liquid gap that nets it and is believable at 2 % is     *)
(* never rejected for its spread.                                          *)
PayingGapSignals ==
    [][\A s \in Snaps :
          CheckRejects(s) /\ Verdict(s) = "spread"
              => NetSpread(s) < setup.minNet \/ SpreadAbs(s) > Believable]_vars
=============================================================================
