---------------------------- MODULE Coordinator ----------------------------
(***************************************************************************)
(* src/src/execution/coordinator.rs: one Coordinator, called by the one    *)
(* detector task, and what its two awaited HTTP clients can do to it.      *)
(*                                                                         *)
(* on_signal is cut at its await points: taking a signal, the balance      *)
(* request, the two legs under tokio::join!.  Between them the chain       *)
(* advances, time passes, the venues act and the process may stop.         *)
(*                                                                         *)
(* Of the money only Binance's USDC is kept, the one balance the code      *)
(* looks at: what an order moves is the venue's choice, for both legs are  *)
(* sized by the signal's prices.  ExecuteLegs has the amounts of a trade.  *)
(***************************************************************************)
EXTENDS Integers

CONSTANTS
    MinPaperTrades,     \* config.min_paper_trades, 50 by default
    MinWinRatePct,      \* config.min_paper_win_rate_pct, 60 by default
    MaxSignalSlotAge,   \* config.max_signal_slot_age, 2 by default
    DetectorSlotAge,    \* oldest signal the detector emits, 3 by default
    LiveCooldown,       \* config.live_cooldown_ms, in ticks
    TradeSize,          \* config.trade_size_usdt
    DummyBalance,       \* what get_balances answers without credentials
    StartUsdc,          \* USDC at Binance when the process starts
    Amounts,            \* USDC an order at Binance may move
    MaxTrades,          \* bound: live trades of one behaviour
    MaxPaper,           \* bound: trades the tracker may hold
    MaxDrift            \* bound: slots counted after a detection

ASSUME ConfigAssumption ==
    /\ MinPaperTrades \in Nat \ {0}
    /\ MinWinRatePct \in Nat
    /\ MaxSignalSlotAge \in Nat /\ DetectorSlotAge \in Nat
    /\ LiveCooldown \in Nat
    /\ TradeSize \in Nat /\ DummyBalance \in Nat /\ StartUsdc \in Nat
    /\ Amounts \subseteq Nat
    /\ MaxTrades \in Nat /\ MaxPaper \in Nat /\ MaxDrift \in Nat

Ids        == 1 .. MaxTrades
Legs       == {"cex", "dex"}
Directions == {"BuyCexSellDex", "BuyDexSellCex"}

VARIABLES
    paperMode,      \* config.paper_mode, fixed at start
    clientLive,     \* per leg: does the client hold credentials?
    tracker,        \* the shared PnlTracker: trades recorded, of them won
    pc,             \* where on_signal stands
    signal,         \* the SpreadSignal in hand: direction, frozen slot age
    drift,          \* slots the chain advanced since the signal was built
    reading,        \* the balance get_balances returned
    reply,          \* per leg: what its future resolved to
    tradeCounter,
    sinceLast,      \* ticks since last_live_at, capped at LiveCooldown
    order,          \* per trade and leg: the order at the venue
    usdc,           \* the free USDC at Binance
    tradeDir,       \* history: direction of each live trade
    outcome,        \* history: what on_signal returned for each live trade
    quiet           \* history: ticks since legs last ended, capped

memory  == <<paperMode, clientLive, tracker, tradeCounter, sinceLast>>
call    == <<pc, signal, drift, reading, reply>>
venues  == <<order, usdc>>
history == <<tradeDir, outcome, quiet>>
vars    == <<memory, call, venues, history>>

NotYet     == -1    \* last_live_at is None
NoReading  == -1
BadReading == -2    \* get_balances returned an error
Elapsed    == {NotYet} \cup 0 .. LiveCooldown

NoSignal == [dir |-> "none", age |-> 0]
Signals  == [dir : Directions, age : 0 .. DetectorSlotAge]

Tracker == {t \in [total : 0 .. MaxPaper, wins : 0 .. MaxPaper] :
                t.wins <= t.total}

OrderState == {"none", "unsent", "pending", "executed", "expired", "refused"}
Outcomes   == {"none", "flying", "Filled", "cex_err", "dex_err", "aborted"}

-----------------------------------------------------------------------------
(* A buy spends up to the trade size, its quote_qty; a sale is sized in    *)
(* SOL and brings what the market pays.                                    *)
BuysOnCex(dir) == dir = "BuyCexSellDex"

Affordable(dir, amount) ==
    BuysOnCex(dir) => amount <= TradeSize /\ amount <= usdc

Settled(dir, amount) == IF BuysOnCex(dir) THEN usdc - amount ELSE usdc + amount

(* The live prerequisites, on the snapshot of the shared tracker.          *)
\* Mutant: the win rate is not looked at.
CountOnlyMet == tracker.total >= MinPaperTrades

PrerequisitesMet ==
    /\ tracker.total >= MinPaperTrades
    /\ tracker.wins * 100 >= MinWinRatePct * tracker.total

CoolingDown == sinceLast # NotYet /\ sinceLast < LiveCooldown

FreshEnough == signal.age <= MaxSignalSlotAge

(* The tracker after PnlTracker.record; won = FALSE is a trade closed       *)
(* within a cent of zero.                                                  *)
\* Mutant: the win is counted and the trade is not.
RecordedWinOnly(won) ==
    [total |-> tracker.total, wins |-> tracker.wins + (IF won THEN 1 ELSE 0)]

Recorded(won) ==
    [total |-> tracker.total + 1, wins |-> tracker.wins + (IF won THEN 1 ELSE 0)]

(* trade_counter += 1.                                                     *)
NextId == tradeCounter + 1

(* tokio::join! waits for both futures.                                    *)
\* Mutant: the first leg to resolve ends the wait.
AnyResolved == \E l \in Legs : reply[l] # "none"

\* Mutant: only successes end the wait.
BothOk == \A l \in Legs : reply[l] = "ok"

BothResolved == \A l \in Legs : reply[l] # "none"

(* What execute_both_legs makes of the two results: the first `?` returns  *)
(* on a CEX error without looking at the DEX result.                       *)
\* Mutant: the DEX result is not looked at either.
OutcomeOfCex == IF reply["cex"] = "err" THEN "cex_err" ELSE "Filled"

JoinedOutcome ==
    IF reply["cex"] = "err" THEN "cex_err"
    ELSE IF reply["dex"] = "err" THEN "dex_err" ELSE "Filled"

(* last_live_at = Some(Instant::now()) after the legs, whatever they did.  *)
\* Mutant: stamped after a filled trade only.
StampIfFilled == IF JoinedOutcome = "Filled" THEN 0 ELSE sinceLast

Stamp == 0

(* Back to the caller: the detector task leaves coordinator.lock().        *)
Return == pc' = "idle" /\ signal' = NoSignal /\ drift' = 0

-----------------------------------------------------------------------------
Init ==
    /\ paperMode \in BOOLEAN
    /\ clientLive \in IF paperMode THEN {[l \in Legs |-> FALSE]}
                                   ELSE [Legs -> BOOLEAN]
    /\ tracker \in Tracker
    /\ pc = "idle" /\ signal = NoSignal /\ drift = 0
    /\ reading = NoReading
    /\ reply = [l \in Legs |-> "none"]
    /\ tradeCounter = 0
    /\ sinceLast = NotYet
    /\ order = [i \in Ids |-> [l \in Legs |-> "none"]]
    /\ usdc = StartUsdc
    /\ tradeDir = [i \in Ids |-> "none"]
    /\ outcome = [i \in Ids |-> "none"]
    /\ quiet = NotYet

(* detector_task calls on_signal with a signal whose current_slot and      *)
(* dex_slot were copied at detection, then waits for it to return.         *)
OnSignal(s) ==
    /\ pc = "idle"
    /\ tradeCounter < MaxTrades
    /\ pc' = "gates" /\ signal' = s /\ drift' = 0
    /\ UNCHANGED <<memory, reading, reply, venues, history>>

(* CoordinatorResult::SignalStale *)
SignalStale ==
    /\ pc = "gates" /\ ~FreshEnough
    /\ Return
    /\ UNCHANGED <<memory, reading, reply, venues, history>>

(* Paper mode: PaperEngine.on_signal under its lock; a trade it returns is *)
(* recorded in the tracker before the engine is released.                  *)
PaperTrade(won) ==
    /\ pc = "gates" /\ FreshEnough /\ paperMode
    /\ tracker.total < MaxPaper
    /\ tracker' = Recorded(won)
    /\ Return
    /\ UNCHANGED <<paperMode, clientLive, tradeCounter, sinceLast,
                   reading, reply, venues, history>>

PaperSkip ==
    /\ pc = "gates" /\ FreshEnough /\ paperMode
    /\ Return
    /\ UNCHANGED <<memory, reading, reply, venues, history>>

(* CoordinatorResult::PrerequisitesNotMet *)
PrerequisitesNotMet ==
    /\ pc = "gates" /\ FreshEnough /\ ~paperMode
    /\ ~PrerequisitesMet
    /\ Return
    /\ UNCHANGED <<memory, reading, reply, venues, history>>

LiveCooldownSkip ==
    /\ pc = "gates" /\ FreshEnough /\ ~paperMode
    /\ PrerequisitesMet /\ CoolingDown
    /\ Return
    /\ UNCHANGED <<memory, reading, reply, venues, history>>

AskBalances ==
    /\ pc = "gates" /\ FreshEnough /\ ~paperMode
    /\ PrerequisitesMet /\ ~CoolingDown
    /\ pc' = "balance" /\ reading' = NoReading
    /\ UNCHANGED <<memory, signal, drift, reply, venues, history>>

(* get_balances: a client without credentials answers a dummy balance.     *)
BalancesRead(b) ==
    /\ pc = "balance" /\ reading = NoReading
    /\ b \in IF clientLive["cex"] THEN {usdc, BadReading} ELSE {DummyBalance}
    /\ reading' = b
    /\ UNCHANGED <<memory, pc, signal, drift, reply, venues, history>>

(* The request failed: LegFailed, with no leg tried.                       *)
BalanceFailed ==
    /\ pc = "balance" /\ reading = BadReading
    /\ Return /\ reading' = NoReading
    /\ UNCHANGED <<memory, reply, venues, history>>

(* CoordinatorResult::InsufficientBalance: in USDC, whatever the direction. *)
InsufficientBalance ==
    /\ pc = "balance" /\ reading \in Nat /\ reading < TradeSize
    /\ Return /\ reading' = NoReading
    /\ UNCHANGED <<memory, reply, venues, history>>

(* trade_counter += 1 and both legs' futures are polled by tokio::join!.   *)
Fire ==
    LET id == NextId IN
    /\ pc = "balance" /\ reading \in Nat /\ reading >= TradeSize
    /\ pc' = "legs" /\ reading' = NoReading
    /\ tradeCounter' = id
    /\ reply' = [l \in Legs |-> "none"]
    /\ order' = [order EXCEPT ![id] =
                   [l \in Legs |-> IF clientLive[l] THEN "pending" ELSE "unsent"]]
    /\ tradeDir' = [tradeDir EXCEPT ![id] = signal.dir]
    /\ outcome' = [outcome EXCEPT ![id] = "flying"]
    /\ UNCHANGED <<paperMode, clientLive, tracker, sinceLast, signal, drift,
                   usdc, quiet>>

(* The future of one leg resolves.  A market order that executed nothing   *)
(* parses like one that did.                                               *)
ReplyOk(leg) ==
    /\ pc = "legs" /\ reply[leg] = "none"
    /\ order[tradeCounter][leg] \in {"executed", "expired"}
    /\ reply' = [reply EXCEPT ![leg] = "ok"]
    /\ UNCHANGED <<memory, pc, signal, drift, reading, venues, history>>

ReplyErr(leg) ==
    /\ pc = "legs" /\ reply[leg] = "none"
    /\ order[tradeCounter][leg] \in {"unsent", "refused"}
    /\ reply' = [reply EXCEPT ![leg] = "err"]
    /\ UNCHANGED <<memory, pc, signal, drift, reading, venues, history>>

(* The request times out, or its answer is lost or does not parse, while   *)
(* the order stands at the venue.                                          *)
ReplyLost(leg) ==
    /\ pc = "legs" /\ reply[leg] = "none"
    /\ order[tradeCounter][leg] \in {"pending", "executed", "expired"}
    /\ reply' = [reply EXCEPT ![leg] = "err"]
    /\ UNCHANGED <<memory, pc, signal, drift, reading, venues, history>>

(* The join ends; nothing is written to the tracker.                       *)
LegsJoined ==
    /\ pc = "legs" /\ BothResolved
    /\ outcome' = [outcome EXCEPT ![tradeCounter] = JoinedOutcome]
    /\ sinceLast' = Stamp /\ quiet' = 0
    /\ Return
    /\ UNCHANGED <<paperMode, clientLive, tracker, tradeCounter,
                   reading, reply, venues, tradeDir>>

(* main gives the tasks three seconds after Ctrl+C, then the runtime drops *)
(* the on_signal future wherever it waits.                                 *)
Abort ==
    /\ pc # "dead"
    /\ pc' = "dead" /\ signal' = NoSignal /\ drift' = 0
    /\ outcome' = IF pc = "legs"
                    THEN [outcome EXCEPT ![tradeCounter] = "aborted"]
                    ELSE outcome
    /\ UNCHANGED <<memory, reading, reply, venues, tradeDir, quiet>>

-----------------------------------------------------------------------------
(* The venues, whether or not anyone still waits for the answer.           *)

ExecuteCex(id, amount) ==
    /\ order[id]["cex"] = "pending"
    /\ Affordable(tradeDir[id], amount)
    /\ order' = [order EXCEPT ![id]["cex"] = "executed"]
    /\ usdc' = Settled(tradeDir[id], amount)
    /\ UNCHANGED <<memory, call, history>>

ExecuteDex(id) ==
    /\ order[id]["dex"] = "pending"
    /\ order' = [order EXCEPT ![id]["dex"] = "executed"]
    /\ UNCHANGED <<memory, call, usdc, history>>

Refuse(id, leg) ==
    /\ order[id][leg] = "pending"
    /\ order' = [order EXCEPT ![id][leg] = "refused"]
    /\ UNCHANGED <<memory, call, usdc, history>>

(* A market order answered with no fills: the case the response parser     *)
(* gives the average price zero.                                           *)
Expire(id) ==
    /\ order[id]["cex"] = "pending"
    /\ order' = [order EXCEPT ![id]["cex"] = "expired"]
    /\ UNCHANGED <<memory, call, usdc, history>>

SlotAdvance ==
    /\ pc \in {"gates", "balance", "legs"} /\ drift < MaxDrift
    /\ drift' = drift + 1
    /\ UNCHANGED <<memory, pc, signal, reading, reply, venues, history>>

Later(t) == IF t = NotYet \/ t = LiveCooldown THEN t ELSE t + 1

Tick ==
    /\ sinceLast' = Later(sinceLast) /\ quiet' = Later(quiet)
    /\ UNCHANGED <<paperMode, clientLive, tracker, tradeCounter,
                   call, venues, tradeDir, outcome>>

-----------------------------------------------------------------------------
Gates ==
    \/ SignalStale \/ PaperSkip \/ PaperTrade(TRUE) \/ PaperTrade(FALSE)
    \/ PrerequisitesNotMet \/ LiveCooldownSkip \/ AskBalances

Balance ==
    \/ \E b \in {usdc, DummyBalance, BadReading} : BalancesRead(b)
    \/ BalanceFailed \/ InsufficientBalance
    \/ Fire

LegDone(leg) == ReplyOk(leg) \/ ReplyErr(leg) \/ ReplyLost(leg)

Venue == \E id \in Ids : \/ \E amount \in Amounts : ExecuteCex(id, amount)
                         \/ ExecuteDex(id)
                         \/ \E leg \in Legs : Refuse(id, leg)
                         \/ Expire(id)

Next ==
    \/ \E s \in Signals : OnSignal(s)
    \/ Gates
    \/ Balance
    \/ \E leg \in Legs : LegDone(leg)
    \/ LegsJoined
    \/ Abort
    \/ Venue
    \/ SlotAdvance
    \/ Tick

Spec == Init /\ [][Next]_vars

(* Both HTTP clients carry a request timeout and the RPC client gives up   *)
(* on a confirmation, so every await of on_signal ends; the task that      *)
(* holds the future is polled while the process lives.                     *)
Fairness ==
    /\ WF_vars(Gates)
    /\ WF_vars(Balance)
    /\ \A leg \in Legs : WF_vars(LegDone(leg))
    /\ WF_vars(LegsJoined)

FairSpec == Spec /\ Fairness
-----------------------------------------------------------------------------
(* Types of every variable; the only run-wide shape check of the module.   *)
TypeOK ==
    /\ paperMode \in BOOLEAN
    /\ clientLive \in [Legs -> BOOLEAN]
    /\ tracker \in Tracker
    /\ pc \in {"idle", "gates", "balance", "legs", "dead"}
    /\ signal \in Signals \cup {NoSignal}
    /\ drift \in 0 .. MaxDrift
    /\ reading \in Nat \cup {NoReading, BadReading}
    /\ reply \in [Legs -> {"none", "ok", "err"}]
    /\ tradeCounter \in 0 .. MaxTrades
    /\ sinceLast \in Elapsed /\ quiet \in Elapsed
    /\ order \in [Ids -> [Legs -> OrderState]]
    /\ usdc \in Nat
    /\ tradeDir \in [Ids -> Directions \cup {"none"}]
    /\ outcome \in [Ids -> Outcomes]

(* No order ever exists unless the process runs live, its tracker passes   *)
(* both prerequisites and the leg's client holds credentials: the gates of *)
(* on_signal cannot be overtaken by an await.                              *)
OrdersAreLicensed ==
    \A id \in Ids, leg \in Legs :
        /\ order[id][leg] # "none" =>
              /\ ~paperMode
              /\ tracker.total >= MinPaperTrades
              /\ tracker.wins * 100 >= MinWinRatePct * tracker.total
        /\ order[id][leg] \in {"pending", "executed", "expired", "refused"}
              => clientLive[leg]

(* One leg was executed and the other was not, or not yet.                 *)
OneSided(id) == (order[id]["cex"] = "executed") # (order[id]["dex"] = "executed")

(* What is known of the venues from what on_signal returned.  Filled: the  *)
(* swap landed and Binance has answered.  That is less than "both legs     *)
(* filled" (coordinator.rs:105): an order that expired counts as filled,   *)
(* and leaves the trade one-sided; nothing else does.  An error of the DEX *)
(* leg alone: Binance has answered.  A stop takes one report at most, the  *)
(* newest trade's, and no order is placed after it.                        *)
ReportMatchesVenues ==
    \A id \in Ids :
        /\ outcome[id] \in {"Filled", "dex_err"}
              => order[id]["cex"] \in {"executed", "expired"}
        /\ outcome[id] = "Filled" =>
              /\ order[id]["dex"] = "executed"
              /\ OneSided(id) <=> order[id]["cex"] = "expired"
        /\ outcome[id] \in {"flying", "aborted"} => id = tradeCounter
        /\ outcome[id] = "aborted" => pc = "dead"

(* Trades are strictly one after another: ids are handed out in order, and *)
(* only the newest can still be awaited, and only while on_signal is in    *)
(* its join.                                                               *)
TradesAreSequential ==
    \A id \in Ids :
        /\ outcome[id] = "none" <=> id > tradeCounter
        /\ outcome[id] = "flying" <=> (pc = "legs" /\ id = tradeCounter)
        /\ \A leg \in Legs : order[id][leg] = "none" <=> id > tradeCounter

(* The balance that lets a trade through can only be too high when the     *)
(* answer to an earlier Binance order was lost and that order filled after *)
(* all: no other path lets money leave between the check and the order.    *)
StaleBalanceNeedsLostReply ==
    (pc = "balance" /\ clientLive["cex"] /\ reading > usdc)
        => \E id \in Ids : /\ outcome[id] = "cex_err" /\ order[id]["cex"] = "executed"
                          /\ BuysOnCex(tradeDir[id])

(* The inductive strengthening: what the awaits of one call leave true for *)
(* its later steps.  The cooldown and the prerequisites still hold when    *)
(* the balance arrives, the newest id is the one awaited, an Ok came from  *)
(* a venue that answered, and only a stopped process leaves "aborted".     *)
CallCoherent ==
    /\ sinceLast = quiet
    /\ pc \in {"gates", "balance"} => tradeCounter < MaxTrades
    /\ pc = "balance" => ~CoolingDown /\ ~paperMode /\ PrerequisitesMet
    /\ pc = "legs" =>
          /\ tradeCounter \in Ids
          /\ \A leg \in Legs : reply[leg] = "ok" =>
                order[tradeCounter][leg] \in {"executed", "expired"}
    /\ \A id \in Ids :
          /\ order[id]["dex"] # "expired"
          /\ outcome[id] = "aborted" => pc = "dead"

Safe == /\ TypeOK /\ CallCoherent /\ OrdersAreLicensed /\ ReportMatchesVenues
        /\ TradesAreSequential /\ StaleBalanceNeedsLostReply

(* Two live trades are at least live_cooldown_ms apart, counted from the   *)
(* end of the earlier one's legs, whether that one filled or failed.       *)
Fires == pc = "balance" /\ pc' = "legs"

LiveSpacing == [][Fires => (quiet = NotYet \/ quiet >= LiveCooldown)]_vars

(* Every call of on_signal returns, so coordinator.lock() is released and  *)
(* the detector ticks again, unless the process stops.                     *)
SignalResolved == pc \in {"gates", "balance", "legs"} ~> pc \in {"idle", "dead"}

-----------------------------------------------------------------------------
(* Claims of the documentation that the code does not keep.                *)

(* coordinator.rs:12-13: any leg failed leads to Recovery, which flattens; *)
(* a failed call would then leave no one-sided position behind it.         *)
FailedLegIsFlattened ==
    \A id \in Ids : outcome[id] \in {"cex_err", "dex_err"} =>
        ~(OneSided(id) /\ \A leg \in Legs : order[id][leg] # "pending")

(* coordinator.rs:74: reject if the DEX price is stale by the time the     *)
(* signal gets here; the age that counts is the one when the legs fire.    *)
FreshAtExecution == [][Fires => signal.age + drift <= MaxSignalSlotAge]_vars
=============================================================================
