----------------------------- MODULE PnlTracker -----------------------------
(***************************************************************************)
(* src/src/paper/pnl_tracker.rs: record() keeps every statistic in O(1),   *)
(* without the trades.  The ledger is the list of trades it was given; the *)
(* properties say what each statistic is of that list.                     *)
(*                                                                         *)
(* Money is an integer; Cent is the band of TradeOutcome::Breakeven.  The  *)
(* fee and slippage sums and the Welford moments are left out.             *)
(***************************************************************************)
EXTENDS Integers, Sequences, FiniteSetsExt, SequencesExt

CONSTANTS
    Initial,        \* initial_balance
    Nets,           \* net results a trade may have
    Cent,           \* 0.01 in the code
    Infinity,       \* stands for f64::INFINITY, above every net
    MaxLedger       \* bound: trades between two resets

ASSUME TrackerAssumption ==
    /\ Initial \in Int /\ Nets \subseteq Int /\ Cent \in Nat
    /\ Infinity \in Nat /\ \A n \in Nets : -Infinity < n /\ n < Infinity
    /\ MaxLedger \in Nat

VARIABLES tracker, ledger
pnlVars == <<tracker, ledger>>

Outcomes == {"Win", "Loss", "Breakeven"}

(* TradeOutcome::from_pnl                                                  *)
FromPnl(net) ==
    IF net > Cent THEN "Win" ELSE IF net < -Cent THEN "Loss" ELSE "Breakeven"

NewTracker ==
    [total |-> 0, wins |-> 0, losses |-> 0, breakevens |-> 0,
     pnl |-> 0, grossWins |-> 0, grossLosses |-> 0,
     best |-> -Infinity, worst |-> Infinity,
     peak |-> Initial, drawdown |-> 0,
     winRun |-> 0, lossRun |-> 0, maxWinRun |-> 0, maxLossRun |-> 0,
     lastId |-> 0, lastNet |-> 0, balance |-> Initial]

Larger(a, b)  == IF a > b THEN a ELSE b
Smaller(a, b) == IF a < b THEN a ELSE b

(* The streak counters: each outcome ends the other's run, a breakeven     *)
(* ends both.                                                              *)
\* Mutant: a breakeven leaves both runs alone.
RunKept(run, mine, outcome) ==
    IF outcome = mine THEN run + 1 ELSE IF outcome = "Breakeven" THEN run ELSE 0

\* Mutant: another outcome takes one from the run instead of ending it.
RunWorn(run, mine, outcome) == IF outcome = mine THEN run + 1 ELSE run - 1

RunAfter(run, mine, outcome) == IF outcome = mine THEN run + 1 ELSE 0

(* The peak the drawdown is measured from.                                 *)
\* Mutant: the balance before this trade.
PeakBefore(t, after) == Larger(t.balance, after)

PeakAfter(t, after) == Larger(t.peak, after)

(* Sums by sign of outcome.                                                *)
LossAdded(sum, trade) == IF trade.outcome = "Loss" THEN sum + trade.net ELSE sum

(* best_trade and worst_trade.                                             *)
WorstAfter(t, net) == Smaller(t.worst, net)

Count(n, o, outcome) == IF outcome = o THEN n + 1 ELSE n

(* The tracker after record(trade).                                        *)
Recorded(t, trade) ==
    LET won  == RunAfter(t.winRun, "Win", trade.outcome)
        lost == RunAfter(t.lossRun, "Loss", trade.outcome)
        peak == PeakAfter(t, trade.after)
    IN [total |-> t.total + 1,
        wins |-> Count(t.wins, "Win", trade.outcome),
        losses |-> Count(t.losses, "Loss", trade.outcome),
        breakevens |-> Count(t.breakevens, "Breakeven", trade.outcome),
        pnl |-> t.pnl + trade.net,
        grossWins |-> IF trade.outcome = "Win" THEN t.grossWins + trade.net ELSE t.grossWins,
        grossLosses |-> LossAdded(t.grossLosses, trade),
        best |-> Larger(t.best, trade.net), worst |-> WorstAfter(t, trade.net),
        peak |-> peak, drawdown |-> Larger(t.drawdown, peak - trade.after),
        winRun |-> won, lossRun |-> lost,
        maxWinRun |-> Larger(t.maxWinRun, won), maxLossRun |-> Larger(t.maxLossRun, lost),
        lastId |-> trade.id, lastNet |-> trade.net, balance |-> trade.after]

(* A mean or a percentage, rounded down; the code answers 0 without trades. *)
Share(sum, n) == IF n > 0 THEN sum \div n ELSE 0

Cap == 999      \* profit_factor without losses

(* snapshot(), but for the Sharpe ratio and the clock.                     *)
Snapshot(t) ==
    [total |-> t.total, wins |-> t.wins, losses |-> t.losses,
     winPct |-> Share(t.wins * 100, t.total), pnl |-> t.pnl,
     avgWin |-> Share(t.grossWins, t.wins), avgLoss |-> Share(t.grossLosses, t.losses),
     best |-> IF t.total > 0 THEN t.best ELSE 0,
     worst |-> IF t.total > 0 THEN t.worst ELSE 0,
     profitFactor |-> IF t.grossLosses < 0
                        THEN Smaller(Share(t.grossWins, -t.grossLosses), Cap)
                        ELSE IF t.grossWins > 0 THEN Cap ELSE 0,
     expectancy |-> Share(t.pnl, t.total), drawdown |-> t.drawdown,
     balance |-> t.balance, returnPct |-> Share((t.balance - Initial) * 100, Initial)]

(* PaperEngine::stats() answers the same questions from the trades.        *)
Fallen(walk, trade) ==
    LET peak == Larger(walk.peak, trade.after)
    IN [peak |-> peak, fall |-> Larger(walk.fall, peak - trade.after)]

EngineStats(trades) ==
    LET total == Len(trades)
        nets  == {trades[i].net : i \in DOMAIN trades}
        Number(o) == Cardinality({i \in DOMAIN trades : trades[i].outcome = o})
    IN [total |-> total, wins |-> Number("Win"), losses |-> Number("Loss"),
        winPct |-> Share(Number("Win") * 100, total),
        pnl |-> SumFunction([i \in DOMAIN trades |-> trades[i].net]),
        best |-> IF total > 0 THEN Max(nets) ELSE 0,
        worst |-> IF total > 0 THEN Min(nets) ELSE 0,
        drawdown |-> FoldLeft(Fallen, [peak |-> Initial, fall |-> 0], trades).fall,
        balance |-> IF total > 0 THEN trades[total].after ELSE Initial]

-----------------------------------------------------------------------------
Init == tracker = NewTracker /\ ledger = <<>>

(* A TradeRecord as the engine makes them: the net moves the balance.      *)
TradeOf(id, balance, net) ==
    [id |-> id, net |-> net, after |-> balance + net, outcome |-> FromPnl(net)]

Record ==
    /\ Len(ledger) < MaxLedger
    /\ \E net \in Nets :
          LET trade == TradeOf(tracker.lastId + 1, tracker.balance, net) IN
          /\ tracker' = Recorded(tracker, trade)
          /\ ledger' = Append(ledger, trade)

(* reset(): everything but the initial balance.                            *)
Reset == tracker' = NewTracker /\ ledger' = <<>>

Next == Record \/ Reset

Spec == Init /\ [][Next]_pnlVars

-----------------------------------------------------------------------------
Trades == DOMAIN ledger
Points == 0 .. Len(ledger)

BalanceAt(list, i) == IF i = 0 THEN Initial ELSE list[i].after

Of(outcome) == {i \in Trades : ledger[i].outcome = outcome}

NetOf(i) == ledger[i].net

(* Shape of the tracker.                                                   *)
TypeOK ==
    /\ \A f \in {"total", "wins", "losses", "breakevens", "winRun", "lossRun",
                 "maxWinRun", "maxLossRun", "lastId", "drawdown"} : tracker[f] \in Nat
    /\ \A f \in {"pnl", "grossWins", "grossLosses", "best", "worst", "peak",
                 "lastNet", "balance"} : tracker[f] \in Int

(* The counters the win rate is made of: each trade is in one class, and   *)
(* the classes are those of the results themselves.                        *)
CountsAddUp ==
    /\ tracker.total = Len(ledger)
    /\ tracker.wins = Cardinality({i \in Trades : NetOf(i) > Cent})
    /\ tracker.losses = Cardinality({i \in Trades : NetOf(i) < -Cent})
    /\ tracker.total = tracker.wins + tracker.losses + tracker.breakevens

(* Net, gross wins and gross losses are the sums over the trades, and the  *)
(* net is what the balance moved by.                                       *)
MoneyAddsUp ==
    /\ tracker.pnl = tracker.balance - Initial
    /\ tracker.grossWins = SumFunctionOnSet([i \in Trades |-> NetOf(i)], Of("Win"))
    /\ tracker.grossLosses = SumFunctionOnSet([i \in Trades |-> NetOf(i)], Of("Loss"))

(* A run of k trades of one outcome that starts after trade i.             *)
RunOf(i, k, o) == i + k <= Len(ledger) /\ \A j \in i + 1 .. i + k : ledger[j].outcome = o

(* The current streaks are the longest runs that end the ledger, and the   *)
(* maxima the longest anywhere in it.                                      *)
StreaksAreRuns ==
    LET Current(o, k) == /\ RunOf(Len(ledger) - k, k, o)
                         /\ k = Len(ledger) \/ ~RunOf(Len(ledger) - k - 1, k + 1, o)
        Longest(o, k) == /\ \E i \in Points : RunOf(i, k, o)
                         /\ ~\E i \in Points : RunOf(i, k + 1, o)
    IN  /\ Current("Win", tracker.winRun) /\ Current("Loss", tracker.lossRun)
        /\ Longest("Win", tracker.maxWinRun) /\ Longest("Loss", tracker.maxLossRun)

(* max_drawdown is the deepest fall of the balance from any earlier one,   *)
(* the initial balance included.                                           *)
DrawdownIsDeepestFall ==
    LET Fall(i, j) == BalanceAt(ledger, i) - BalanceAt(ledger, j)
    IN  /\ \E i, j \in Points : i <= j /\ tracker.drawdown = Fall(i, j)
        /\ \A i, j \in Points : i <= j => Fall(i, j) <= tracker.drawdown

(* best_trade and worst_trade bound the results and are two of them.       *)
ExtremesAreTrades ==
    ledger # <<>> =>
        LET nets == {NetOf(i) : i \in Trades}
        IN  /\ tracker.best \in nets /\ tracker.worst \in nets
            /\ \A n \in nets : tracker.worst <= n /\ n <= tracker.best

(* What a snapshot derives says what the trades say: it agrees with the    *)
(* engine's statistics, its means lie between the trades they are means    *)
(* of, and a profit factor without losses is the cap.                      *)
SnapshotIsSound ==
    LET s == Snapshot(tracker)
        e == EngineStats(ledger)
    IN  /\ \A f \in DOMAIN e : e[f] = s[f]
        /\ ledger # <<>> => s.worst <= s.expectancy /\ s.expectancy <= s.best
        /\ s.wins > 0 => Cent < s.avgWin /\ s.avgWin <= s.best
        /\ s.losses > 0 => s.worst <= s.avgLoss /\ s.avgLoss < -Cent
        /\ s.wins > 0 /\ s.losses = 0 => s.profitFactor = Cap

(* Every statistic kept in O(1), and every one derived from it, is what it *)
(* claims to be of the list of trades.                                     *)
StatisticsAreTrue ==
    CountsAddUp /\ MoneyAddsUp /\ StreaksAreRuns /\ ExtremesAreTrades /\ SnapshotIsSound

(* Between resets the drawdown and the longest runs are never forgotten.   *)
RecordsStand ==
    [][ledger' # <<>> => /\ tracker'.drawdown >= tracker.drawdown
                         /\ tracker'.maxWinRun >= tracker.maxWinRun
                         /\ tracker'.peak >= tracker.peak]_pnlVars
=============================================================================
