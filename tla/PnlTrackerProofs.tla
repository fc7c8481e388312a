-------------------------- MODULE PnlTrackerProofs --------------------------
(***************************************************************************)
(* Theorems of PnlTracker for every initial balance, every set of results  *)
(* and ledgers of any length: what record() keeps in O(1) is true of the   *)
(* whole list of trades. Drawdown, extremes and streaks come first, then   *)
(* the counters and sums, the walk over the list that stats() would make,  *)
(* and the bounds from which the means and the profit factor follow.       *)
(***************************************************************************)
EXTENDS PnlTracker, FoldLemmas, SequenceTheorems, TLAPS

Records == [id : Nat, net : Int, after : Int, outcome : Outcomes]

(* The list is one of trades, and the balance is the last one's.           *)
Base ==
    /\ TypeOK /\ ledger \in Seq(Records)
    /\ tracker.balance = BalanceAt(ledger, Len(ledger))

(* peak_balance is the highest balance so far.                             *)
PeakIsHighest ==
    /\ \E i \in Points : tracker.peak = BalanceAt(ledger, i)
    /\ \A i \in Points : BalanceAt(ledger, i) <= tracker.peak

FallInv == Base /\ PeakIsHighest /\ DrawdownIsDeepestFall

-----------------------------------------------------------------------------
(* A new tracker is that of an empty list.                                 *)
LEMMA BaseInit == Init => Base
<1> SUFFICES ASSUME Init PROVE Base
  OBVIOUS
<1> QED
  BY TrackerAssumption DEF Init, NewTracker, Base, TypeOK, BalanceAt

(* What record() does to the list.                                         *)
LEMMA RecordStep ==
    ASSUME Base, Record
    PROVE  \E trade \in Records :
              /\ tracker' = Recorded(tracker, trade)
              /\ ledger' = Append(ledger, trade)
              /\ trade.net \in Nets /\ trade.outcome = FromPnl(trade.net)
              /\ trade.after = tracker.balance + trade.net
              /\ trade.id = tracker.lastId + 1
<1>1. PICK net \in Nets :
         /\ tracker' = Recorded(tracker, TradeOf(tracker.lastId + 1, tracker.balance, net))
         /\ ledger' = Append(ledger, TradeOf(tracker.lastId + 1, tracker.balance, net))
  BY DEF Record
<1> DEFINE trade == TradeOf(tracker.lastId + 1, tracker.balance, net)
<1>2. net \in Int /\ tracker.lastId \in Nat /\ tracker.balance \in Int
  BY TrackerAssumption DEF Base, TypeOK
<1>3. FromPnl(net) \in Outcomes
  BY DEF FromPnl, Outcomes
<1>4. trade \in Records
  BY <1>2, <1>3 DEF TradeOf, Records
<1> QED BY <1>1, <1>2, <1>4 DEF TradeOf

(* The older points keep their balances, the new one has the trade's.      *)
LEMMA BalancesKept ==
    ASSUME Base, NEW trade \in Records, ledger' = Append(ledger, trade)
    PROVE  /\ Len(ledger) \in Nat /\ Len(ledger)' = Len(ledger) + 1
           /\ ledger' \in Seq(Records)
           /\ Points' = Points \cup {Len(ledger) + 1}
           /\ \A i \in Points : BalanceAt(ledger', i) = BalanceAt(ledger, i) /\ BalanceAt(ledger, i) \in Int
           /\ BalanceAt(ledger', Len(ledger) + 1) = trade.after
           /\ \A i \in 1 .. Len(ledger) : ledger'[i] = ledger[i]
           /\ ledger'[Len(ledger) + 1] = trade
<1>1. /\ ledger \in Seq(Records) /\ Len(ledger) \in Nat /\ Initial \in Int
  BY TrackerAssumption DEF Base
<1>2. /\ Len(ledger') = Len(ledger) + 1
      /\ \A i \in 1 .. Len(ledger) : ledger'[i] = ledger[i]
      /\ ledger'[Len(ledger) + 1] = trade
  BY <1>1
<1>3. Points' = Points \cup {Len(ledger) + 1}
  BY <1>1, <1>2 DEF Points
<1>4. \A i \in 1 .. Len(ledger) : ledger[i].after \in Int
  <2>1. \A i \in 1 .. Len(ledger) : ledger[i] \in Records
    BY <1>1
  <2> QED BY <2>1 DEF Records
<1>5. \A i \in Points : BalanceAt(ledger', i) = BalanceAt(ledger, i) /\ BalanceAt(ledger, i) \in Int
  BY <1>1, <1>2, <1>4 DEF Points, BalanceAt
<1>6. BalanceAt(ledger', Len(ledger) + 1) = trade.after
  BY <1>1, <1>2 DEF BalanceAt
<1>7. ledger' \in Seq(Records) /\ Len(ledger)' = Len(ledger) + 1
  BY <1>1, <1>2
<1> QED BY <1>1, <1>2, <1>3, <1>5, <1>6, <1>7

(* record() keeps the types.                                               *)
LEMMA TypeStep ==
    ASSUME TypeOK, NEW trade \in Records, tracker' = Recorded(tracker, trade)
    PROVE  TypeOK'
<1>1. trade.net \in Int /\ trade.after \in Int /\ trade.id \in Nat
  BY DEF Records
<1>2. /\ tracker.total \in Nat /\ tracker.wins \in Nat /\ tracker.losses \in Nat
      /\ tracker.breakevens \in Nat /\ tracker.winRun \in Nat /\ tracker.lossRun \in Nat
      /\ tracker.maxWinRun \in Nat /\ tracker.maxLossRun \in Nat /\ tracker.drawdown \in Nat
      /\ tracker.pnl \in Int /\ tracker.grossWins \in Int /\ tracker.grossLosses \in Int
      /\ tracker.best \in Int /\ tracker.worst \in Int /\ tracker.peak \in Int
  BY DEF TypeOK
<1> QED
  BY <1>1, <1>2
  DEF TypeOK, Recorded, Larger, Smaller, Count, RunAfter, PeakAfter, WorstAfter, LossAdded

(* Recording a trade or resetting keeps the list one of trades.            *)
LEMMA BaseStep == ASSUME Base, [Next]_pnlVars PROVE Base'
<1>1. CASE Record
  <2>1. PICK trade \in Records :
           /\ tracker' = Recorded(tracker, trade) /\ ledger' = Append(ledger, trade)
    BY <1>1, RecordStep
  <2>2. TypeOK'
    BY <2>1, TypeStep DEF Base
  <2>3. ledger' \in Seq(Records) /\ BalanceAt(ledger', Len(ledger')) = trade.after
    BY <2>1, BalancesKept
  <2>4. tracker'.balance = trade.after
    BY <2>1 DEF Recorded
  <2> QED BY <2>2, <2>3, <2>4 DEF Base
<1>2. CASE Reset
  <2>1. (tracker = NewTracker /\ ledger = <<>>)'
    BY <1>2 DEF Reset
  <2> QED
    BY <2>1, TrackerAssumption DEF NewTracker, Base, TypeOK, BalanceAt
<1>3. CASE UNCHANGED pnlVars
  BY <1>3 DEF pnlVars, Base, TypeOK, BalanceAt
<1> QED BY <1>1, <1>2, <1>3 DEF Next

(* Every variable keeps its type.                                          *)
THEOREM TypeCorrect == Spec => []TypeOK
<1>1. Base => TypeOK
  BY DEF Base
<1> QED BY <1>1, BaseInit, BaseStep, PTL DEF Spec

-----------------------------------------------------------------------------
(* With no trade the peak is the initial balance and nothing has fallen.   *)
LEMMA FreshFalls ==
    ASSUME tracker = NewTracker, ledger = <<>>, Base
    PROVE  PeakIsHighest /\ DrawdownIsDeepestFall
<1>1. Points = {0} /\ BalanceAt(ledger, 0) = Initial /\ Initial \in Int
  BY TrackerAssumption DEF Points, BalanceAt
<1>2. tracker.peak = Initial /\ tracker.drawdown = 0
  BY DEF NewTracker
<1> QED BY <1>1, <1>2 DEF PeakIsHighest, DrawdownIsDeepestFall

(* Recording a trade or resetting keeps peak and drawdown true.            *)
LEMMA FallStep == ASSUME FallInv, [Next]_pnlVars PROVE FallInv'
<1>1. Base'
  BY BaseStep DEF FallInv
<1>2. CASE Record
  <2>1. PICK trade \in Records :
           /\ tracker' = Recorded(tracker, trade) /\ ledger' = Append(ledger, trade)
    BY <1>2, RecordStep DEF FallInv
  <2> DEFINE n == Len(ledger)  m == n + 1
  <2>2. /\ n \in Nat /\ Points' = Points \cup {m}
        /\ \A i \in Points : BalanceAt(ledger', i) = BalanceAt(ledger, i) /\ BalanceAt(ledger, i) \in Int
        /\ BalanceAt(ledger', m) = trade.after /\ trade.after \in Int
    BY <2>1, BalancesKept DEF FallInv, Records
  <2>3. /\ tracker.peak \in Int /\ tracker.drawdown \in Nat
        /\ tracker'.peak = Larger(tracker.peak, trade.after)
        /\ tracker'.drawdown = Larger(tracker.drawdown, tracker'.peak - trade.after)
    BY <2>1 DEF FallInv, Base, TypeOK, Recorded, PeakAfter
  <2>4. \A i \in Points : i \in Nat /\ i < m
    BY <2>2 DEF Points
  <2>5. PICK p \in Points : tracker.peak = BalanceAt(ledger, p)
    BY DEF FallInv, PeakIsHighest
  <2>6. \A i \in Points : BalanceAt(ledger, i) <= tracker.peak
    BY DEF FallInv, PeakIsHighest
  <2> HIDE DEF n, m
  <2>7. PeakIsHighest'
    <3>1. \A i \in Points' : BalanceAt(ledger', i) <= tracker'.peak
      BY <2>2, <2>3, <2>6 DEF Larger
    <3>2. \E i \in Points' : tracker'.peak = BalanceAt(ledger', i)
      BY <2>2, <2>3, <2>5 DEF Larger
    <3> QED BY <3>1, <3>2 DEF PeakIsHighest
  <2>8. PICK a, b \in Points : a <= b /\ tracker.drawdown = BalanceAt(ledger, a) - BalanceAt(ledger, b)
    BY DEF FallInv, DrawdownIsDeepestFall
  <2>9. \A i, j \in Points : i <= j => BalanceAt(ledger, i) - BalanceAt(ledger, j) <= tracker.drawdown
    BY DEF FallInv, DrawdownIsDeepestFall
  <2>10. \E i, j \in Points' : i <= j /\ tracker'.drawdown = BalanceAt(ledger', i) - BalanceAt(ledger', j)
    <3>1. CASE tracker'.drawdown = tracker.drawdown
      BY <3>1, <2>2, <2>8
    <3>2. CASE tracker'.drawdown = tracker'.peak - trade.after
      <4>1. PICK q \in Points' : tracker'.peak = BalanceAt(ledger', q)
        BY <2>7 DEF PeakIsHighest
      <4>2. q <= m /\ m \in Points'
        BY <2>2, <2>4, <4>1 DEF m
      <4> QED BY <3>2, <4>1, <4>2, <2>2
    <3> QED BY <3>1, <3>2, <2>3 DEF Larger
  <2>11. \A i, j \in Points' : i <= j => BalanceAt(ledger', i) - BalanceAt(ledger', j) <= tracker'.drawdown
    <3> SUFFICES ASSUME NEW i \in Points', NEW j \in Points', i <= j
                 PROVE  BalanceAt(ledger', i) - BalanceAt(ledger', j) <= tracker'.drawdown
      OBVIOUS
    <3>1. BalanceAt(ledger', i) <= tracker'.peak /\ BalanceAt(ledger', i) \in Int /\ BalanceAt(ledger', j) \in Int
      BY <2>2, <2>7 DEF PeakIsHighest
    <3>2. CASE j = m
      BY <3>1, <3>2, <2>2, <2>3 DEF Larger
    <3>3. CASE j # m
      <4>1. j \in Points /\ i \in Points
        BY <3>3, <2>2, <2>4 DEF m
      <4> QED BY <4>1, <2>2, <2>3, <2>9 DEF Larger
    <3> QED BY <3>2, <3>3
  <2> QED BY <1>1, <2>7, <2>10, <2>11 DEF FallInv, DrawdownIsDeepestFall
<1>3. CASE Reset
  <2>1. (tracker = NewTracker /\ ledger = <<>>)'
    BY <1>3 DEF Reset
  <2>2. (PeakIsHighest /\ DrawdownIsDeepestFall)'
    <3>1. (tracker = NewTracker /\ ledger = <<>> /\ Base)'
      BY <1>1, <2>1
    <3> QED BY <3>1, FreshFalls, PTL
  <2> QED BY <1>1, <2>2 DEF FallInv
<1>4. CASE UNCHANGED pnlVars
  BY <1>1, <1>4 DEF pnlVars, FallInv, PeakIsHighest, DrawdownIsDeepestFall, Points, BalanceAt
<1> QED BY <1>2, <1>3, <1>4 DEF Next

(* max_drawdown, kept incrementally by record(), is the deepest fall of    *)
(* the balance from any earlier one (pnl_tracker.rs:183-185).              *)
THEOREM Drawdown == Spec => []DrawdownIsDeepestFall
<1>1. Init => FallInv
  BY BaseInit, FreshFalls DEF Init, FallInv
<1>2. FallInv => DrawdownIsDeepestFall
  BY DEF FallInv
<1> QED BY <1>1, <1>2, FallStep, PTL DEF Spec

(* Between resets the drawdown, the longest streak and the peak only grow. *)
THEOREM Stand == Spec => RecordsStand
<1>1. Base /\ [Next]_pnlVars =>
        [ledger' # <<>> => /\ tracker'.drawdown >= tracker.drawdown
                           /\ tracker'.maxWinRun >= tracker.maxWinRun
                           /\ tracker'.peak >= tracker.peak]_pnlVars
  <2> SUFFICES ASSUME Base, Record
               PROVE  /\ tracker'.drawdown >= tracker.drawdown
                      /\ tracker'.maxWinRun >= tracker.maxWinRun
                      /\ tracker'.peak >= tracker.peak
    BY DEF Next, Reset, pnlVars
  <2>1. PICK trade \in Records : tracker' = Recorded(tracker, trade)
    BY RecordStep
  <2>2. trade.after \in Int /\ tracker.winRun \in Nat /\ tracker.maxWinRun \in Nat
        /\ tracker.peak \in Int /\ tracker.drawdown \in Nat
    BY DEF Records, Base, TypeOK
  <2> QED BY <2>1, <2>2 DEF Recorded, PeakAfter, RunAfter, Larger
<1> QED BY <1>1, BaseInit, BaseStep, PTL DEF Spec, RecordsStand

-----------------------------------------------------------------------------
ExtremeInv ==
    /\ Base /\ ExtremesAreTrades
    /\ ledger = <<>> => tracker.best = -Infinity /\ tracker.worst = Infinity

(* Recording a trade or resetting keeps best and worst true.               *)
LEMMA ExtremeStep == ASSUME ExtremeInv, [Next]_pnlVars PROVE ExtremeInv'
<1>1. Base'
  BY BaseStep DEF ExtremeInv
<1>2. CASE Record
  <2>1. PICK trade \in Records :
           /\ tracker' = Recorded(tracker, trade) /\ ledger' = Append(ledger, trade)
           /\ trade.net \in Nets
    BY <1>2, RecordStep DEF ExtremeInv
  <2> DEFINE n == Len(ledger)
             nets == {NetOf(i) : i \in Trades}
             old == {ledger[i].net : i \in 1 .. n}
             new == {ledger'[i].net : i \in 1 .. n + 1}
  <2>2. /\ n \in Nat /\ Len(ledger)' = n + 1 /\ ledger' \in Seq(Records)
        /\ \A i \in 1 .. n : ledger'[i] = ledger[i]
        /\ ledger'[n + 1] = trade
    BY <2>1, BalancesKept DEF ExtremeInv
  <2>3. new = old \cup {trade.net}
    BY <2>2
  <2>4. /\ tracker'.best = Larger(tracker.best, trade.net)
        /\ tracker'.worst = Smaller(tracker.worst, trade.net)
    BY <2>1 DEF Recorded, WorstAfter
  <2>5. /\ trade.net \in Int /\ tracker.best \in Int /\ tracker.worst \in Int
        /\ -Infinity < trade.net /\ trade.net < Infinity /\ Infinity \in Int
    <3>1. trade.net \in Int /\ tracker.best \in Int /\ tracker.worst \in Int
      BY DEF Records, ExtremeInv, Base, TypeOK
    <3>2. Infinity \in Int
      BY TrackerAssumption
    <3>3. trade.net \in Nets
      BY <2>1
    <3>4. -Infinity < trade.net /\ trade.net < Infinity
      BY <3>3, TrackerAssumption
    <3> QED BY <3>1, <3>2, <3>4
  <2>6. old \subseteq Int
    <3>1. \A i \in 1 .. n : ledger[i] \in Records
      BY <2>2 DEF ExtremeInv, Base
    <3> QED BY <3>1 DEF Records
  <2>7. nets = old /\ nets' = new
    BY <2>2 DEF Trades, NetOf, ExtremeInv, Base
  <2>8. /\ tracker'.best \in new /\ tracker'.worst \in new
        /\ \A x \in new : tracker'.worst <= x /\ x <= tracker'.best
    <3>1. CASE ledger = <<>>
      <4>1. old = {} /\ tracker.best = -Infinity /\ tracker.worst = Infinity
        BY <3>1 DEF ExtremeInv
      <4> HIDE DEF old, new
      <4> QED BY <4>1, <2>3, <2>4, <2>5 DEF Larger, Smaller
    <3>2. CASE ledger # <<>>
      <4>1. /\ tracker.best \in old /\ tracker.worst \in old
            /\ \A x \in old : tracker.worst <= x /\ x <= tracker.best
        BY <3>2, <2>7 DEF ExtremeInv, ExtremesAreTrades
      <4> HIDE DEF old, new
      <4> QED BY <4>1, <2>3, <2>4, <2>5, <2>6 DEF Larger, Smaller
    <3> QED BY <3>1, <3>2
  <2> HIDE DEF new, old
  <2>9. ExtremesAreTrades'
    BY <2>7, <2>8 DEF ExtremesAreTrades
  <2>10. ledger' # <<>>
    BY <2>2
  <2> QED BY <1>1, <2>9, <2>10 DEF ExtremeInv
<1>3. CASE Reset
  BY <1>1, <1>3 DEF Reset, NewTracker, ExtremeInv, ExtremesAreTrades
<1>4. CASE UNCHANGED pnlVars
  BY <1>1, <1>4 DEF pnlVars, ExtremeInv, ExtremesAreTrades, NetOf, Trades
<1> QED BY <1>2, <1>3, <1>4 DEF Next

(* best_trade and worst_trade are two of the results and bound them all    *)
(* (pnl_tracker.rs:179-180).                                               *)
THEOREM Extremes == Spec => []ExtremesAreTrades
<1>1. Init => ExtremeInv
  BY BaseInit DEF Init, NewTracker, ExtremeInv, ExtremesAreTrades
<1>2. ExtremeInv => ExtremesAreTrades
  BY DEF ExtremeInv
<1> QED BY <1>1, <1>2, ExtremeStep, PTL DEF Spec

-----------------------------------------------------------------------------
(* The streaks, on any list.                                               *)

Run(q, i, k, o) == i + k <= Len(q) /\ \A j \in i + 1 .. i + k : q[j].outcome = o

(* k is the longest run of o that ends the list: the trade before it, if   *)
(* there is one, is not an o.                                              *)
Ends(q, k, o) ==
    /\ k \in 0 .. Len(q) /\ Run(q, Len(q) - k, k, o)
    /\ k < Len(q) => q[Len(q) - k].outcome # o

Longest(q, k, o) ==
    /\ \E i \in 0 .. Len(q) : Run(q, i, k, o)
    /\ \A i \in 0 .. Len(q) : ~Run(q, i, k + 1, o)

(* A list and its last element.                                            *)
LEMMA Appended ==
    ASSUME NEW q \in Seq(Records), NEW x \in Records
    PROVE  /\ Append(q, x) \in Seq(Records) /\ Len(q) \in Nat
           /\ Len(Append(q, x)) = Len(q) + 1
           /\ \A j \in 1 .. Len(q) : Append(q, x)[j] = q[j]
           /\ Append(q, x)[Len(q) + 1] = x
OBVIOUS

(* A run of the shorter list is one of the longer list; a run of the       *)
(* longer list is one of the shorter, but for the last trade.              *)
LEMMA RunKeeps ==
    ASSUME NEW q \in Seq(Records), NEW x \in Records, NEW o,
           NEW i \in 0 .. Len(q) + 1, NEW k \in Nat
    PROVE  /\ i + k <= Len(q) => (Run(Append(q, x), i, k, o) <=> Run(q, i, k, o))
           /\ i + k = Len(q) => (Run(Append(q, x), i, k + 1, o) <=> Run(q, i, k, o) /\ x.outcome = o)
<1> DEFINE p == Append(q, x)  n == Len(q)
<1>1. /\ n \in Nat /\ Len(p) = n + 1
      /\ \A j \in 1 .. n : p[j] = q[j]
      /\ p[n + 1] = x
  BY Appended
<1> HIDE DEF p, n
<1>2. i + k <= n => (Run(p, i, k, o) <=> Run(q, i, k, o))
  BY <1>1 DEF Run, n
<1>3. ASSUME i + k = n PROVE Run(p, i, k + 1, o) <=> Run(q, i, k, o) /\ x.outcome = o
  <2>1. i + 1 .. i + (k + 1) = (i + 1 .. i + k) \cup {n + 1}
    BY <1>1, <1>3
  <2>2. \A j \in i + 1 .. i + k : j \in 1 .. n
    BY <1>1, <1>3
  <2>3. (\A j \in i + 1 .. i + (k + 1) : p[j].outcome = o)
        <=> (\A j \in i + 1 .. i + k : p[j].outcome = o) /\ p[n + 1].outcome = o
    BY <2>1, Zenon
  <2>4. (\A j \in i + 1 .. i + k : p[j].outcome = o) <=> (\A j \in i + 1 .. i + k : q[j].outcome = o)
    BY <1>1, <2>2, Zenon
  <2>5. i + (k + 1) <= Len(p) /\ i + k <= Len(q)
    BY <1>1, <1>3 DEF n
  <2> QED BY <1>1, <2>3, <2>4, <2>5 DEF Run
<1> QED BY <1>2, <1>3 DEF p, n

(* record() keeps the run that ends the list.                              *)
LEMMA EndsGrows ==
    ASSUME NEW q \in Seq(Records), NEW x \in Records, NEW o, NEW k, Ends(q, k, o)
    PROVE  Ends(Append(q, x), RunAfter(k, o, x.outcome), o)
<1> DEFINE p == Append(q, x)  n == Len(q)
<1>1. /\ n \in Nat /\ Len(p) = n + 1 /\ p[n + 1] = x
      /\ \A j \in 1 .. n : p[j] = q[j]
      /\ k \in 0 .. n
  BY Appended DEF Ends
<1>2. CASE x.outcome = o
  <2>1. Run(p, n - k, k + 1, o)
    <3>1. n - k \in 0 .. n + 1 /\ (n - k) + k = n /\ k \in Nat
      BY <1>1
    <3>2. Run(q, n - k, k, o)
      BY DEF Ends
    <3> HIDE DEF p
    <3> QED BY <1>2, <3>1, <3>2, RunKeeps DEF p, n
  <2>2. k + 1 \in 0 .. n + 1 /\ (n + 1) - (k + 1) = n - k /\ RunAfter(k, o, x.outcome) = k + 1
    BY <1>1, <1>2 DEF RunAfter
  <2>3. k + 1 < n + 1 => p[n - k].outcome # o
    <3>1. k < n => n - k \in 1 .. n
      BY <1>1
    <3> QED BY <1>1, <3>1 DEF Ends
  <2>4. Ends(p, k + 1, o)
    <3> HIDE DEF p
    <3> QED BY <1>1, <2>1, <2>2, <2>3 DEF Ends
  <2> QED BY <2>2, <2>4
<1>3. CASE x.outcome # o
  <2>1. RunAfter(k, o, x.outcome) = 0
    BY <1>3 DEF RunAfter
  <2>2. Run(p, n + 1, 0, o)
    BY <1>1 DEF Run
  <2>3. Ends(p, 0, o)
    <3> HIDE DEF p
    <3> QED BY <1>1, <1>3, <2>2 DEF Ends
  <2> QED BY <2>1, <2>3
<1> QED BY <1>2, <1>3

(* A run of k holds every shorter one.                                     *)
LEMMA RunShortens ==
    ASSUME NEW q, NEW o, NEW i \in Nat, NEW k \in Nat, NEW h \in Nat, h <= k,
           Len(q) \in Nat, Run(q, i, k, o)
    PROVE  Run(q, i, h, o)
BY DEF Run

(* A run that ends the list is no longer than the longest one in it.       *)
LEMMA EndsBelow ==
    ASSUME NEW q \in Seq(Records), NEW o, NEW k, NEW m \in Nat, Ends(q, k, o), Longest(q, m, o)
    PROVE  k <= m
<1> SUFFICES ASSUME ~(k <= m) PROVE FALSE
  OBVIOUS
<1>1. k \in 0 .. Len(q) /\ Len(q) \in Nat /\ m + 1 <= k
  BY DEF Ends
<1>2. Run(q, Len(q) - k, k, o) /\ Len(q) - k \in 0 .. Len(q)
  BY <1>1 DEF Ends
<1>3. Run(q, Len(q) - k, m + 1, o)
  BY <1>1, <1>2, RunShortens
<1> QED BY <1>2, <1>3 DEF Longest

(* record() keeps the longest run.                                         *)
LEMMA LongestGrows ==
    ASSUME NEW q \in Seq(Records), NEW x \in Records, NEW o, NEW k, NEW m \in Nat,
           Ends(q, k, o), Longest(q, m, o)
    PROVE  Longest(Append(q, x), Larger(m, RunAfter(k, o, x.outcome)), o)
<1> DEFINE p == Append(q, x)  n == Len(q)  c == RunAfter(k, o, x.outcome)  h == Larger(m, c)
<1>1. n \in Nat /\ Len(p) = n + 1 /\ k \in 0 .. n /\ k <= m
  BY Appended, EndsBelow DEF Ends
<1>2. c = IF x.outcome = o THEN k + 1 ELSE 0
  BY DEF RunAfter
<1>3. h = (IF x.outcome = o /\ k = m THEN m + 1 ELSE m) /\ h \in Nat /\ m <= h
  BY <1>1, <1>2 DEF Larger
<1>4. Ends(p, c, o)
  BY EndsGrows
<1> HIDE DEF p, c, h, n
<1>5. \E i \in 0 .. n + 1 : Run(p, i, h, o)
  <2>1. CASE h = m
    <3>1. PICK i \in 0 .. n : Run(q, i, m, o)
      BY DEF Longest, n
    <3>2. i + m <= n /\ i \in 0 .. n + 1
      BY <1>1, <3>1 DEF Run, n
    <3>3. Run(p, i, m, o)
      BY <3>1, <3>2, RunKeeps DEF p, n
    <3> QED BY <2>1, <3>2, <3>3
  <2>2. CASE h # m
    <3>1. h = c /\ c \in 0 .. n + 1
      BY <1>1, <1>2, <1>3, <2>2
    <3>2. Run(p, n + 1 - c, c, o) /\ n + 1 - c \in 0 .. n + 1
      BY <1>1, <1>4, <3>1 DEF Ends
    <3> QED BY <3>1, <3>2
  <2> QED BY <2>1, <2>2
<1>6. ASSUME NEW i \in 0 .. n + 1, Run(p, i, h + 1, o) PROVE FALSE
  <2>1. i + h <= n
    BY <1>1, <1>3, <1>6 DEF Run
  <2>2. CASE i + h = n
    <3>1. Run(q, i, h, o) /\ x.outcome = o
      BY <1>3, <1>6, <2>2, RunKeeps DEF p, n
    <3>2. CASE k = m
      <4>1. Run(q, i, m + 1, o) /\ i \in 0 .. n
        BY <1>1, <1>3, <3>1, <3>2, <2>1
      <4> QED BY <4>1 DEF Longest, n
    <3>3. CASE k # m
      <4>1. h = m /\ k < m /\ k < n /\ n - k \in i + 1 .. i + h
        BY <1>1, <1>3, <2>2, <3>1, <3>3
      <4>2. q[n - k].outcome # o
        BY <4>1 DEF Ends, n
      <4> QED BY <3>1, <4>1, <4>2 DEF Run
    <3> QED BY <3>2, <3>3
  <2>3. CASE i + h # n
    <3>1. i + (h + 1) <= n /\ h + 1 \in Nat
      BY <1>1, <1>3, <2>1, <2>3
    <3>2. Run(q, i, h + 1, o)
      BY <1>6, <3>1, RunKeeps DEF p, n
    <3>3. Run(q, i, m + 1, o) /\ i \in 0 .. n
      BY <1>1, <1>3, <3>1, <3>2, RunShortens DEF n
    <3> QED BY <3>3 DEF Longest, n
  <2> QED BY <2>2, <2>3
<1>7. \A i \in 0 .. n + 1 : ~Run(p, i, h + 1, o)
  BY <1>6
<1>8. Longest(p, h, o)
  BY <1>1, <1>5, <1>7 DEF Longest
<1> QED BY <1>8 DEF p, c, h, n

StreakInv ==
    /\ Base
    /\ Ends(ledger, tracker.winRun, "Win") /\ Ends(ledger, tracker.lossRun, "Loss")
    /\ Longest(ledger, tracker.maxWinRun, "Win") /\ Longest(ledger, tracker.maxLossRun, "Loss")

(* With no trade there is no streak.                                       *)
LEMMA StreakFresh ==
    ASSUME tracker = NewTracker, ledger = <<>>, Base
    PROVE  StreakInv
<1>1. /\ tracker.winRun = 0 /\ tracker.lossRun = 0
      /\ tracker.maxWinRun = 0 /\ tracker.maxLossRun = 0 /\ Len(ledger) = 0
  BY DEF NewTracker
<1>2. \A o : Ends(ledger, 0, o) /\ Longest(ledger, 0, o)
  BY <1>1 DEF Ends, Longest, Run
<1> QED BY <1>1, <1>2 DEF StreakInv

(* Recording a trade or resetting keeps the streaks true.                  *)
LEMMA StreakStep == ASSUME StreakInv, [Next]_pnlVars PROVE StreakInv'
<1>1. Base'
  BY BaseStep DEF StreakInv
<1>2. CASE Record
  <2>1. PICK trade \in Records :
           /\ tracker' = Recorded(tracker, trade) /\ ledger' = Append(ledger, trade)
    BY <1>2, RecordStep DEF StreakInv
  <2>2. /\ tracker'.winRun = RunAfter(tracker.winRun, "Win", trade.outcome)
        /\ tracker'.lossRun = RunAfter(tracker.lossRun, "Loss", trade.outcome)
        /\ tracker'.maxWinRun = Larger(tracker.maxWinRun, tracker'.winRun)
        /\ tracker'.maxLossRun = Larger(tracker.maxLossRun, tracker'.lossRun)
    BY <2>1 DEF Recorded
  <2>3. ledger \in Seq(Records) /\ tracker.maxWinRun \in Nat /\ tracker.maxLossRun \in Nat
    BY DEF StreakInv, Base, TypeOK
  <2>4. Ends(ledger', tracker'.winRun, "Win") /\ Ends(ledger', tracker'.lossRun, "Loss")
    BY <2>1, <2>2, <2>3, EndsGrows DEF StreakInv
  <2>5. Longest(ledger', tracker'.maxWinRun, "Win") /\ Longest(ledger', tracker'.maxLossRun, "Loss")
    BY <2>1, <2>2, <2>3, LongestGrows DEF StreakInv
  <2> QED BY <1>1, <2>4, <2>5 DEF StreakInv
<1>3. CASE Reset
  <2>1. (tracker = NewTracker /\ ledger = <<>> /\ Base)'
    BY <1>1, <1>3 DEF Reset
  <2> QED BY <2>1, StreakFresh, PTL
<1>4. CASE UNCHANGED pnlVars
  BY <1>1, <1>4 DEF pnlVars, StreakInv, Base
<1> QED BY <1>2, <1>3, <1>4 DEF Next

(* The current streaks are the longest runs that end the list, the maxima  *)
(* the longest anywhere in it (pnl_tracker.rs:188-206).                    *)
LEMMA StreakInvSays == ASSUME StreakInv PROVE StreaksAreRuns
<1>1. Len(ledger) \in Nat /\ Points = 0 .. Len(ledger)
  BY DEF StreakInv, Base, Points
<1>2. \A i, k, o : RunOf(i, k, o) <=> Run(ledger, i, k, o)
  BY DEF RunOf, Run
<1>3. ASSUME NEW o, NEW k, Ends(ledger, k, o)
      PROVE  /\ RunOf(Len(ledger) - k, k, o)
             /\ k = Len(ledger) \/ ~RunOf(Len(ledger) - k - 1, k + 1, o)
  <2>1. k \in 0 .. Len(ledger) /\ Run(ledger, Len(ledger) - k, k, o)
    BY <1>3 DEF Ends
  <2>2. ASSUME k # Len(ledger) PROVE ~Run(ledger, Len(ledger) - k - 1, k + 1, o)
    <3>1. Len(ledger) - k \in (Len(ledger) - k - 1) + 1 .. (Len(ledger) - k - 1) + (k + 1)
      BY <1>1, <2>1
    <3>2. ledger[Len(ledger) - k].outcome # o
      BY <1>1, <1>3, <2>1, <2>2 DEF Ends
    <3> QED BY <3>1, <3>2 DEF Run
  <2> QED BY <1>2, <2>1, <2>2
<1>4. ASSUME NEW o, NEW k, Longest(ledger, k, o)
      PROVE  /\ \E i \in Points : RunOf(i, k, o)
             /\ ~\E i \in Points : RunOf(i, k + 1, o)
  BY <1>1, <1>2, <1>4 DEF Longest
<1> QED BY <1>3, <1>4 DEF StreakInv, StreaksAreRuns

-----------------------------------------------------------------------------
(* The sums and counts, on any list.                                       *)

NetsIn(q) == [i \in DOMAIN q |-> q[i].net]

OfIn(q, o) == {i \in DOMAIN q : q[i].outcome = o}

(* The positions of a list are finitely many, and their results integers.  *)
LEMMA OfInFinite ==
    ASSUME NEW q \in Seq(Records), NEW o
    PROVE  /\ IsFiniteSet(DOMAIN q) /\ IsFiniteSet(OfIn(q, o)) /\ OfIn(q, o) \in SUBSET DOMAIN q
           /\ \A i \in DOMAIN q : NetsIn(q)[i] \in Int /\ NetsIn(q)[i] = q[i].net
<1>1. DOMAIN q = 1 .. Len(q) /\ Len(q) \in Nat /\ \A i \in DOMAIN q : q[i] \in Records
  OBVIOUS
<1>2. IsFiniteSet(DOMAIN q)
  BY <1>1, FS_Interval
<1>3. OfIn(q, o) \in SUBSET DOMAIN q
  BY DEF OfIn
<1>4. IsFiniteSet(OfIn(q, o))
  BY <1>2, <1>3, FS_Subset
<1>5. \A i \in DOMAIN q : NetsIn(q)[i] \in Int /\ NetsIn(q)[i] = q[i].net
  BY <1>1 DEF NetsIn, Records
<1> QED BY <1>2, <1>3, <1>4, <1>5

(* The trades of an outcome after one more trade.                          *)
LEMMA OfInGrows ==
    ASSUME NEW q \in Seq(Records), NEW x \in Records, NEW o
    PROVE  /\ Len(q) + 1 \notin DOMAIN q
           /\ DOMAIN Append(q, x) = DOMAIN q \cup {Len(q) + 1}
           /\ OfIn(Append(q, x), o) = IF x.outcome = o THEN OfIn(q, o) \cup {Len(q) + 1} ELSE OfIn(q, o)
           /\ \A i \in DOMAIN q : NetsIn(Append(q, x))[i] = NetsIn(q)[i]
           /\ NetsIn(Append(q, x))[Len(q) + 1] = x.net
<1> DEFINE p == Append(q, x)  n == Len(q)
<1>1. /\ n \in Nat /\ Len(p) = n + 1 /\ p[n + 1] = x /\ p \in Seq(Records)
      /\ \A j \in 1 .. n : p[j] = q[j]
      /\ DOMAIN q = 1 .. n /\ DOMAIN p = 1 .. n + 1
  BY Appended
<1> HIDE DEF p, n
<1>2. 1 .. n + 1 = (1 .. n) \cup {n + 1} /\ n + 1 \notin 1 .. n
  BY <1>1
<1>3. OfIn(p, o) = IF x.outcome = o THEN OfIn(q, o) \cup {n + 1} ELSE OfIn(q, o)
  BY <1>1, <1>2 DEF OfIn
<1>4. (\A i \in DOMAIN q : NetsIn(p)[i] = NetsIn(q)[i]) /\ NetsIn(p)[n + 1] = x.net
  BY <1>1, <1>2 DEF NetsIn
<1> QED BY <1>1, <1>2, <1>3, <1>4 DEF p, n

(* Appending a trade counts it under its outcome, as record() does.        *)
LEMMA CountGrows ==
    ASSUME NEW q \in Seq(Records), NEW x \in Records, NEW o
    PROVE  /\ Cardinality(OfIn(q, o)) \in Nat
           /\ Cardinality(OfIn(Append(q, x), o)) = Count(Cardinality(OfIn(q, o)), o, x.outcome)
<1>1. IsFiniteSet(OfIn(q, o)) /\ Len(q) + 1 \notin OfIn(q, o)
  BY OfInFinite, OfInGrows
<1>2. /\ Cardinality(OfIn(q, o)) \in Nat
      /\ Cardinality(OfIn(q, o) \cup {Len(q) + 1}) = Cardinality(OfIn(q, o)) + 1
  BY <1>1, FS_AddElement, FS_CardinalityType
<1>3. CASE x.outcome = o
  <2>1. OfIn(Append(q, x), o) = OfIn(q, o) \cup {Len(q) + 1}
    BY <1>3, OfInGrows
  <2> QED BY <1>2, <1>3, <2>1 DEF Count
<1>4. CASE x.outcome # o
  <2>1. OfIn(Append(q, x), o) = OfIn(q, o)
    BY <1>4, OfInGrows
  <2> QED BY <1>2, <1>4, <2>1 DEF Count
<1> QED BY <1>3, <1>4

(* Appending a trade adds its result to the sums, as record() does.        *)
LEMMA SumGrows ==
    ASSUME NEW q \in Seq(Records), NEW x \in Records, NEW o
    PROVE  /\ SumFunctionOnSet(NetsIn(q), OfIn(q, o)) \in Int
           /\ SumFunctionOnSet(NetsIn(Append(q, x)), OfIn(Append(q, x), o))
               = SumFunctionOnSet(NetsIn(q), OfIn(q, o)) + IF x.outcome = o THEN x.net ELSE 0
           /\ SumFunction(NetsIn(q)) \in Int
           /\ SumFunction(NetsIn(Append(q, x))) = SumFunction(NetsIn(q)) + x.net
<1> DEFINE p == Append(q, x)  m == Len(q) + 1  f == NetsIn(q)  e == NetsIn(p)
<1>1. x.net \in Int
  BY DEF Records
<1>2. /\ IsFiniteSet(DOMAIN q) /\ IsFiniteSet(OfIn(q, o)) /\ OfIn(q, o) \in SUBSET DOMAIN q
      /\ \A i \in DOMAIN q : f[i] \in Int
  BY OfInFinite
<1>3. /\ m \notin DOMAIN q /\ DOMAIN p = DOMAIN q \cup {m}
      /\ OfIn(p, o) = IF x.outcome = o THEN OfIn(q, o) \cup {m} ELSE OfIn(q, o)
      /\ \A i \in DOMAIN q : e[i] = f[i]
      /\ e[m] = x.net
  BY OfInGrows
<1>4. DOMAIN f = DOMAIN q /\ DOMAIN e = DOMAIN p
  BY DEF NetsIn
<1> HIDE DEF p, m, f, e
<1>5. ASSUME NEW S \in SUBSET DOMAIN q, IsFiniteSet(S)
      PROVE  /\ SumFunctionOnSet(e, S) = SumFunctionOnSet(f, S) /\ SumFunctionOnSet(f, S) \in Int
             /\ SumFunctionOnSet(e, S \cup {m}) = SumFunctionOnSet(f, S) + x.net
  <2>1. SumFunctionOnSet(e, S) = SumFunctionOnSet(f, S)
    BY <1>2, <1>3, <1>5, SumSame
  <2>2. m \notin S /\ \A i \in S \cup {m} : e[i] \in Int
    BY <1>1, <1>2, <1>3
  <2>3. SumFunctionOnSet(e, S \cup {m}) = SumFunctionOnSet(e, S) + e[m] /\ SumFunctionOnSet(e, S) \in Int
    BY <1>5, <2>2, SumAdd
  <2> QED BY <1>3, <2>1, <2>3
<1>6. /\ SumFunctionOnSet(f, OfIn(q, o)) \in Int
      /\ SumFunctionOnSet(e, OfIn(p, o))
          = SumFunctionOnSet(f, OfIn(q, o)) + IF x.outcome = o THEN x.net ELSE 0
  <2> DEFINE S == OfIn(q, o)
  <2>1. /\ SumFunctionOnSet(e, S) = SumFunctionOnSet(f, S) /\ SumFunctionOnSet(f, S) \in Int
        /\ SumFunctionOnSet(e, S \cup {m}) = SumFunctionOnSet(f, S) + x.net
    BY <1>2, <1>5
  <2>2. CASE x.outcome = o
    <3>1. OfIn(p, o) = S \cup {m}
      BY <1>3, <2>2
    <3> QED BY <2>1, <2>2, <3>1
  <2>3. CASE x.outcome # o
    <3>1. OfIn(p, o) = S
      BY <1>3, <2>3
    <3> QED BY <2>1, <2>3, <3>1
  <2> QED BY <2>2, <2>3
<1>7. SumFunction(f) \in Int /\ SumFunction(e) = SumFunction(f) + x.net
  BY <1>2, <1>3, <1>4, <1>5 DEF SumFunction
<1> QED BY <1>6, <1>7 DEF p, f, e

(* Counters and sums are those of the list, and the class of each trade is *)
(* the one of its result.                                                  *)
BookInv ==
    /\ Base
    /\ \A i \in DOMAIN ledger : ledger[i].outcome = FromPnl(ledger[i].net)
    /\ tracker.total = Len(ledger)
    /\ tracker.wins = Cardinality(OfIn(ledger, "Win"))
    /\ tracker.losses = Cardinality(OfIn(ledger, "Loss"))
    /\ tracker.total = tracker.wins + tracker.losses + tracker.breakevens
    /\ tracker.pnl = tracker.balance - Initial
    /\ tracker.pnl = SumFunction(NetsIn(ledger))
    /\ tracker.grossWins = SumFunctionOnSet(NetsIn(ledger), OfIn(ledger, "Win"))
    /\ tracker.grossLosses = SumFunctionOnSet(NetsIn(ledger), OfIn(ledger, "Loss"))

(* With no trade every counter and every sum is zero.                      *)
LEMMA BookFresh ==
    ASSUME tracker = NewTracker, ledger = <<>>, Base
    PROVE  BookInv
<1>1. /\ DOMAIN ledger = {} /\ Len(ledger) = 0
      /\ \A o : OfIn(ledger, o) = {} /\ DOMAIN NetsIn(ledger) = {}
  BY DEF OfIn, NetsIn
<1>2. Cardinality({}) = 0 /\ \A f : SumFunctionOnSet(f, {}) = 0
  BY FS_EmptySet, SumEmpty
<1>3. SumFunction(NetsIn(ledger)) = 0
  BY <1>1, <1>2 DEF SumFunction
<1>4. /\ tracker.total = 0 /\ tracker.wins = 0 /\ tracker.losses = 0 /\ tracker.breakevens = 0
      /\ tracker.pnl = 0 /\ tracker.grossWins = 0 /\ tracker.grossLosses = 0
      /\ tracker.balance = Initial /\ Initial \in Int
  BY TrackerAssumption DEF NewTracker
<1>5. /\ Cardinality(OfIn(ledger, "Win")) = 0 /\ Cardinality(OfIn(ledger, "Loss")) = 0
      /\ SumFunctionOnSet(NetsIn(ledger), OfIn(ledger, "Win")) = 0
      /\ SumFunctionOnSet(NetsIn(ledger), OfIn(ledger, "Loss")) = 0
  BY <1>1, <1>2
<1> QED BY <1>1, <1>3, <1>4, <1>5 DEF BookInv

(* Recording a trade or resetting keeps the counters and sums true.        *)
LEMMA BookStep == ASSUME BookInv, [Next]_pnlVars PROVE BookInv'
<1>1. Base'
  BY BaseStep DEF BookInv
<1>2. CASE Record
  <2>1. PICK trade \in Records :
           /\ tracker' = Recorded(tracker, trade) /\ ledger' = Append(ledger, trade)
           /\ trade.net \in Nets /\ trade.outcome = FromPnl(trade.net)
           /\ trade.after = tracker.balance + trade.net
    BY <1>2, RecordStep DEF BookInv
  <2>2. /\ ledger \in Seq(Records) /\ Len(ledger) \in Nat /\ trade.net \in Int
        /\ trade.outcome \in Outcomes /\ Initial \in Int
        /\ tracker.total \in Nat /\ tracker.wins \in Nat /\ tracker.losses \in Nat
        /\ tracker.breakevens \in Nat /\ tracker.pnl \in Int /\ tracker.balance \in Int
    BY TrackerAssumption DEF BookInv, Base, TypeOK, Records
  <2>3. /\ tracker'.total = tracker.total + 1
        /\ tracker'.wins = Count(tracker.wins, "Win", trade.outcome)
        /\ tracker'.losses = Count(tracker.losses, "Loss", trade.outcome)
        /\ tracker'.breakevens = Count(tracker.breakevens, "Breakeven", trade.outcome)
        /\ tracker'.pnl = tracker.pnl + trade.net /\ tracker'.balance = trade.after
        /\ tracker'.grossWins = tracker.grossWins + IF trade.outcome = "Win" THEN trade.net ELSE 0
        /\ tracker'.grossLosses = tracker.grossLosses + IF trade.outcome = "Loss" THEN trade.net ELSE 0
    <3>1. tracker.grossWins \in Int /\ tracker.grossLosses \in Int
      BY DEF BookInv, Base, TypeOK
    <3> QED BY <2>1, <2>2, <3>1 DEF Recorded, LossAdded
  <2>4. \A i \in DOMAIN ledger' : ledger'[i].outcome = FromPnl(ledger'[i].net)
    <3>1. /\ DOMAIN ledger' = DOMAIN ledger \cup {Len(ledger) + 1}
          /\ \A i \in DOMAIN ledger : ledger'[i] = ledger[i]
          /\ ledger'[Len(ledger) + 1] = trade
      BY <2>1, <2>2, Appended, OfInGrows
    <3> QED BY <2>1, <3>1 DEF BookInv
  <2>5. /\ tracker'.total = Len(ledger')
        /\ tracker'.wins = Cardinality(OfIn(ledger', "Win"))
        /\ tracker'.losses = Cardinality(OfIn(ledger', "Loss"))
    <3>1. Len(ledger') = Len(ledger) + 1
      BY <2>1, <2>2, Appended
    <3>2. \A o : Cardinality(OfIn(ledger', o)) = Count(Cardinality(OfIn(ledger, o)), o, trade.outcome)
      BY <2>1, <2>2, CountGrows
    <3>3. /\ tracker.total = Len(ledger)
          /\ tracker.wins = Cardinality(OfIn(ledger, "Win"))
          /\ tracker.losses = Cardinality(OfIn(ledger, "Loss"))
      BY DEF BookInv
    <3> QED BY <2>3, <3>1, <3>2, <3>3
  <2>6. tracker'.total = tracker'.wins + tracker'.losses + tracker'.breakevens
    <3>1. tracker.total = tracker.wins + tracker.losses + tracker.breakevens
      BY DEF BookInv
    <3>2. \/ trade.outcome = "Win" \/ trade.outcome = "Loss" \/ trade.outcome = "Breakeven"
      BY <2>2 DEF Outcomes
    <3>3. \/ /\ tracker'.wins = tracker.wins + 1 /\ tracker'.losses = tracker.losses
             /\ tracker'.breakevens = tracker.breakevens
          \/ /\ tracker'.wins = tracker.wins /\ tracker'.losses = tracker.losses + 1
             /\ tracker'.breakevens = tracker.breakevens
          \/ /\ tracker'.wins = tracker.wins /\ tracker'.losses = tracker.losses
             /\ tracker'.breakevens = tracker.breakevens + 1
      BY <2>3, <3>2 DEF Count
    <3>4. tracker'.total = tracker.total + 1
      BY <2>3
    <3>5. /\ tracker.wins \in Nat /\ tracker.losses \in Nat /\ tracker.breakevens \in Nat
      BY <2>2
    <3> QED BY <3>1, <3>3, <3>4, <3>5
  <2>7. tracker'.pnl = tracker'.balance - Initial
    BY <2>1, <2>2, <2>3 DEF BookInv
  <2>8. /\ tracker'.pnl = SumFunction(NetsIn(ledger'))
        /\ tracker'.grossWins = SumFunctionOnSet(NetsIn(ledger'), OfIn(ledger', "Win"))
        /\ tracker'.grossLosses = SumFunctionOnSet(NetsIn(ledger'), OfIn(ledger', "Loss"))
    <3>1. /\ SumFunction(NetsIn(ledger')) = SumFunction(NetsIn(ledger)) + trade.net
          /\ \A o : SumFunctionOnSet(NetsIn(ledger'), OfIn(ledger', o))
                    = SumFunctionOnSet(NetsIn(ledger), OfIn(ledger, o))
                      + IF trade.outcome = o THEN trade.net ELSE 0
      BY <2>1, <2>2, SumGrows
    <3>2. /\ tracker.pnl = SumFunction(NetsIn(ledger))
          /\ tracker.grossWins = SumFunctionOnSet(NetsIn(ledger), OfIn(ledger, "Win"))
          /\ tracker.grossLosses = SumFunctionOnSet(NetsIn(ledger), OfIn(ledger, "Loss"))
      BY DEF BookInv
    <3> QED BY <2>3, <3>1, <3>2
  <2> QED BY <1>1, <2>4, <2>5, <2>6, <2>7, <2>8 DEF BookInv, NetsIn, OfIn
<1>3. CASE Reset
  <2>1. (tracker = NewTracker /\ ledger = <<>> /\ Base)'
    BY <1>1, <1>3 DEF Reset
  <2> QED BY <2>1, BookFresh, PTL
<1>4. CASE UNCHANGED pnlVars
  BY <1>1, <1>4 DEF pnlVars, BookInv, Base, NetsIn, OfIn
<1> QED BY <1>2, <1>3, <1>4 DEF Next

(* The invariant says what CountsAddUp and MoneyAddsUp ask for.            *)
LEMMA BookInvSays == ASSUME BookInv PROVE CountsAddUp /\ MoneyAddsUp
<1>1. Trades = DOMAIN ledger /\ [i \in Trades |-> NetOf(i)] = NetsIn(ledger)
  BY DEF Trades, NetOf, NetsIn
<1>2. \A o : Of(o) = OfIn(ledger, o)
  BY DEF Of, OfIn, Trades
<1>3. \A i \in DOMAIN ledger : ledger[i] \in Records /\ ledger[i].net \in Int
  <2>1. \A i \in DOMAIN ledger : ledger[i] \in Records
    BY DEF BookInv, Base
  <2> QED BY <2>1 DEF Records
<1>4. \A n \in Int : /\ FromPnl(n) = "Win" <=> n > Cent
                     /\ FromPnl(n) = "Loss" <=> n < -Cent
  BY TrackerAssumption DEF FromPnl
<1>5. /\ {i \in Trades : NetOf(i) > Cent} = OfIn(ledger, "Win")
      /\ {i \in Trades : NetOf(i) < -Cent} = OfIn(ledger, "Loss")
  BY <1>3, <1>4 DEF BookInv, OfIn, Trades, NetOf
<1>6. CountsAddUp
  BY <1>5 DEF BookInv, CountsAddUp
<1>7. MoneyAddsUp
  BY <1>1, <1>2 DEF BookInv, MoneyAddsUp
<1> QED BY <1>6, <1>7

-----------------------------------------------------------------------------
(* The walk of PaperEngine::stats() over the balances.                     *)

Marks == [peak : Int, fall : Int]

Fresh == [peak |-> Initial, fall |-> 0]

Walks(q, g) ==
    g = [T \in SUBSET DOMAIN q |-> IF T = {} THEN Fresh
                                   ELSE LET x == Max(T) IN Fallen(g[T \ {x}], q[x])]

(* The fold of the walk, with the function FoldLeft chooses in sight.      *)
LEMMA WalkUnfolds ==
    \A q : FoldLeft(Fallen, Fresh, q) = (CHOOSE g : Walks(q, g))[DOMAIN q]
BY DEF FoldLeft, MapThenFoldSet, Walks

(* There is such a function: the walk is defined on every list.            *)
LEMMA WalksExist ==
    ASSUME NEW q \in Seq(Records)
    PROVE  \E g : Walks(q, g)
<1> DEFINE D == DOMAIN q
           pick == [T \in SUBSET D |-> Max(T)]
           step == [i \in D |-> [v \in Marks |-> Fallen(v, q[i])]]
<1>1. D = 1 .. Len(q) /\ Len(q) \in Nat /\ IsFiniteSet(D) /\ \A i \in D : q[i] \in Records
  BY OfInFinite
<1>2. \A T \in SUBSET D : T # {} => pick[T] \in T
  BY <1>1, SomeLast
<1>3. ASSUME NEW i \in D, NEW v \in Marks PROVE Fallen(v, q[i]) \in Marks
  <2>1. q[i].after \in Int /\ v.peak \in Int /\ v.fall \in Int
    BY <1>1 DEF Records, Marks
  <2> QED BY <2>1 DEF Fallen, Larger, Marks
<1>4. \A i \in D, v \in Marks : step[i][v] = Fallen(v, q[i]) /\ step[i][v] \in Marks
  BY <1>3
<1>5. Fresh \in Marks
  BY TrackerAssumption DEF Fresh, Marks
<1>6. PICK g \in [SUBSET D -> Marks] : IsFold(g, D, Fresh, pick, step)
  <2>1. \A i \in D, v \in Marks : step[i][v] \in Marks
    BY <1>4
  <2> HIDE DEF pick, step, D
  <2> QED BY <1>1, <1>2, <1>5, <2>1, FoldExists
<1>7. ASSUME NEW T \in SUBSET D, T # {}
      PROVE  g[T] = Fallen(g[T \ {Max(T)}], q[Max(T)])
  <2>1. Max(T) \in D /\ g[T \ {Max(T)}] \in Marks /\ pick[T] = Max(T)
    BY <1>2, <1>7
  <2>2. g[T] = step[Max(T)][g[T \ {Max(T)}]]
    BY <1>6, <1>7, <2>1 DEF IsFold
  <2> HIDE DEF step
  <2> QED BY <1>4, <2>1, <2>2
<1>8. \A T \in SUBSET D : g[T] = IF T = {} THEN Fresh ELSE Fallen(g[T \ {Max(T)}], q[Max(T)])
  BY <1>6, <1>7 DEF IsFold
<1>9. Walks(q, g)
  BY <1>8 DEF Walks
<1> QED BY <1>9

(* The walk over a prefix does not see the trades after it.                *)
LEMMA WalkGrows ==
    ASSUME NEW q \in Seq(Records), NEW x \in Records
    PROVE  FoldLeft(Fallen, Fresh, Append(q, x)) = Fallen(FoldLeft(Fallen, Fresh, q), x)
<1> DEFINE p == Append(q, x)  m == Len(q) + 1  D == DOMAIN q
           g == CHOOSE g : Walks(p, g)  h == CHOOSE h : Walks(q, h)
<1>1. /\ p \in Seq(Records) /\ Len(q) \in Nat /\ p[m] = x /\ \A j \in D : p[j] = q[j]
      /\ DOMAIN p = D \cup {m} /\ m \notin D /\ D = 1 .. Len(q) /\ DOMAIN p = 1 .. m
      /\ IsFiniteSet(D)
  BY Appended, OfInGrows, OfInFinite
<1>2. Walks(p, g) /\ Walks(q, h)
  BY <1>1, WalksExist
<1>3. FoldLeft(Fallen, Fresh, p) = g[D \cup {m}] /\ FoldLeft(Fallen, Fresh, q) = h[D]
  BY <1>1, WalkUnfolds
<1> HIDE DEF p, m, D, g, h
<1>4. /\ \A T \in SUBSET (D \cup {m}) :
            g[T] = IF T = {} THEN Fresh ELSE Fallen(g[T \ {Max(T)}], p[Max(T)])
      /\ \A T \in SUBSET D :
            h[T] = IF T = {} THEN Fresh ELSE Fallen(h[T \ {Max(T)}], q[Max(T)])
  BY <1>1, <1>2 DEF Walks, D
<1> DEFINE P == {T \in SUBSET D : g[T] = h[T]}
<1>5. {} \in P
  BY <1>4
<1>6. ASSUME NEW T \in SUBSET D, T # {}, \A y \in T : T \ {y} \in P PROVE T \in P
  <2>1. Max(T) \in T /\ T \in SUBSET (D \cup {m})
    BY <1>1, <1>6, SomeLast
  <2>2. g[T \ {Max(T)}] = h[T \ {Max(T)}] /\ p[Max(T)] = q[Max(T)]
    BY <1>1, <1>6, <2>1
  <2> QED BY <1>4, <1>6, <2>1, <2>2
<1>7. D \in P
  <2>1. \A T \in SUBSET D : T # {} /\ (\A y \in T : T \ {y} \in P) => T \in P
    BY <1>6
  <2>2. SUBSET D \subseteq P
    <3>1. IsFiniteSet(D)
      BY <1>1
    <3> HIDE DEF P
    <3> QED BY <1>5, <2>1, <3>1, SubsetInduction
  <2> QED BY <2>2
<1>8. Max(D \cup {m}) = m /\ (D \cup {m}) \ {m} = D
  <2>1. D \cup {m} = 1 .. m /\ m \in Nat /\ m \in 1 .. m
    BY <1>1 DEF m
  <2>2. Max(1 .. m) \in 1 .. m /\ \A y \in 1 .. m : Max(1 .. m) >= y
    BY <2>1, SomeLast
  <2>3. Max(1 .. m) = m
    BY <2>1, <2>2
  <2> QED BY <1>1, <2>1, <2>3
<1>9. g[D \cup {m}] = Fallen(g[D], p[m])
  <2>1. D \cup {m} \in SUBSET (D \cup {m}) /\ D \cup {m} # {}
    OBVIOUS
  <2> QED BY <1>4, <1>8, <2>1
<1>10. g[D] = h[D]
  BY <1>7
<1> QED BY <1>1, <1>3, <1>9, <1>10 DEF p

WalkInv ==
    /\ Base
    /\ FoldLeft(Fallen, Fresh, ledger) = [peak |-> tracker.peak, fall |-> tracker.drawdown]

(* With no trade the walk has not moved.                                   *)
LEMMA WalkFresh ==
    ASSUME tracker = NewTracker, ledger = <<>>, Base
    PROVE  WalkInv
<1>1. ledger \in Seq(Records) /\ DOMAIN ledger = {}
  BY DEF Base
<1> DEFINE h == CHOOSE h : Walks(ledger, h)
<1>2. Walks(ledger, h)
  BY <1>1, WalksExist
<1>3. FoldLeft(Fallen, Fresh, ledger) = h[{}]
  BY <1>1, WalkUnfolds
<1> HIDE DEF h
<1>4. h[{}] = Fresh
  BY <1>1, <1>2 DEF Walks
<1> QED BY <1>3, <1>4 DEF Fresh, NewTracker, WalkInv

(* Recording a trade or resetting keeps the walk in step with the tracker. *)
LEMMA WalkStep == ASSUME WalkInv, [Next]_pnlVars PROVE WalkInv'
<1>1. Base'
  BY BaseStep DEF WalkInv
<1>2. CASE Record
  <2>1. PICK trade \in Records :
           /\ tracker' = Recorded(tracker, trade) /\ ledger' = Append(ledger, trade)
    BY <1>2, RecordStep DEF WalkInv
  <2>2. ledger \in Seq(Records)
    BY DEF WalkInv, Base
  <2>3. FoldLeft(Fallen, Fresh, ledger')
        = Fallen([peak |-> tracker.peak, fall |-> tracker.drawdown], trade)
    BY <2>1, <2>2, WalkGrows DEF WalkInv
  <2>4. FoldLeft(Fallen, Fresh, ledger') = [peak |-> tracker'.peak, fall |-> tracker'.drawdown]
    BY <2>1, <2>3 DEF Fallen, Recorded, PeakAfter
  <2>5. (FoldLeft(Fallen, Fresh, ledger) = [peak |-> tracker.peak, fall |-> tracker.drawdown])'
    BY <2>4 DEF Fresh
  <2> QED BY <1>1, <2>5 DEF WalkInv
<1>3. CASE Reset
  <2>1. (tracker = NewTracker /\ ledger = <<>> /\ Base)'
    BY <1>1, <1>3 DEF Reset
  <2> QED BY <2>1, WalkFresh, PTL
<1>4. CASE UNCHANGED pnlVars
  <2>1. tracker' = tracker /\ ledger' = ledger
    BY <1>4 DEF pnlVars
  <2> QED BY <1>1, <2>1 DEF WalkInv, Fresh
<1> QED BY <1>2, <1>3, <1>4 DEF Next

-----------------------------------------------------------------------------
(* The means.                                                              *)

(* Multiplying by a natural number keeps the order.                        *)
LEMMA TimesMonotone == \A k \in Nat : \A a, b \in Int : a <= b => k * a <= k * b
OBVIOUS

(* A quotient lies where the bounds of the sum put it.                     *)
LEMMA QuotientBetween ==
    ASSUME NEW n \in Nat, n > 0, NEW sum \in Int, NEW low \in Int, NEW high \in Int,
           n * low <= sum, sum <= n * high
    PROVE  low <= sum \div n /\ sum \div n <= high
<1> DEFINE d == sum \div n
<1>1. d \in Int /\ n * d <= sum /\ sum < n * d + n
  OBVIOUS
<1> HIDE DEF d
<1>2. ASSUME d < low PROVE FALSE
  <2>1. n * (d + 1) <= n * low
    BY <1>1, <1>2, TimesMonotone
  <2> QED BY <1>1, <2>1
<1>3. ASSUME high < d PROVE FALSE
  <2>1. n * (high + 1) <= n * d
    BY <1>1, <1>3, TimesMonotone
  <2> QED BY <1>1, <2>1
<1> QED BY <1>1, <1>2, <1>3 DEF d

(* Every sum lies between as many times its smallest possible and as many  *)
(* times its largest possible element.                                     *)
MeanInv ==
    /\ Base
    /\ tracker.total * tracker.worst <= tracker.pnl
    /\ tracker.pnl <= tracker.total * tracker.best
    /\ tracker.wins * (Cent + 1) <= tracker.grossWins
    /\ tracker.grossWins <= tracker.wins * tracker.best
    /\ tracker.losses * tracker.worst <= tracker.grossLosses
    /\ tracker.grossLosses <= tracker.losses * (-(Cent + 1))

(* With no trade all the bounds are zero.                                  *)
LEMMA MeanFresh ==
    ASSUME tracker = NewTracker, Base
    PROVE  MeanInv
BY TrackerAssumption DEF NewTracker, MeanInv

(* Adding one element within the bounds keeps a sum within them.           *)
LEMMA SumBetween ==
    ASSUME NEW k \in Nat, NEW sum \in Int, NEW x \in Int,
           NEW low \in Int, NEW lower \in Int, lower <= low, lower <= x,
           NEW high \in Int, NEW higher \in Int, high <= higher, x <= higher,
           k * low <= sum, sum <= k * high
    PROVE  /\ k * lower <= sum /\ sum <= k * higher
           /\ (k + 1) * lower <= sum + x /\ sum + x <= (k + 1) * higher
<1>1. k * lower <= k * low /\ k * high <= k * higher
  BY TimesMonotone
<1>2. (k + 1) * lower = k * lower + lower /\ (k + 1) * higher = k * higher + higher
  OBVIOUS
<1>3. k * lower \in Int /\ k * low \in Int /\ k * high \in Int /\ k * higher \in Int
  OBVIOUS
<1> QED BY <1>1, <1>2, <1>3

(* Recording a trade or resetting keeps the sums between their bounds.     *)
LEMMA MeanStep == ASSUME MeanInv, [Next]_pnlVars PROVE MeanInv'
<1>1. Base'
  BY BaseStep DEF MeanInv
<1>2. CASE Record
  <2>1. PICK trade \in Records :
           /\ tracker' = Recorded(tracker, trade) /\ trade.outcome = FromPnl(trade.net)
    BY <1>2, RecordStep DEF MeanInv
  <2> DEFINE x == trade.net
  <2>2. /\ x \in Int /\ Cent \in Nat
        /\ tracker.total \in Nat /\ tracker.wins \in Nat /\ tracker.losses \in Nat
        /\ tracker.pnl \in Int /\ tracker.grossWins \in Int /\ tracker.grossLosses \in Int
        /\ tracker.best \in Int /\ tracker.worst \in Int
    BY TrackerAssumption DEF MeanInv, Base, TypeOK, Records
  <2>3. /\ tracker'.total = tracker.total + 1 /\ tracker'.pnl = tracker.pnl + x
        /\ tracker'.wins = Count(tracker.wins, "Win", trade.outcome)
        /\ tracker'.losses = Count(tracker.losses, "Loss", trade.outcome)
        /\ tracker'.grossWins = IF trade.outcome = "Win" THEN tracker.grossWins + x ELSE tracker.grossWins
        /\ tracker'.grossLosses = LossAdded(tracker.grossLosses, trade)
        /\ tracker'.best = Larger(tracker.best, x) /\ tracker'.worst = Smaller(tracker.worst, x)
    BY <2>1 DEF Recorded, WorstAfter
  <2>4. /\ tracker'.best \in Int /\ tracker.best <= tracker'.best /\ x <= tracker'.best
        /\ tracker'.worst \in Int /\ tracker'.worst <= tracker.worst /\ tracker'.worst <= x
    BY <2>2, <2>3 DEF Larger, Smaller
  <2>5. /\ trade.outcome = "Win" => Cent + 1 <= x
        /\ trade.outcome = "Loss" => x <= -(Cent + 1)
    BY <2>1, <2>2 DEF FromPnl
  <2> HIDE DEF x
  <2>6. /\ tracker'.total * tracker'.worst <= tracker'.pnl
        /\ tracker'.pnl <= tracker'.total * tracker'.best
    <3>1. tracker.total * tracker.worst <= tracker.pnl /\ tracker.pnl <= tracker.total * tracker.best
      BY DEF MeanInv
    <3>2. /\ (tracker.total + 1) * tracker'.worst <= tracker.pnl + x
          /\ tracker.pnl + x <= (tracker.total + 1) * tracker'.best
      BY <2>2, <2>4, <3>1, SumBetween
    <3> QED BY <2>3, <3>2
  <2>7. /\ tracker'.wins * (Cent + 1) <= tracker'.grossWins
        /\ tracker'.grossWins <= tracker'.wins * tracker'.best
    <3>1. CASE trade.outcome = "Win"
      <4>1. tracker'.wins = tracker.wins + 1 /\ tracker'.grossWins = tracker.grossWins + x
        BY <2>3, <3>1 DEF Count
      <4>2. Cent + 1 \in Int /\ Cent + 1 <= x /\ Cent + 1 <= Cent + 1
        BY <2>2, <2>5, <3>1
      <4> QED BY <2>2, <2>4, <4>1, <4>2, SumBetween DEF MeanInv
    <3>2. CASE trade.outcome # "Win"
      <4>1. tracker'.wins = tracker.wins /\ tracker'.grossWins = tracker.grossWins
        BY <2>3, <3>2 DEF Count
      <4>2. tracker.wins * tracker.best <= tracker.wins * tracker'.best
        BY <2>2, <2>4, TimesMonotone
      <4>3. tracker.wins * tracker.best \in Int /\ tracker.wins * tracker'.best \in Int
        BY <2>2, <2>4
      <4> QED BY <2>2, <4>1, <4>2, <4>3 DEF MeanInv
    <3> QED BY <3>1, <3>2
  <2>8. /\ tracker'.losses * tracker'.worst <= tracker'.grossLosses
        /\ tracker'.grossLosses <= tracker'.losses * (-(Cent + 1))
    <3>1. CASE trade.outcome = "Loss"
      <4>1. tracker'.losses = tracker.losses + 1 /\ tracker'.grossLosses = tracker.grossLosses + x
        BY <2>3, <3>1 DEF Count, LossAdded, x
      <4>2. -(Cent + 1) \in Int /\ x <= -(Cent + 1) /\ -(Cent + 1) <= -(Cent + 1)
        BY <2>2, <2>5, <3>1
      <4> QED BY <2>2, <2>4, <4>1, <4>2, SumBetween DEF MeanInv
    <3>2. CASE trade.outcome # "Loss"
      <4>1. tracker'.losses = tracker.losses /\ tracker'.grossLosses = tracker.grossLosses
        BY <2>3, <3>2 DEF Count, LossAdded
      <4>2. tracker.losses * tracker'.worst <= tracker.losses * tracker.worst
        BY <2>2, <2>4, TimesMonotone
      <4>3. tracker.losses * tracker.worst \in Int /\ tracker.losses * tracker'.worst \in Int
        BY <2>2, <2>4
      <4> QED BY <2>2, <4>1, <4>2, <4>3 DEF MeanInv
    <3> QED BY <3>1, <3>2
  <2> QED BY <1>1, <2>6, <2>7, <2>8 DEF MeanInv
<1>3. CASE Reset
  <2>1. (tracker = NewTracker /\ Base)'
    BY <1>1, <1>3 DEF Reset
  <2> QED BY <2>1, MeanFresh, PTL
<1>4. CASE UNCHANGED pnlVars
  BY <1>1, <1>4 DEF pnlVars, MeanInv, Base
<1> QED BY <1>2, <1>3, <1>4 DEF Next

-----------------------------------------------------------------------------
(* The engine's statistics, computed from the trades, are the tracker's.   *)
LEMMA StatsAgree ==
    ASSUME BookInv, ExtremeInv, WalkInv
    PROVE  LET s == Snapshot(tracker)
           IN  EngineStats(ledger) =
                  [total |-> s.total, wins |-> s.wins, losses |-> s.losses, winPct |-> s.winPct,
                   pnl |-> s.pnl, best |-> s.best, worst |-> s.worst, drawdown |-> s.drawdown,
                   balance |-> s.balance]
<1> DEFINE nets == {ledger[i].net : i \in DOMAIN ledger}
<1>1. /\ tracker.total = Len(ledger) /\ Len(ledger) \in Nat
      /\ Cardinality({i \in DOMAIN ledger : ledger[i].outcome = "Win"}) = tracker.wins
      /\ Cardinality({i \in DOMAIN ledger : ledger[i].outcome = "Loss"}) = tracker.losses
      /\ SumFunction([i \in DOMAIN ledger |-> ledger[i].net]) = tracker.pnl
  <2>1. OfIn(ledger, "Win") = {i \in DOMAIN ledger : ledger[i].outcome = "Win"}
    BY DEF OfIn
  <2>2. OfIn(ledger, "Loss") = {i \in DOMAIN ledger : ledger[i].outcome = "Loss"}
    BY DEF OfIn
  <2>3. NetsIn(ledger) = [i \in DOMAIN ledger |-> ledger[i].net]
    BY DEF NetsIn
  <2>4. ledger \in Seq(Records)
    BY DEF BookInv, Base
  <2>5. Len(ledger) \in Nat
    BY <2>4
  <2>6. /\ tracker.total = Len(ledger)
        /\ tracker.wins = Cardinality(OfIn(ledger, "Win"))
        /\ tracker.losses = Cardinality(OfIn(ledger, "Loss"))
        /\ tracker.pnl = SumFunction(NetsIn(ledger))
    BY DEF BookInv
  <2> QED BY <2>1, <2>2, <2>3, <2>5, <2>6, Zenon
<1>2. FoldLeft(Fallen, [peak |-> Initial, fall |-> 0], ledger).fall = tracker.drawdown
  BY DEF WalkInv, Fresh
<1>3. Len(ledger) > 0 => Max(nets) = tracker.best /\ Min(nets) = tracker.worst
  <2> SUFFICES ASSUME Len(ledger) > 0 PROVE Max(nets) = tracker.best /\ Min(nets) = tracker.worst
    OBVIOUS
  <2>1. ledger # <<>>
    OBVIOUS
  <2>2. nets = {NetOf(i) : i \in Trades}
    BY DEF NetOf, Trades
  <2>3. /\ tracker.best \in nets /\ tracker.worst \in nets
        /\ \A n \in nets : tracker.worst <= n /\ n <= tracker.best
    BY <2>1, <2>2 DEF ExtremeInv, ExtremesAreTrades
  <2>4. \A n \in nets : n \in Int
    <3>1. ledger \in Seq(Records)
      BY DEF BookInv, Base
    <3>2. \A i \in DOMAIN ledger : ledger[i] \in Records
      BY <3>1
    <3> QED BY <3>2 DEF Records
  <2> HIDE DEF nets
  <2>5. /\ tracker.best >= tracker.best /\ \A n \in nets : tracker.best >= n
        /\ \A n \in nets : tracker.worst =< n
    BY <2>3, <2>4
  <2>6. Max(nets) \in nets /\ \A n \in nets : Max(nets) >= n
    BY <2>3, <2>5 DEF Max
  <2>7. Min(nets) \in nets /\ \A n \in nets : Min(nets) =< n
    BY <2>3, <2>5 DEF Min
  <2> QED BY <2>3, <2>4, <2>5, <2>6, <2>7
<1>4. IF Len(ledger) > 0 THEN ledger[Len(ledger)].after = tracker.balance ELSE Initial = tracker.balance
  BY <1>1 DEF BookInv, Base, BalanceAt
<1> DEFINE s == Snapshot(tracker)  e == EngineStats(ledger)
<1>5. e = [total |-> Len(ledger), wins |-> tracker.wins, losses |-> tracker.losses,
           winPct |-> Share(tracker.wins * 100, Len(ledger)), pnl |-> tracker.pnl,
           best |-> IF Len(ledger) > 0 THEN Max(nets) ELSE 0,
           worst |-> IF Len(ledger) > 0 THEN Min(nets) ELSE 0,
           drawdown |-> tracker.drawdown,
           balance |-> IF Len(ledger) > 0 THEN ledger[Len(ledger)].after ELSE Initial]
  BY <1>1, <1>2, Zenon DEF EngineStats
<1>6. /\ s.total = tracker.total /\ s.wins = tracker.wins /\ s.losses = tracker.losses
      /\ s.winPct = Share(tracker.wins * 100, tracker.total) /\ s.pnl = tracker.pnl
      /\ s.best = (IF tracker.total > 0 THEN tracker.best ELSE 0)
      /\ s.worst = (IF tracker.total > 0 THEN tracker.worst ELSE 0)
      /\ s.drawdown = tracker.drawdown /\ s.balance = tracker.balance
  BY DEF Snapshot
<1>7. /\ (IF Len(ledger) > 0 THEN Max(nets) ELSE 0) = s.best
      /\ (IF Len(ledger) > 0 THEN Min(nets) ELSE 0) = s.worst
      /\ (IF Len(ledger) > 0 THEN ledger[Len(ledger)].after ELSE Initial) = s.balance
      /\ Share(tracker.wins * 100, Len(ledger)) = s.winPct
  <2> HIDE DEF nets, s
  <2> QED BY <1>1, <1>3, <1>4, <1>6
<1> HIDE DEF nets, s, e
<1> QED BY <1>1, <1>5, <1>6, <1>7 DEF s, e

(* A mean of the snapshot lies between the trades it is a mean of.         *)
LEMMA MeansLie ==
    ASSUME BookInv, MeanInv, ExtremeInv
    PROVE  LET s == Snapshot(tracker)
           IN  /\ ledger # <<>> => s.worst <= s.expectancy /\ s.expectancy <= s.best
               /\ s.wins > 0 => Cent < s.avgWin /\ s.avgWin <= s.best
               /\ s.losses > 0 => s.worst <= s.avgLoss /\ s.avgLoss < -Cent
               /\ s.wins > 0 /\ s.losses = 0 => s.profitFactor = Cap
<1> DEFINE s == Snapshot(tracker)
<1>1. /\ s.wins = tracker.wins /\ s.losses = tracker.losses
      /\ s.expectancy = Share(tracker.pnl, tracker.total)
      /\ s.avgWin = Share(tracker.grossWins, tracker.wins)
      /\ s.avgLoss = Share(tracker.grossLosses, tracker.losses)
      /\ s.best = (IF tracker.total > 0 THEN tracker.best ELSE 0)
      /\ s.worst = (IF tracker.total > 0 THEN tracker.worst ELSE 0)
      /\ s.profitFactor = IF tracker.grossLosses < 0
                           THEN Smaller(Share(tracker.grossWins, -tracker.grossLosses), Cap)
                           ELSE IF tracker.grossWins > 0 THEN Cap ELSE 0
  BY DEF Snapshot
<1>2. /\ tracker.total \in Nat /\ tracker.wins \in Nat /\ tracker.losses \in Nat /\ tracker.breakevens \in Nat
      /\ tracker.pnl \in Int /\ tracker.grossWins \in Int /\ tracker.grossLosses \in Int
      /\ tracker.best \in Int /\ tracker.worst \in Int /\ Cent \in Nat
  BY TrackerAssumption DEF BookInv, Base, TypeOK
<1>3. /\ tracker.total * tracker.worst <= tracker.pnl
      /\ tracker.pnl <= tracker.total * tracker.best
      /\ tracker.wins * (Cent + 1) <= tracker.grossWins
      /\ tracker.grossWins <= tracker.wins * tracker.best
      /\ tracker.losses * tracker.worst <= tracker.grossLosses
      /\ tracker.grossLosses <= tracker.losses * (-(Cent + 1))
  BY DEF MeanInv
<1>4. /\ tracker.wins > 0 => tracker.total > 0
      /\ tracker.losses > 0 => tracker.total > 0
      /\ ledger # <<>> => tracker.total > 0
  <2>1. tracker.total = Len(ledger) /\ tracker.total = tracker.wins + tracker.losses + tracker.breakevens
    BY DEF BookInv
  <2>2. ledger \in Seq(Records)
    BY DEF BookInv, Base
  <2>3. Len(ledger) \in Nat
    BY <2>2
  <2>4. Len(ledger) = 0 => ledger = <<>>
    BY <2>2
  <2> QED BY <1>2, <2>1, <2>4, <2>3
<1> HIDE DEF s
<1>5. ASSUME ledger # <<>> PROVE s.worst <= s.expectancy /\ s.expectancy <= s.best
  <2>1. tracker.worst <= tracker.pnl \div tracker.total /\ tracker.pnl \div tracker.total <= tracker.best
    BY <1>2, <1>3, <1>4, <1>5, QuotientBetween
  <2> QED BY <1>1, <1>4, <1>5, <2>1 DEF Share
<1>6. ASSUME tracker.wins > 0 PROVE Cent < s.avgWin /\ s.avgWin <= s.best
  <2>1. Cent + 1 <= tracker.grossWins \div tracker.wins /\ tracker.grossWins \div tracker.wins <= tracker.best
    BY <1>2, <1>3, <1>6, QuotientBetween
  <2>2. s.avgWin = tracker.grossWins \div tracker.wins /\ s.avgWin \in Int /\ s.best = tracker.best
    BY <1>1, <1>2, <1>4, <1>6 DEF Share
  <2> QED BY <1>2, <2>1, <2>2
<1>7. ASSUME tracker.losses > 0 PROVE s.worst <= s.avgLoss /\ s.avgLoss < -Cent
  <2>1. /\ tracker.worst <= tracker.grossLosses \div tracker.losses
        /\ tracker.grossLosses \div tracker.losses <= -(Cent + 1)
    BY <1>2, <1>3, <1>7, QuotientBetween
  <2>2. s.avgLoss = tracker.grossLosses \div tracker.losses /\ s.avgLoss \in Int /\ s.worst = tracker.worst
    BY <1>1, <1>2, <1>4, <1>7 DEF Share
  <2> QED BY <1>2, <2>1, <2>2
<1>8. ASSUME tracker.wins > 0, tracker.losses = 0 PROVE s.profitFactor = Cap
  <2>1. tracker.grossLosses = 0
    BY <1>2, <1>3, <1>8
  <2>2. tracker.grossWins > 0
    <3>1. tracker.wins * (Cent + 1) >= 1
      BY <1>2, <1>8
    <3>2. tracker.wins * (Cent + 1) \in Int
      BY <1>2
    <3> QED BY <1>2, <1>3, <3>1, <3>2
  <2> QED BY <1>1, <2>1, <2>2
<1> QED BY <1>1, <1>5, <1>6, <1>7, <1>8 DEF s

(* What a snapshot derives says what the trades say.                       *)
LEMMA SnapshotSays ==
    ASSUME BookInv, ExtremeInv, WalkInv, MeanInv
    PROVE  SnapshotIsSound
<1> DEFINE s == Snapshot(tracker)  e == EngineStats(ledger)
<1>1. e = [total |-> s.total, wins |-> s.wins, losses |-> s.losses, winPct |-> s.winPct,
           pnl |-> s.pnl, best |-> s.best, worst |-> s.worst, drawdown |-> s.drawdown,
           balance |-> s.balance]
  BY StatsAgree
<1>2. /\ ledger # <<>> => s.worst <= s.expectancy /\ s.expectancy <= s.best
      /\ s.wins > 0 => Cent < s.avgWin /\ s.avgWin <= s.best
      /\ s.losses > 0 => s.worst <= s.avgLoss /\ s.avgLoss < -Cent
      /\ s.wins > 0 /\ s.losses = 0 => s.profitFactor = Cap
  BY MeansLie
<1> HIDE DEF s, e
<1>3. \A f \in DOMAIN e : e[f] = s[f]
  BY <1>1
<1> QED BY <1>2, <1>3 DEF SnapshotIsSound, s, e

-----------------------------------------------------------------------------
StatInv == BookInv /\ StreakInv /\ ExtremeInv /\ WalkInv /\ MeanInv

(* Every statistic record() keeps in O(1), and every one a snapshot        *)
(* derives from them, is what it claims to be of the list of trades, and   *)
(* the engine's own statistics say the same (pnl_tracker.rs:168-304,       *)
(* paper_engine.rs:511-601).                                               *)
THEOREM Statistics == Spec => []StatisticsAreTrue
<1>1. Init => StatInv
  <2> SUFFICES ASSUME Init PROVE StatInv
    OBVIOUS
  <2>1. tracker = NewTracker /\ ledger = <<>> /\ Base
    BY BaseInit DEF Init
  <2>2. ExtremeInv
    BY <2>1 DEF NewTracker, ExtremeInv, ExtremesAreTrades
  <2> QED BY <2>1, <2>2, BookFresh, StreakFresh, WalkFresh, MeanFresh DEF StatInv
<1>2. StatInv /\ [Next]_pnlVars => StatInv'
  BY BookStep, StreakStep, ExtremeStep, WalkStep, MeanStep DEF StatInv
<1>3. StatInv => StatisticsAreTrue
  BY BookInvSays, StreakInvSays, SnapshotSays DEF StatInv, StatisticsAreTrue, ExtremeInv
<1> QED BY <1>1, <1>2, <1>3, PTL DEF Spec
=============================================================================
