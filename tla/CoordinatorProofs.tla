------------------------- MODULE CoordinatorProofs -------------------------
(***************************************************************************)
(* Proofs about Coordinator for every configuration: any thresholds, any   *)
(* cooldown, any number of trades and any holdings.                        *)
(***************************************************************************)
EXTENDS Coordinator, TLAPS

USE DEF Ids, Legs, Directions, NotYet, NoReading, BadReading, Elapsed,
        NoSignal, Signals, Tracker, OrderState, Outcomes,
        Recorded, NextId, BothResolved, Stamp

(* An order is executed at either venue.                                   *)
Executes(id, leg) ==
    \/ leg = "cex" /\ \E amount \in Amounts : ExecuteCex(id, amount)
    \/ leg = "dex" /\ ExecuteDex(id)

(* Executing an order settles that order and nothing the process holds.    *)
LEMMA ExecutesOne ==
    ASSUME TypeOK, NEW id \in Ids, NEW leg \in Legs, Executes(id, leg)
    PROVE  /\ order[id][leg] = "pending"
           /\ order' \in [Ids -> [Legs -> OrderState]]
           /\ \A i \in Ids, l \in Legs :
                 order'[i][l] = IF i = id /\ l = leg THEN "executed" ELSE order[i][l]
           /\ UNCHANGED <<memory, call, history>>
<1>1. order \in [Ids -> [Legs -> OrderState]]
  BY DEF TypeOK
<1>2. /\ order[id][leg] = "pending"
      /\ order' = [order EXCEPT ![id][leg] = "executed"]
      /\ UNCHANGED <<memory, call, history>>
  <2>1. CASE leg = "dex"
    BY <2>1 DEF Executes, ExecuteDex
  <2>2. ASSUME leg = "cex", NEW amount \in Amounts, ExecuteCex(id, amount)
        PROVE  /\ order[id][leg] = "pending"
               /\ order' = [order EXCEPT ![id][leg] = "executed"]
               /\ UNCHANGED <<memory, call, history>>
    BY <2>2 DEF ExecuteCex
  <2>3. QED
    BY <2>1, <2>2 DEF Executes
<1>3. QED
  BY <1>1, <1>2

(* Types are kept by every step of the coordinator and of the venues.      *)
LEMMA TypeStep == ASSUME ConfigAssumption, TypeOK, CallCoherent, [Next]_vars
                  PROVE  TypeOK'
<1> USE DEF ConfigAssumption, TypeOK
<1>1. ASSUME NEW s \in Signals, OnSignal(s) PROVE TypeOK'
  BY <1>1 DEF OnSignal, memory, venues, history
<1>2. ASSUME Gates PROVE TypeOK'
  <2>1. CASE SignalStale
    BY <2>1 DEF SignalStale, Return, memory, venues, history
  <2>2. CASE PaperSkip
    BY <2>2 DEF PaperSkip, Return, memory, venues, history
  <2>3. ASSUME NEW won \in BOOLEAN, PaperTrade(won) PROVE TypeOK'
    <3>1. tracker' \in Tracker
      BY <2>3 DEF PaperTrade
    <3>2. QED
      BY <2>3, <3>1 DEF PaperTrade, Return, venues, history
  <2>4. CASE PrerequisitesNotMet
    BY <2>4 DEF PrerequisitesNotMet, Return, memory, venues, history
  <2>5. CASE LiveCooldownSkip
    BY <2>5 DEF LiveCooldownSkip, Return, memory, venues, history
  <2>6. CASE AskBalances
    BY <2>6 DEF AskBalances, memory, venues, history
  <2>7. QED
    BY <1>2, <2>1, <2>2, <2>3, <2>4, <2>5, <2>6 DEF Gates
<1>3. ASSUME NEW b, BalancesRead(b) PROVE TypeOK'
  BY <1>3 DEF BalancesRead, memory, venues, history
<1>4. CASE BalanceFailed \/ InsufficientBalance
  BY <1>4 DEF BalanceFailed, InsufficientBalance, Return, memory, venues, history
<1>5. CASE Fire
  <2>1. tradeCounter + 1 \in Ids
    BY <1>5 DEF Fire, CallCoherent
  <2>2. /\ order' \in [Ids -> [Legs -> OrderState]]
        /\ tradeDir' \in [Ids -> Directions \cup {"none"}]
        /\ outcome' \in [Ids -> Outcomes]
    BY <1>5, <2>1 DEF Fire
  <2>3. QED
    BY <1>5, <2>1, <2>2 DEF Fire
<1>6. ASSUME NEW leg \in Legs, LegDone(leg) PROVE TypeOK'
  <2>1. CASE ReplyOk(leg)
    BY <2>1 DEF ReplyOk, memory, venues, history
  <2>2. CASE ReplyErr(leg)
    BY <2>2 DEF ReplyErr, memory, venues, history
  <2>3. CASE ReplyLost(leg)
    BY <2>3 DEF ReplyLost, memory, venues, history
  <2>4. QED
    BY <1>6, <2>1, <2>2, <2>3 DEF LegDone
<1>7. CASE LegsJoined
  <2>1. outcome' \in [Ids -> Outcomes]
    BY <1>7 DEF LegsJoined, JoinedOutcome
  <2>2. QED
    BY <1>7, <2>1 DEF LegsJoined, Return, venues
<1>8. CASE Abort
  <2>1. outcome' \in [Ids -> Outcomes]
    BY <1>8 DEF Abort
  <2>2. QED
    BY <1>8, <2>1 DEF Abort, memory, venues
<1>9. ASSUME NEW id \in Ids, NEW leg \in Legs, Executes(id, leg) PROVE TypeOK'
  <2>1. usdc' \in Nat
    <3>1. CASE leg = "dex"
      BY <1>9, <3>1 DEF Executes, ExecuteDex
    <3>2. ASSUME NEW amount \in Amounts, ExecuteCex(id, amount) PROVE usdc' \in Nat
      BY <3>2 DEF ExecuteCex, Affordable, Settled
    <3>3. QED
      BY <1>9, <3>1, <3>2 DEF Executes
  <2>2. order' \in [Ids -> [Legs -> OrderState]]
    BY <1>9, ExecutesOne
  <2>3. UNCHANGED <<memory, call, history>>
    BY <1>9, ExecutesOne
  <2>4. QED
    BY <2>1, <2>2, <2>3 DEF memory, call, history
<1>10. ASSUME NEW id \in Ids, NEW leg \in Legs, Refuse(id, leg) PROVE TypeOK'
  BY <1>10 DEF Refuse, memory, call, history
<1>11. ASSUME NEW id \in Ids, Expire(id) PROVE TypeOK'
  BY <1>11 DEF Expire, memory, call, history
<1>12. CASE SlotAdvance
  BY <1>12 DEF SlotAdvance, memory, venues, history
<1>13. CASE Tick
  BY <1>13 DEF Tick, Later, call, venues
<1>14. CASE UNCHANGED vars
  BY <1>14 DEF vars, memory, call, venues, history
<1>15. QED
  BY <1>1, <1>2, <1>3, <1>4, <1>5, <1>6, <1>7, <1>8, <1>9, <1>10, <1>11,
     <1>12, <1>13, <1>14 DEF Next, Balance, Venue, Executes

(* What one call leaves true for its later steps survives every step.      *)
LEMMA CallStep ==
    ASSUME ConfigAssumption, TypeOK, CallCoherent, TradesAreSequential, [Next]_vars
    PROVE  CallCoherent'
<1> USE DEF ConfigAssumption, TypeOK, CallCoherent, CoolingDown, PrerequisitesMet
<1>1. ASSUME NEW s \in Signals, OnSignal(s) PROVE CallCoherent'
  BY <1>1 DEF OnSignal, memory, venues, history
<1>2. CASE Gates
  <2>1. CASE SignalStale \/ PaperSkip \/ PrerequisitesNotMet \/ LiveCooldownSkip
    BY <2>1 DEF SignalStale, PaperSkip, PrerequisitesNotMet, LiveCooldownSkip,
                Return, memory, venues, history
  <2>2. ASSUME NEW won \in BOOLEAN, PaperTrade(won) PROVE CallCoherent'
    BY <2>2 DEF PaperTrade, Return, venues, history
  <2>3. CASE AskBalances
    BY <2>3 DEF AskBalances, memory, venues, history
  <2>4. QED
    BY <1>2, <2>1, <2>2, <2>3 DEF Gates
<1>3. ASSUME NEW b, BalancesRead(b) PROVE CallCoherent'
  BY <1>3 DEF BalancesRead, memory, venues, history
<1>4. CASE BalanceFailed \/ InsufficientBalance
  BY <1>4 DEF BalanceFailed, InsufficientBalance, Return, memory, venues, history
<1>5. CASE Fire
  <2>1. tradeCounter + 1 \in Ids
    BY <1>5 DEF Fire
  <2>2. \A id \in Ids : /\ order'[id]["dex"] # "expired"
                        /\ outcome'[id] # "aborted"
    BY <1>5, <2>1 DEF Fire
  <2>3. /\ pc' = "legs" /\ tradeCounter' = tradeCounter + 1
        /\ \A leg \in Legs : reply'[leg] = "none"
        /\ sinceLast' = quiet'
    BY <1>5 DEF Fire
  <2>4. QED
    BY <2>1, <2>2, <2>3
<1>6. ASSUME NEW leg \in Legs, LegDone(leg) PROVE CallCoherent'
  <2>1. CASE ReplyOk(leg)
    BY <2>1 DEF ReplyOk, memory, venues, history
  <2>2. CASE ReplyErr(leg)
    BY <2>2 DEF ReplyErr, memory, venues, history
  <2>3. CASE ReplyLost(leg)
    BY <2>3 DEF ReplyLost, memory, venues, history
  <2>4. QED
    BY <1>6, <2>1, <2>2, <2>3 DEF LegDone
<1>7. CASE LegsJoined
  <2>1. \A id \in Ids : outcome'[id] # "aborted"
    <3>1. JoinedOutcome # "aborted"
      BY DEF JoinedOutcome
    <3>2. QED
      BY <1>7, <3>1 DEF LegsJoined
  <2>2. QED
    BY <1>7, <2>1 DEF LegsJoined, Return, venues
<1>8. CASE Abort
  BY <1>8 DEF Abort, memory, venues
<1>9. ASSUME NEW id \in Ids, NEW leg \in Legs,
             Executes(id, leg) \/ Refuse(id, leg) PROVE CallCoherent'
  <2>1. \A i \in Ids, l \in Legs :
           order'[i][l] = order[i][l] \/ (order[i][l] = "pending"
                                          /\ order'[i][l] # "expired")
    BY <1>9, ExecutesOne DEF Refuse
  <2>2. UNCHANGED <<memory, call, history>>
    BY <1>9, ExecutesOne DEF Refuse
  <2>3. \A i \in Ids, l \in Legs : order[i][l] \in {"executed", "expired"}
                                     => order'[i][l] = order[i][l]
    BY <2>1
  <2>4. \A i \in Ids : order'[i]["dex"] # "expired"
    BY <2>1
  <2>5. QED
    BY <2>2, <2>3, <2>4 DEF memory, call, history
<1>10. ASSUME NEW id \in Ids, Expire(id) PROVE CallCoherent'
  <2>1. \A i \in Ids, l \in Legs :
           order'[i][l] = order[i][l] \/ (order[i][l] = "pending" /\ l = "cex")
    BY <1>10 DEF Expire
  <2>2. UNCHANGED <<memory, call, history>>
    BY <1>10 DEF Expire
  <2>3. QED
    BY <2>1, <2>2 DEF memory, call, history
<1>11. CASE SlotAdvance
  BY <1>11 DEF SlotAdvance, memory, venues, history
<1>12. CASE Tick
  BY <1>12 DEF Tick, Later, call, venues
<1>13. CASE UNCHANGED vars
  BY <1>13 DEF vars, memory, call, venues, history
<1>14. QED
  BY <1>1, <1>2, <1>3, <1>4, <1>5, <1>6, <1>7, <1>8, <1>9, <1>10, <1>11,
     <1>12, <1>13 DEF Next, Balance, Venue, Executes

(* No step creates or leaves an order without its licence: only Fire       *)
(* creates one, out of a balance request that passed the gates, and the    *)
(* tracker is written in paper mode only.                                  *)
LEMMA LicenceStep ==
    ASSUME ConfigAssumption, TypeOK, CallCoherent, OrdersAreLicensed, [Next]_vars
    PROVE  OrdersAreLicensed'
<1> USE DEF ConfigAssumption, TypeOK, OrdersAreLicensed, PrerequisitesMet
<1>1. ASSUME UNCHANGED <<paperMode, clientLive, tracker, order>>
      PROVE  OrdersAreLicensed'
  BY <1>1
<1>2. ASSUME NEW won \in BOOLEAN, PaperTrade(won) PROVE OrdersAreLicensed'
  BY <1>2 DEF PaperTrade, venues
<1>3. CASE Fire
  <2>1. tradeCounter + 1 \in Ids /\ ~paperMode /\ PrerequisitesMet
    BY <1>3 DEF Fire, CallCoherent
  <2>2. UNCHANGED <<paperMode, clientLive, tracker>>
    BY <1>3 DEF Fire
  <2>3. \A id \in Ids, leg \in Legs :
          order'[id][leg] = order[id][leg]
            \/ order'[id][leg] = (IF clientLive[leg] THEN "pending" ELSE "unsent")
    BY <1>3, <2>1 DEF Fire
  <2>4. QED
    BY <2>1, <2>2, <2>3
<1>4. ASSUME NEW id \in Ids, NEW leg \in Legs,
             Executes(id, leg) \/ Refuse(id, leg) \/ (Expire(id) /\ leg = "cex")
      PROVE  OrdersAreLicensed'
  <2>1. order[id][leg] = "pending"
    BY <1>4, ExecutesOne DEF Refuse, Expire
  <2>2. \A i \in Ids, l \in Legs :
          order'[i][l] = order[i][l] \/ (i = id /\ l = leg)
    BY <1>4, ExecutesOne DEF Refuse, Expire
  <2>3. UNCHANGED <<paperMode, clientLive, tracker>>
    BY <1>4, ExecutesOne DEF Refuse, Expire, memory
  <2>4. QED
    BY <2>1, <2>2, <2>3
<1>5. CASE UNCHANGED vars
  BY <1>1, <1>5 DEF vars, memory, venues
<1>6. QED
  <2>1. ASSUME NEW s \in Signals, OnSignal(s) PROVE OrdersAreLicensed'
    BY <1>1, <2>1 DEF OnSignal, memory, venues
  <2>2. CASE Gates
    BY <1>1, <1>2, <2>2 DEF Gates, SignalStale, PaperSkip, PrerequisitesNotMet,
       LiveCooldownSkip, AskBalances, memory, venues
  <2>3. CASE Balance
    BY <1>1, <1>3, <2>3 DEF Balance, BalancesRead, BalanceFailed, InsufficientBalance, memory, venues
  <2>4. ASSUME NEW leg \in Legs, LegDone(leg) PROVE OrdersAreLicensed'
    BY <1>1, <2>4 DEF LegDone, ReplyOk, ReplyErr, ReplyLost, memory, venues
  <2>5. CASE LegsJoined \/ Abort \/ SlotAdvance \/ Tick
    BY <1>1, <2>5 DEF LegsJoined, Abort, SlotAdvance, Tick, memory, venues
  <2>6. CASE Venue
    BY <1>4, <2>6 DEF Venue, Executes
  <2>7. QED
    BY <1>5, <2>1, <2>2, <2>3, <2>4, <2>5, <2>6 DEF Next

(* A venue never takes back what it executed or expired.                   *)
LEMMA VenueStep ==
    ASSUME ConfigAssumption, TypeOK, Venue
    PROVE  /\ UNCHANGED <<memory, call, history>>
           /\ \A i \in Ids, l \in Legs :
                 order'[i][l] = order[i][l] \/ order[i][l] = "pending"
           /\ \A i \in Ids, l \in Legs :
                 order'[i][l] = "none" <=> order[i][l] = "none"
<1> USE DEF ConfigAssumption, TypeOK
<1>1. ASSUME NEW id \in Ids, NEW leg \in Legs, Executes(id, leg) \/ Refuse(id, leg)
      PROVE  /\ UNCHANGED <<memory, call, history>>
             /\ \A i \in Ids, l \in Legs :
                   order'[i][l] = order[i][l]
                     \/ (order[i][l] = "pending" /\ order'[i][l] # "none")
  <2>1. CASE Executes(id, leg)
    BY <2>1, ExecutesOne
  <2>2. CASE Refuse(id, leg)
    BY <2>2 DEF Refuse, history
  <2>3. QED
    BY <1>1, <2>1, <2>2
<1>2. ASSUME NEW id \in Ids, Expire(id)
      PROVE  /\ UNCHANGED <<memory, call, history>>
             /\ \A i \in Ids, l \in Legs :
                   order'[i][l] = order[i][l]
                     \/ (order[i][l] = "pending" /\ order'[i][l] # "none")
  BY <1>2 DEF Expire
<1>3. PICK id \in Ids : \/ \E leg \in Legs : Executes(id, leg) \/ Refuse(id, leg)
                        \/ Expire(id)
  BY DEF Venue, Executes
<1>4. QED
  BY <1>1, <1>2, <1>3

(* What a result says of the venues is true when it is returned and stays  *)
(* true: the join saw both answers, and a venue never undoes an order. The *)
(* trade without a report is the newest, and a stop makes it the last.     *)
LEMMA ReportStep ==
    ASSUME ConfigAssumption, TypeOK, CallCoherent, TradesAreSequential,
           ReportMatchesVenues, [Next]_vars
    PROVE  ReportMatchesVenues'
<1> USE DEF ConfigAssumption, TypeOK, ReportMatchesVenues, OneSided
<1>1. ASSUME UNCHANGED <<order, outcome, tradeCounter>>,
             pc' = pc \/ pc # "dead"
      PROVE  ReportMatchesVenues'
  BY <1>1
<1>2. CASE Fire
  <2>1. tradeCounter + 1 \in Ids /\ tradeCounter' = tradeCounter + 1
    BY <1>2 DEF Fire, CallCoherent
  <2>2. \A id \in Ids : IF id = tradeCounter + 1 THEN outcome'[id] = "flying"
                        ELSE outcome'[id] = outcome[id] /\ order'[id] = order[id]
    BY <1>2, <2>1 DEF Fire
  <2>3. \A id \in Ids : outcome[id] \notin {"flying", "aborted"}
    BY <1>2 DEF Fire, TradesAreSequential
  <2>4. QED
    BY <2>1, <2>2, <2>3
<1>3. CASE LegsJoined
  <2>1. order' = order /\ tradeCounter \in Ids /\ tradeCounter' = tradeCounter
    BY <1>3 DEF LegsJoined, venues, CallCoherent
  <2>2. \A id \in Ids : outcome'[id] = outcome[id]
          \/ (id = tradeCounter /\ outcome'[id] = JoinedOutcome)
    BY <1>3 DEF LegsJoined
  <2>3. \A leg \in Legs : reply[leg] \in {"ok", "err"}
    BY <1>3 DEF LegsJoined
  <2>4. \A leg \in Legs : reply[leg] = "ok" =>
                order[tradeCounter][leg] \in {"executed", "expired"}
    BY <1>3 DEF LegsJoined, CallCoherent
  <2>5. order[tradeCounter]["dex"] # "expired"
    BY <2>1 DEF CallCoherent
  <2>6. \A id \in Ids : outcome[id] # "aborted"
    BY <1>3 DEF LegsJoined
  <2>7. QED
    BY <2>1, <2>2, <2>3, <2>4, <2>5, <2>6 DEF JoinedOutcome
<1>4. CASE Abort
  <2>1. order' = order /\ tradeCounter' = tradeCounter /\ pc' = "dead"
    BY <1>4 DEF Abort, memory, venues
  <2>2. \A id \in Ids : \/ outcome'[id] = outcome[id]
                        \/ id = tradeCounter /\ outcome'[id] = "aborted"
    BY <1>4 DEF Abort
  <2>3. QED
    BY <2>1, <2>2
<1>5. CASE Venue
  <2>1. outcome' = outcome /\ tradeCounter' = tradeCounter /\ pc' = pc
    BY <1>5, VenueStep DEF memory, call, history
  <2>2. \A i \in Ids, l \in Legs :
          order'[i][l] = order[i][l] \/ order[i][l] = "pending"
    BY <1>5, VenueStep
  <2>3. ASSUME NEW id \in Ids, outcome[id] \in {"Filled", "dex_err"}
        PROVE  /\ order'[id]["cex"] = order[id]["cex"]
               /\ outcome[id] = "Filled" => order'[id]["dex"] = order[id]["dex"]
    BY <2>2, <2>3
  <2>4. QED
    BY <2>1, <2>3
<1>6. CASE UNCHANGED vars
  BY <1>1, <1>6 DEF vars, memory, call, venues, history
<1>7. QED
  <2>1. ASSUME NEW s \in Signals, OnSignal(s) PROVE ReportMatchesVenues'
    BY <1>1, <2>1 DEF OnSignal, memory, venues, history
  <2>2. CASE Gates
    BY <1>1, <2>2 DEF Gates, SignalStale, PaperSkip, PaperTrade,
       PrerequisitesNotMet, LiveCooldownSkip, AskBalances, memory, venues, history
  <2>3. CASE Balance
    BY <1>1, <1>2, <2>3 DEF Balance, BalancesRead, BalanceFailed, InsufficientBalance,
       memory, venues, history
  <2>4. ASSUME NEW leg \in Legs, LegDone(leg) PROVE ReportMatchesVenues'
    BY <1>1, <2>4 DEF LegDone, ReplyOk, ReplyErr, ReplyLost, memory, venues, history
  <2>5. CASE SlotAdvance \/ Tick
    BY <1>1, <2>5 DEF SlotAdvance, Tick, call, memory, venues, history
  <2>6. QED
    BY <1>3, <1>4, <1>5, <1>6, <2>1, <2>2, <2>3, <2>4, <2>5 DEF Next

(* Ids stay dense, and the trade in flight is always the newest.           *)
LEMMA SequenceStep ==
    ASSUME ConfigAssumption, TypeOK, CallCoherent, TradesAreSequential, [Next]_vars
    PROVE  TradesAreSequential'
<1> USE DEF ConfigAssumption, TypeOK, TradesAreSequential
<1>1. ASSUME UNCHANGED <<order, outcome, tradeCounter>>,
             pc' = pc \/ (pc # "legs" /\ pc' # "legs")
      PROVE  TradesAreSequential'
  BY <1>1
<1>2. CASE Fire
  <2>1. tradeCounter + 1 \in Ids /\ pc' = "legs" /\ tradeCounter' = tradeCounter + 1
    BY <1>2 DEF Fire, CallCoherent
  <2>2. \A id \in Ids :
          IF id = tradeCounter + 1
          THEN /\ outcome'[id] = "flying"
               /\ \A leg \in Legs : order'[id][leg] # "none"
          ELSE outcome'[id] = outcome[id] /\ order'[id] = order[id]
    BY <1>2, <2>1 DEF Fire
  <2>3. \A id \in Ids : outcome[id] # "flying"
    BY <1>2 DEF Fire
  <2>4. QED
    BY <2>1, <2>2, <2>3
<1>3. CASE LegsJoined \/ Abort
  <2>1. /\ UNCHANGED <<order, tradeCounter>> /\ pc' # "legs"
        /\ pc = "legs" => tradeCounter \in Ids
    BY <1>3 DEF LegsJoined, Abort, Return, memory, venues, CallCoherent
  <2>2. JoinedOutcome \in {"cex_err", "dex_err", "Filled"}
    BY DEF JoinedOutcome
  <2>3. \A id \in Ids :
          IF pc = "legs" /\ id = tradeCounter
          THEN outcome'[id] \notin {"none", "flying"}
          ELSE outcome'[id] = outcome[id]
    BY <1>3, <2>2 DEF LegsJoined, Abort
  <2>4. QED
    BY <2>1, <2>3
<1>4. CASE Venue
  BY <1>4, VenueStep DEF memory, call, history
<1>5. QED
  <2>1. ASSUME NEW s \in Signals, OnSignal(s) PROVE TradesAreSequential'
    BY <1>1, <2>1 DEF OnSignal, memory, venues, history
  <2>2. CASE Gates
    BY <1>1, <2>2 DEF Gates, SignalStale, PaperSkip, PaperTrade, Return,
       PrerequisitesNotMet, LiveCooldownSkip, AskBalances, memory, venues, history
  <2>3. CASE Balance
    BY <1>1, <1>2, <2>3 DEF Balance, BalancesRead, BalanceFailed, InsufficientBalance, Return,
       memory, venues, history
  <2>4. ASSUME NEW leg \in Legs, LegDone(leg) PROVE TradesAreSequential'
    BY <1>1, <2>4 DEF LegDone, ReplyOk, ReplyErr, ReplyLost, memory, venues, history
  <2>5. CASE SlotAdvance \/ Tick
    BY <1>1, <2>5 DEF SlotAdvance, Tick, call, memory, venues, history
  <2>6. CASE UNCHANGED vars
    BY <1>1, <2>6 DEF vars, call, memory, venues, history
  <2>7. QED
    BY <1>3, <1>4, <2>1, <2>2, <2>3, <2>4, <2>5, <2>6 DEF Next

(* A trade whose answer is settled while its Binance order still stands    *)
(* was reported cex_err: every other report waits for Binance, and an      *)
(* aborted one leaves no call behind to be misled.                         *)
LEMMA PendingMeansLost ==
    ASSUME TypeOK, CallCoherent, ReportMatchesVenues, TradesAreSequential,
           pc = "balance", NEW id \in Ids, order[id]["cex"] = "pending"
    PROVE  outcome[id] = "cex_err"
BY DEF TypeOK, CallCoherent, ReportMatchesVenues, TradesAreSequential

(* The balance in hand can be overtaken by nothing but a late fill.        *)
LEMMA StaleStep ==
    ASSUME ConfigAssumption, Safe, [Next]_vars
    PROVE  StaleBalanceNeedsLostReply'
<1> USE DEF ConfigAssumption, TypeOK, StaleBalanceNeedsLostReply, Safe
<1>1. ASSUME UNCHANGED <<clientLive, usdc, order, outcome, reading, tradeDir>>,
             pc' = pc \/ pc' # "balance"
      PROVE  StaleBalanceNeedsLostReply'
  BY <1>1
<1>2. ASSUME pc' # "balance" PROVE StaleBalanceNeedsLostReply'
  BY <1>2
<1>3. CASE AskBalances
  BY <1>3 DEF AskBalances, venues
<1>4. ASSUME NEW b, BalancesRead(b) PROVE StaleBalanceNeedsLostReply'
  BY <1>4 DEF BalancesRead, memory, venues
<1>5. CASE pc = "balance" /\ Venue
  <2>1. UNCHANGED <<clientLive, outcome, reading, pc, tradeDir>>
    BY <1>5, VenueStep DEF memory, call, history
  <2>2. \A i \in Ids : order[i]["cex"] = "executed" => order'[i]["cex"] = "executed"
    BY <1>5, VenueStep
  <2>3. ASSUME usdc' \in Nat, usdc' >= usdc PROVE StaleBalanceNeedsLostReply'
    <3>1. reading' > usdc' => reading > usdc
      BY <2>1, <2>3
    <3>2. QED
      BY <2>1, <2>2, <3>1 DEF BuysOnCex
  <2>4. ASSUME NEW id \in Ids, NEW amount \in Amounts, ExecuteCex(id, amount)
        PROVE  StaleBalanceNeedsLostReply'
    <3>1. CASE BuysOnCex(tradeDir[id])
      <4>1. /\ order'[id]["cex"] = "executed" /\ outcome'[id] = "cex_err"
            /\ BuysOnCex(tradeDir'[id])
        BY <1>5, <2>1, <2>4, <3>1, PendingMeansLost DEF ExecuteCex
      <4>2. QED
        BY <4>1 DEF BuysOnCex
    <3>2. CASE ~BuysOnCex(tradeDir[id])
      <4>1. usdc' = usdc + amount /\ amount \in Nat
        BY <2>4, <3>2 DEF ExecuteCex, Settled
      <4>2. QED
        BY <2>3, <4>1
    <3>3. QED
      BY <3>1, <3>2
  <2>5. ASSUME UNCHANGED usdc PROVE StaleBalanceNeedsLostReply'
    BY <2>3, <2>5
  <2>6. QED
    BY <1>5, <2>4, <2>5 DEF Venue, ExecuteDex, Refuse, Expire
<1>6. QED
  <2>1. ASSUME NEW s \in Signals, OnSignal(s) PROVE StaleBalanceNeedsLostReply'
    BY <1>2, <2>1 DEF OnSignal
  <2>2. CASE Gates
    BY <1>2, <1>3, <2>2 DEF Gates, SignalStale, PaperSkip, PaperTrade,
       PrerequisitesNotMet, LiveCooldownSkip, Return
  <2>3. CASE Balance
    BY <1>2, <1>4, <2>3 DEF Balance, BalanceFailed, InsufficientBalance, Return, Fire
  <2>4. ASSUME NEW leg \in Legs, LegDone(leg) PROVE StaleBalanceNeedsLostReply'
    BY <1>2, <2>4 DEF LegDone, ReplyOk, ReplyErr, ReplyLost
  <2>5. CASE LegsJoined \/ Abort
    BY <1>2, <2>5 DEF LegsJoined, Abort, Return
  <2>6. CASE Venue
    BY <1>2, <1>5, <2>6, VenueStep DEF call
  <2>7. CASE SlotAdvance \/ Tick \/ UNCHANGED vars
    BY <1>1, <2>7 DEF SlotAdvance, Tick, vars, call, memory, venues, history
  <2>8. QED
    BY <2>1, <2>2, <2>3, <2>4, <2>5, <2>6, <2>7 DEF Next

-----------------------------------------------------------------------------
(* Every invariant above holds at the start.                               *)
LEMMA InitSafe == ASSUME ConfigAssumption, Init PROVE Safe
<1> USE DEF ConfigAssumption, Init
<1>1. TypeOK
  <2>1. clientLive \in [Legs -> BOOLEAN]
    OBVIOUS
  <2>2. order \in [Ids -> [Legs -> OrderState]]
    OBVIOUS
  <2>3. usdc \in Nat
    OBVIOUS
  <2>4. QED
    BY <2>1, <2>2, <2>3 DEF TypeOK
<1>2. CallCoherent /\ OrdersAreLicensed /\ ReportMatchesVenues
  <2>1. CallCoherent
    BY DEF CallCoherent
  <2>2. OrdersAreLicensed
    BY DEF OrdersAreLicensed
  <2>3. ReportMatchesVenues
    BY DEF ReportMatchesVenues
  <2>4. QED
    BY <2>1, <2>2, <2>3
<1>3. TradesAreSequential /\ StaleBalanceNeedsLostReply
  BY DEF TradesAreSequential, StaleBalanceNeedsLostReply
<1>4. QED
  BY <1>1, <1>2, <1>3 DEF Safe

(* Every invariant above is kept by every step.                            *)
LEMMA SafeStep == ASSUME ConfigAssumption, Safe, [Next]_vars PROVE Safe'
BY TypeStep, CallStep, LicenceStep, ReportStep, SequenceStep, StaleStep DEF Safe

(* So they hold in every reachable state.                                  *)
LEMMA SafeAlways == Spec => []Safe
<1>1. Init => Safe
  BY InitSafe, ConfigAssumption
<1>2. Safe /\ [Next]_vars => Safe'
  BY SafeStep, ConfigAssumption
<1>3. QED
  BY <1>1, <1>2, PTL DEF Spec

(* Types hold in every state, for every configuration.                     *)
THEOREM TypeCorrect == Spec => []TypeOK
<1>1. Safe => TypeOK
  BY DEF Safe
<1>2. QED
  BY <1>1, SafeAlways, PTL

(* on_signal never lets an order past its gates.                           *)
THEOREM Licensed == Spec => []OrdersAreLicensed
<1>1. Safe => OrdersAreLicensed
  BY DEF Safe
<1>2. QED
  BY <1>1, SafeAlways, PTL

(* What a result of on_signal tells of the venues stays so whatever they   *)
(* do later: Filled, that the swap landed and Binance answered, with the   *)
(* trade one-sided exactly if the order expired; dex_err, that Binance     *)
(* answered; and a stop leaves the newest trade alone without a result.    *)
THEOREM ReportsMatch == Spec => []ReportMatchesVenues
<1>1. Safe => ReportMatchesVenues
  BY DEF Safe
<1>2. QED
  BY <1>1, SafeAlways, PTL

(* Live trades never overlap in the coordinator.                           *)
THEOREM Sequential == Spec => []TradesAreSequential
<1>1. Safe => TradesAreSequential
  BY DEF Safe
<1>2. QED
  BY <1>1, SafeAlways, PTL

(* A balance check is misled only by an order whose answer was lost.       *)
THEOREM StaleBalance == Spec => []StaleBalanceNeedsLostReply
<1>1. Safe => StaleBalanceNeedsLostReply
  BY DEF Safe
<1>2. QED
  BY <1>1, SafeAlways, PTL

(* Two live trades are a cooldown apart: the gate is passed before the     *)
(* balance request, and time only adds to the distance.                    *)
THEOREM Spacing == Spec => LiveSpacing
<1>1. ASSUME Safe, [Next]_vars
      PROVE  [Fires => (quiet = NotYet \/ quiet >= LiveCooldown)]_vars
  BY <1>1, ConfigAssumption
     DEF Safe, TypeOK, CallCoherent, CoolingDown, Fires, ConfigAssumption
<1>2. QED
  BY <1>1, SafeAlways, PTL DEF Spec, LiveSpacing

(* A live process starts with an empty tracker and nothing writes it: the  *)
(* prerequisites then hold in no later state and no trade is ever fired.   *)
Cold == /\ ~paperMode /\ tracker.total = 0
        /\ tradeCounter = 0 /\ pc \in {"idle", "gates", "dead"}

(* A live run that starts without paper trades on record never trades:     *)
(* nothing in live mode writes the tracker that                            *)
(* validate_live_mode_prerequisites reads.                                 *)
THEOREM ColdStartNeverFires ==
    Spec => ((~paperMode /\ tracker.total = 0) => [](tradeCounter = 0))
<1>1. Init /\ ~paperMode /\ tracker.total = 0 => Cold
  BY DEF Init, Cold
<1>2. ASSUME Safe, Cold, [Next]_vars PROVE Cold'
  <2> USE <1>2, ConfigAssumption DEF Cold, ConfigAssumption, Safe, TypeOK
  <2>1. ~PrerequisitesMet
    BY DEF PrerequisitesMet
  <2>2. ASSUME NEW s \in Signals, OnSignal(s) PROVE Cold'
    BY <2>2 DEF OnSignal, memory
  <2>3. CASE Gates
    BY <2>1, <2>3 DEF Gates, SignalStale, PaperSkip, PaperTrade, Return,
       PrerequisitesNotMet, LiveCooldownSkip, AskBalances, memory
  <2>4. CASE Abort \/ SlotAdvance \/ Tick
    BY <2>4 DEF Abort, SlotAdvance, Tick, memory, call
  <2>5. CASE Venue
    BY <2>5, VenueStep DEF memory, call
  <2>6. CASE UNCHANGED vars
    BY <2>6 DEF vars, memory, call
  <2>7. QED
    BY <2>2, <2>3, <2>4, <2>5, <2>6 DEF Next, Balance, BalancesRead,
       BalanceFailed, InsufficientBalance, Fire, LegDone, ReplyOk, ReplyErr, ReplyLost, LegsJoined
<1>3. Cold => tradeCounter = 0
  BY DEF Cold
<1>4. QED
  BY <1>1, <1>2, <1>3, SafeAlways, PTL DEF Spec
-----------------------------------------------------------------------------
(* The legs of the newest trade, as LegContract sees them: an order that   *)
(* is not yet made counts as the one it will be made as.                   *)
AtVenue(leg) ==
    IF tradeCounter = 0 THEN IF clientLive[leg] THEN "pending" ELSE "unsent"
    ELSE order[tradeCounter][leg]

Cex == INSTANCE LegContract WITH order <- AtVenue("cex"), reply <- reply["cex"]
Dex == INSTANCE LegContract WITH order <- AtVenue("dex"), reply <- reply["dex"]

(* Fire places a new order and begins a new call of each leg; nothing else *)
(* but a step of its contract touches a leg.                               *)
LegsFollowContract ==
    /\ Cex!Init /\ [][Cex!Next \/ (Fire /\ (Cex!Init)')]_(Cex!vars)
    /\ Dex!Init /\ [][Dex!Next \/ (Fire /\ (Dex!Init)')]_(Dex!vars)

(* What a step does to the newest order and to the replies.                *)
LEMMA LegSteps ==
    ASSUME ConfigAssumption, Safe, [Next]_vars, NEW leg \in Legs
    PROVE  \/ Fire /\ AtVenue(leg)' \in {"pending", "unsent"} /\ reply'[leg] = "none"
           \/ AtVenue(leg)' = AtVenue(leg) /\ reply'[leg] = reply[leg]
           \/ /\ AtVenue(leg) = "pending" /\ AtVenue(leg)' \in {"executed", "expired", "refused"}
              /\ reply'[leg] = reply[leg]
           \/ /\ AtVenue(leg)' = AtVenue(leg) /\ reply[leg] = "none"
              /\ \/ reply'[leg] = "err"
                 \/ reply'[leg] = "ok" /\ AtVenue(leg) \in {"executed", "expired"}
<1>1. TypeOK /\ CallCoherent /\ TradesAreSequential
  BY DEF Safe
<1>2. ASSUME UNCHANGED <<clientLive, tradeCounter, order, reply>>
      PROVE  AtVenue(leg)' = AtVenue(leg) /\ reply'[leg] = reply[leg]
  BY <1>2 DEF AtVenue
<1>3. CASE Fire
  <2>1. tradeCounter' = tradeCounter + 1 /\ tradeCounter + 1 \in Ids /\ tradeCounter \in Nat
    BY <1>1, <1>3 DEF Fire, CallCoherent, TypeOK, ConfigAssumption
  <2>2. order'[tradeCounter + 1][leg] \in {"pending", "unsent"} /\ reply'[leg] = "none"
    BY <1>1, <1>3, <2>1 DEF Fire, TypeOK
  <2> QED BY <1>3, <2>1, <2>2 DEF AtVenue
<1>4. ASSUME NEW l \in Legs, LegDone(l)
      PROVE  /\ AtVenue(leg)' = AtVenue(leg)
             /\ \/ reply'[leg] = reply[leg]
                \/ /\ reply[leg] = "none"
                   /\ \/ reply'[leg] = "err"
                      \/ reply'[leg] = "ok" /\ AtVenue(leg) \in {"executed", "expired"}
  <2>1. UNCHANGED <<clientLive, tradeCounter, order>> /\ tradeCounter \in Ids
    BY <1>1, <1>4 DEF LegDone, ReplyOk, ReplyErr, ReplyLost, memory, venues, CallCoherent
  <2>2. AtVenue(leg)' = AtVenue(leg) /\ AtVenue(leg) = order[tradeCounter][leg]
    BY <2>1 DEF AtVenue
  <2> QED BY <1>1, <1>4, <2>2 DEF LegDone, ReplyOk, ReplyErr, ReplyLost, TypeOK
<1>5. ASSUME NEW id \in Ids, NEW l \in Legs, Executes(id, l) \/ Refuse(id, l) \/ Expire(id)
      PROVE  /\ reply'[leg] = reply[leg]
             /\ \/ AtVenue(leg)' = AtVenue(leg)
                \/ AtVenue(leg) = "pending" /\ AtVenue(leg)' \in {"executed", "expired", "refused"}
  <2>1. UNCHANGED <<clientLive, tradeCounter, reply>>
    BY <1>5 DEF Executes, ExecuteCex, ExecuteDex, Refuse, Expire, memory, call
  <2>2. \A i \in Ids : \/ order'[i][leg] = order[i][leg]
                       \/ /\ order[i][leg] = "pending"
                          /\ order'[i][leg] \in {"executed", "expired", "refused"}
    BY <1>1, <1>5 DEF Executes, ExecuteCex, ExecuteDex, Refuse, Expire, TypeOK
  <2>3. tradeCounter = 0 \/ tradeCounter \in Ids
    BY <1>1 DEF TypeOK, ConfigAssumption
  <2> QED BY <2>1, <2>2, <2>3 DEF AtVenue
<1>6. ASSUME NEW s \in Signals, OnSignal(s) PROVE UNCHANGED <<clientLive, tradeCounter, order, reply>>
  BY <1>6 DEF OnSignal, memory, venues
<1>7. ASSUME Gates PROVE UNCHANGED <<clientLive, tradeCounter, order, reply>>
  BY <1>7 DEF Gates, SignalStale, PaperSkip, PaperTrade, PrerequisitesNotMet,
     LiveCooldownSkip, AskBalances, memory, venues
<1>8. ASSUME NEW b, BalancesRead(b) PROVE UNCHANGED <<clientLive, tradeCounter, order, reply>>
  BY <1>8 DEF BalancesRead, memory, venues
<1>9. ASSUME BalanceFailed \/ InsufficientBalance \/ LegsJoined \/ Abort \/ SlotAdvance \/ Tick \/ UNCHANGED vars
      PROVE  UNCHANGED <<clientLive, tradeCounter, order, reply>>
  BY <1>9 DEF BalanceFailed, InsufficientBalance, LegsJoined, Abort, SlotAdvance, Tick, vars, call, memory, venues
<1> QED BY <1>2, <1>3, <1>4, <1>5, <1>6, <1>7, <1>8, <1>9 DEF Next, Balance, Venue, Executes

(* A leg of a trade, as the coordinator counts on it, is what LegContract  *)
(* promises: the contract that ExecuteLegs shows the two clients to keep.  *)
THEOREM FollowsContract == Spec => LegsFollowContract
<1>1. Init => Cex!Init /\ Dex!Init
  BY DEF Init, Cex!Init, Dex!Init, AtVenue
<1>2. Safe /\ [Next]_vars => [Cex!Next \/ (Fire /\ (Cex!Init)')]_(Cex!vars)
  <2> SUFFICES ASSUME Safe, [Next]_vars PROVE [Cex!Next \/ (Fire /\ (Cex!Init)')]_(Cex!vars)
    OBVIOUS
  <2>1. "cex" \in Legs
    OBVIOUS
  <2> QED BY <2>1, LegSteps, ConfigAssumption
          DEF Cex!Next, Cex!Settle, Cex!ReplyOk, Cex!ReplyErr, Cex!Init, Cex!vars
<1>3. Safe /\ [Next]_vars => [Dex!Next \/ (Fire /\ (Dex!Init)')]_(Dex!vars)
  <2> SUFFICES ASSUME Safe, [Next]_vars PROVE [Dex!Next \/ (Fire /\ (Dex!Init)')]_(Dex!vars)
    OBVIOUS
  <2>1. "dex" \in Legs
    OBVIOUS
  <2> QED BY <2>1, LegSteps, ConfigAssumption
          DEF Dex!Next, Dex!Settle, Dex!ReplyOk, Dex!ReplyErr, Dex!Init, Dex!vars
<1> QED BY <1>1, <1>2, <1>3, SafeAlways, PTL DEF Spec, LegsFollowContract

(* Nothing changes but the reply of one leg.                               *)
OnlyReply(leg) ==
    /\ reply' = [reply EXCEPT ![leg] = reply'[leg]]
    /\ UNCHANGED <<memory, pc, signal, drift, reading, venues, history>>

(* While a call waits for its legs it takes every answer their contract    *)
(* allows and no other: what is proved of the coordinator does not lean on *)
(* a client that answers less than its contract says.                      *)
THEOREM TakesEveryAnswer ==
    ASSUME Safe, pc = "legs"
    PROVE  /\ LegDone("cex") <=> ((Cex!ReplyOk \/ Cex!ReplyErr) /\ OnlyReply("cex"))
           /\ LegDone("dex") <=> ((Dex!ReplyOk \/ Dex!ReplyErr) /\ OnlyReply("dex"))
<1>1. /\ tradeCounter \in Ids /\ reply \in [Legs -> {"none", "ok", "err"}]
      /\ \A leg \in Legs : order[tradeCounter][leg] \in OrderState \ {"none"}
  BY ConfigAssumption DEF Safe, TypeOK, CallCoherent, TradesAreSequential, ConfigAssumption
<1>2. tradeCounter # 0 /\ \A leg \in Legs : AtVenue(leg) = order[tradeCounter][leg]
  BY <1>1 DEF AtVenue
<1>3. ASSUME NEW leg \in Legs
      PROVE  LegDone(leg) <=> /\ \/ /\ reply[leg] = "none" /\ reply'[leg] = "ok"
                                    /\ AtVenue(leg) \in {"executed", "expired"}
                                 \/ reply[leg] = "none" /\ reply'[leg] = "err"
                              /\ OnlyReply(leg)
  BY <1>1, <1>2 DEF LegDone, ReplyOk, ReplyErr, ReplyLost, OnlyReply
<1>4. ASSUME NEW leg \in Legs, OnlyReply(leg) PROVE AtVenue(leg)' = AtVenue(leg)
  BY <1>4 DEF OnlyReply, AtVenue, memory, venues
<1>5. LegDone("cex") <=> ((Cex!ReplyOk \/ Cex!ReplyErr) /\ OnlyReply("cex"))
  BY <1>3, <1>4 DEF Cex!ReplyOk, Cex!ReplyErr
<1>6. LegDone("dex") <=> ((Dex!ReplyOk \/ Dex!ReplyErr) /\ OnlyReply("dex"))
  BY <1>3, <1>4 DEF Dex!ReplyOk, Dex!ReplyErr
<1> QED BY <1>5, <1>6
=============================================================================
