--------------------------- MODULE SpreadDetector ---------------------------
(***************************************************************************)
(* src/src/strategy/spread_detector.rs: check(), called by the one         *)
(* detector task of either binary on the snapshot it just took.            *)
(*                                                                         *)
(* Rates are in parts of Unit (a thousandth of a percent), money in        *)
(* hundredths of a cent, trade sizes and liquidity in dollars.  Divisions  *)
(* round down, so a result is one part off at most.                        *)
(***************************************************************************)
EXTENDS Integers, FiniteSetsExt

CONSTANTS
    Snaps,          \* snapshots: cex and dex price, fee, liquidity, slot age
    Setups,         \* configurations of SpreadConfig, and the binary using it
    TakerFee,       \* cex_taker_fee_pct
    MinLiquidity,   \* min_pool_liquidity_usd
    MaxAge,         \* max_signal_slot_age of SpreadConfig
    Cooldown,       \* cooldown_ms, in ticks
    MaxChecks,      \* bound: checks of one behaviour
    MaxClock        \* bound: last tick of the wall clock

Unit == 100000

ASSUME DetectorAssumption ==
    /\ \A s \in Snaps :
          /\ {s.cex, s.dex, s.liq} \subseteq Nat \ {0}
          /\ {s.fee, s.age} \subseteq Nat
    /\ \A c \in Setups : {c.size, c.minNet, c.maxSpread, c.minProfit} \subseteq Nat
    /\ {TakerFee, MinLiquidity, MaxAge, MaxChecks} \subseteq Nat
    /\ {Cooldown, MaxClock} \subseteq Nat \ {0}
    /\ Snaps # {}

VARIABLES
    setup,      \* the configuration, fixed at start
    last,       \* last_signal_at_us, 0 before the first signal
    count,      \* the seven counters
    now         \* the wall clock

detectorVars == <<setup, last, count, now>>

Reasons  == {"spread", "liquidity", "staleness", "cooldown", "profit"}
Counters == {"checks", "signals"} \cup Reasons

-----------------------------------------------------------------------------
(* The arithmetic of the gates.                                            *)

Gap(s) == IF s.dex > s.cex THEN s.dex - s.cex ELSE s.cex - s.dex

SpreadAbs(s) == (Gap(s) * Unit) \div s.cex

Fees(s) == s.fee + TakerFee

(* trade / (2 * liquidity)                                                 *)
Impact(s, size) == (size * (Unit \div 2)) \div s.liq

NetSpread(s) == SpreadAbs(s) - Fees(s) - Impact(s, setup.size)

(* A rate of the trade size, as money.                                     *)
Money(rate, size) == (rate * size) \div 10

Estimate(s) == Money(NetSpread(s), setup.size)

BuyOnCex(s) == s.dex > s.cex

(* Gate 1 on the wall clock: a clock that stepped back counts as no time.  *)
\* Mutant: the distance of the two times.
ApartNow == IF now > last THEN now - last ELSE last - now

ElapsedNow == IF now > last THEN now - last ELSE 0

Cooling == last > 0 /\ ElapsedNow < Cooldown

(* The first gate that rejects the snapshot.                               *)
Verdict(s) ==
    CASE Cooling                         -> "cooldown"
      [] ~Cooling /\ s.age > MaxAge      -> "staleness"
      [] OTHER ->
           IF s.liq < MinLiquidity THEN "liquidity"
           ELSE IF SpreadAbs(s) <= Fees(s) \/ SpreadAbs(s) > setup.maxSpread THEN "spread"
           ELSE IF Estimate(s) < setup.minProfit THEN "profit"
           ELSE IF NetSpread(s) < setup.minNet THEN "spread"
           ELSE "none"

(* The counters after a check that a gate ended with v.                    *)
CountedAs(s, v) ==
    [c \in Counters |-> count[c] + (IF c \in {"checks", v} THEN 1 ELSE 0)]

-----------------------------------------------------------------------------
DetectorInit ==
    /\ setup \in Setups
    /\ last = 0 /\ count = [c \in Counters |-> 0] /\ now = 1

(* check() returns None.                                                   *)
Reject(s) ==
    /\ count["checks"] < MaxChecks
    /\ Verdict(s) # "none"
    /\ count' = CountedAs(s, Verdict(s))
    /\ UNCHANGED <<setup, last, now>>

(* All gates passed: the time is stored whatever the caller will make of   *)
(* the signal.                                                             *)
Emit(s) ==
    /\ count["checks"] < MaxChecks
    /\ Verdict(s) = "none"
    /\ last' = now /\ count' = CountedAs(s, "signals")
    /\ UNCHANGED <<setup, now>>

Tick == now < MaxClock /\ now' = now + 1 /\ UNCHANGED <<setup, last, count>>

(* The wall clock is set back, by NTP or by hand.                          *)
StepBack == now > 1 /\ now' \in 1 .. now - 1 /\ UNCHANGED <<setup, last, count>>

-----------------------------------------------------------------------------
DetectorTypeOK ==
    /\ setup \in Setups
    /\ last \in 0 .. MaxClock /\ now \in 1 .. MaxClock
    /\ count \in [Counters -> 0 .. MaxChecks]

Rejections == SumFunctionOnSet(count, Reasons)

(* Signals are a cooldown apart on the times they carry, which never go    *)
(* back although the wall clock may.                                       *)
SignalsSpaced == [][last' # last => last = 0 \/ last' >= last + Cooldown]_detectorVars
=============================================================================
