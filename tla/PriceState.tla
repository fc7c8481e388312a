----------------------------- MODULE PriceState -----------------------------
(***************************************************************************)
(* src/src/strategy/price_state.rs, shared without a lock by the Geyser    *)
(* task (the one DEX writer), the Binance feed (the one CEX writer) and    *)
(* the detector task, which assembles a snapshot from separate loads.      *)
(*                                                                         *)
(* A price matters only through the sanity bounds and the cross-DEX gap; a *)
(* CEX quote only through its time.  Updates carry the market price or a   *)
(* stray one: a partial decode, or another pair's pool of the same DEX.    *)
(***************************************************************************)
EXTENDS Integers

CONSTANTS
    Prices,         \* market prices the environment may choose
    Stray,          \* prices of updates that are not the market's
    MinPrice, MaxPrice,     \* config.min_price, config.max_price
    GapPct,         \* the cross-DEX gap, 10 percent in the code
    MaxDexAge,      \* config.max_dex_slot_age
    MaxCexAge,      \* config.max_cex_age_ms, in ticks
    MaxLag,         \* bound: slots by which an update may trail the chain
    MaxSlot,        \* bound: last slot of the chain
    MaxClock,       \* bound: last tick of the wall clock
    MaxMoves        \* bound: market moves of one behaviour

ASSUME StateAssumption ==
    /\ Prices \subseteq Nat /\ Stray \subseteq Nat
    /\ MinPrice \in Nat /\ MaxPrice \in Nat /\ GapPct \in Nat
    /\ MaxDexAge \in Nat /\ MaxCexAge \in Nat /\ MaxLag \in Nat
    /\ MaxSlot \in Nat /\ MaxClock \in Nat /\ MaxMoves \in Nat

Dexes   == {"orca", "raydium"}
Symbols == {"SOLUSDC", "WIFUSDC"}

VARIABLES
    cell,           \* per DEX: its AtomicCell<Option<DexEntry>>
    currentSlot,    \* the AtomicU64
    cex,            \* the legacy CEX cell: time of its quote
    pairs,          \* cex_pairs: per symbol the time of its quote
    wpc, upd,       \* the Geyser task in update_dex, and its update
    cpc, quoted,    \* the feed in update_cex_quote_for_pair, and its quote
    rpc, reading,   \* the detector in snapshot(), and its loads so far
    snap,           \* the last snapshot that was returned
    now,            \* the wall clock
    chain, market, moves    \* the chain's slot, the market's price

dexSide == <<cell, currentSlot>>
cexSide == <<cex, pairs>>
geyser  == <<wpc, upd>>
feed    == <<cpc, quoted>>
reader  == <<rpc, reading, snap>>
world   == <<now, chain, market, moves>>
vars    == <<dexSide, cexSide, geyser, feed, reader, world>>

Slots   == 0 .. MaxSlot
Clock   == 0 .. MaxClock
NoSlot  == -1
NoQuote == -1
NoEntry == [price |-> 0, slot |-> NoSlot]
Entries == [price : Nat, slot : Slots]
NoSnap  == [dex |-> "none", slot |-> NoSlot, quote |-> NoQuote,
            currentSlot |-> 0, takenAt |-> 0]
NoRead  == [at |-> 0, slot |-> 0, quote |-> NoQuote, orca |-> NoSlot]
NoUpdate == [dex |-> "orca", price |-> 0, slot |-> 0]
NoneQuoted == [symbol |-> "SOLUSDC", at |-> 0]

Other(d) == IF d = "orca" THEN "raydium" ELSE "orca"

-----------------------------------------------------------------------------
Sane(price) == MinPrice <= price /\ price <= MaxPrice

(* (pool.price - other_price).abs() / other_price > 0.10                   *)
\* Mutant: the difference without its abs().
FarAbove(p, o) == (p - o) * 100 > GapPct * o

Far(p, o) == (IF p >= o THEN p - o ELSE o - p) * 100 > GapPct * o

(* The cell the new price is compared with.                                *)
\* Mutant: the DEX's own previous price.
ComparedWithOwn(d) == cell[d]

ComparedWith(d) == cell[Other(d)]

(* fetch_max                                                               *)
\* Mutant: a plain store.
StoredSlot(slot) == slot

\* Mutant: fetch_add of one per update.
CountedSlot(slot) == currentSlot + 1

RaisedSlot(slot) == IF slot > currentSlot THEN slot ELSE currentSlot

(* The symbols whose quotes also go to the legacy cell.                    *)
\* Mutant: every quote goes there.
AlsoEvery(symbol) == TRUE

AlsoLegacy(symbol) == symbol = "SOLUSDC"

(* age_ms clamps a quote from the future to age zero.                      *)
QuoteFresh(quote, at) == quote # NoQuote /\ at - quote <= MaxCexAge

(* fresh_dex: slot_age saturates at zero.                                  *)
\* Mutant: fresh_dex without its filter.
Unfiltered(slot, current) == slot

FreshSlot(slot, current) ==
    IF slot # NoSlot /\ current - slot <= MaxDexAge THEN slot ELSE NoSlot

-----------------------------------------------------------------------------
Init ==
    /\ cell = [d \in Dexes |-> NoEntry] /\ currentSlot = 0
    /\ cex = NoQuote /\ pairs = [s \in Symbols |-> NoQuote]
    /\ wpc = "idle" /\ upd = NoUpdate
    /\ cpc = "idle" /\ quoted = NoneQuoted
    /\ rpc = "idle" /\ reading = NoRead /\ snap = NoSnap
    /\ now = 0 /\ chain = 0 /\ moves = 0
    /\ market \in Prices

(* geyser_task takes the latest PoolPrice from the watch channel.  One      *)
(* that is insane or too shallow leaves update_dex at once and still goes   *)
(* through update_slot.                                                    *)
Receive(u, deep) ==
    /\ wpc = "idle"
    /\ upd' = u
    /\ wpc' = IF Sane(u.price) /\ deep THEN "compare" ELSE "slot"
    /\ UNCHANGED <<dexSide, cexSide, feed, reader, world>>

(* The load of the other cell and the 10 percent test.                     *)
Compare ==
    LET o == ComparedWith(upd.dex) IN
    /\ wpc = "compare"
    /\ wpc' = IF o.slot # NoSlot /\ Far(upd.price, o.price) THEN "slot" ELSE "store"
    /\ UNCHANGED <<dexSide, cexSide, upd, feed, reader, world>>

(* A later load, a later store: any entry overwrites the one before it,    *)
(* older or not.                                                           *)
StoreDex ==
    /\ wpc = "store" /\ wpc' = "slot"
    /\ cell' = [cell EXCEPT ![upd.dex] = [price |-> upd.price, slot |-> upd.slot]]
    /\ UNCHANGED <<currentSlot, cexSide, upd, feed, reader, world>>

(* The two fetch_max of update_dex and update_slot with the same slot.     *)
RaiseSlot ==
    /\ wpc = "slot" /\ wpc' = "idle" /\ upd' = NoUpdate
    /\ currentSlot' = RaisedSlot(upd.slot)
    /\ UNCHANGED <<cell, cexSide, feed, reader, world>>

(* A bookTicker frame with sane prices; the others change nothing.         *)
InsertPair(s) ==
    /\ cpc = "idle" /\ cpc' = "legacy"
    /\ quoted' = [symbol |-> s, at |-> now]
    /\ pairs' = [pairs EXCEPT ![s] = now]
    /\ UNCHANGED <<dexSide, cex, geyser, reader, world>>

StoreLegacy ==
    /\ cpc = "legacy" /\ cpc' = "idle" /\ quoted' = NoneQuoted
    /\ cex' = IF AlsoLegacy(quoted.symbol) THEN quoted.at ELSE cex
    /\ UNCHANGED <<dexSide, pairs, geyser, reader, world>>

(* snapshot(): the clock, then the slot, the quote and the two cells.      *)
ReadClock ==
    /\ rpc = "idle" /\ rpc' = "slot"
    /\ reading' = [NoRead EXCEPT !.at = now]
    /\ UNCHANGED <<dexSide, cexSide, geyser, feed, snap, world>>

ReadSlot ==
    /\ rpc = "slot" /\ rpc' = "cex"
    /\ reading' = [reading EXCEPT !.slot = currentSlot]
    /\ UNCHANGED <<dexSide, cexSide, geyser, feed, snap, world>>

ReadCex ==
    /\ rpc = "cex" /\ QuoteFresh(cex, reading.at)
    /\ rpc' = "orca"
    /\ reading' = [reading EXCEPT !.quote = cex]
    /\ UNCHANGED <<dexSide, cexSide, geyser, feed, snap, world>>

(* No quote, or a stale one: snapshot() returns None.                      *)
CexStale ==
    /\ rpc = "cex" /\ ~QuoteFresh(cex, reading.at)
    /\ rpc' = "idle" /\ reading' = NoRead
    /\ UNCHANGED <<dexSide, cexSide, geyser, feed, snap, world>>

ReadOrca ==
    /\ rpc = "orca" /\ rpc' = "raydium"
    /\ reading' = [reading EXCEPT !.orca = FreshSlot(cell["orca"].slot, reading.slot)]
    /\ UNCHANGED <<dexSide, cexSide, geyser, feed, snap, world>>

(* The last load and the result: the entry of the higher slot, Orca's when *)
(* they tie, None when neither is fresh.                                   *)
ReadRaydium ==
    LET o == reading.orca
        r == FreshSlot(cell["raydium"].slot, reading.slot)
    IN  /\ rpc = "raydium" /\ rpc' = "idle" /\ reading' = NoRead
        /\ snap' = IF o = NoSlot /\ r = NoSlot THEN snap
                   ELSE [dex |-> IF o >= r THEN "orca" ELSE "raydium",
                         slot |-> IF o >= r THEN o ELSE r,
                         quote |-> reading.quote,
                         currentSlot |-> reading.slot, takenAt |-> reading.at]
        /\ UNCHANGED <<dexSide, cexSide, geyser, feed, world>>

-----------------------------------------------------------------------------
SlotAdvance ==
    /\ chain < MaxSlot /\ chain' = chain + 1
    /\ UNCHANGED <<dexSide, cexSide, geyser, feed, reader, now, market, moves>>

Tick ==
    /\ now < MaxClock /\ now' = now + 1
    /\ UNCHANGED <<dexSide, cexSide, geyser, feed, reader, chain, market, moves>>

MarketMoves ==
    /\ moves < MaxMoves /\ moves' = moves + 1
    /\ market' \in Prices
    /\ UNCHANGED <<dexSide, cexSide, geyser, feed, reader, now, chain>>

Recent == {s \in Slots : s <= chain /\ chain <= s + MaxLag}

Updates == [dex : Dexes, price : {market} \cup Stray, slot : Recent]

Writer == Compare \/ StoreDex \/ RaiseSlot
Reader == ReadClock \/ ReadSlot \/ ReadCex \/ CexStale \/ ReadOrca \/ ReadRaydium
World  == SlotAdvance \/ Tick \/ MarketMoves

Next ==
    \/ \E u \in Updates, deep \in BOOLEAN : Receive(u, deep)
    \/ Writer
    \/ \E s \in Symbols : InsertPair(s)
    \/ StoreLegacy
    \/ Reader
    \/ World

Spec == Init /\ [][Next]_vars

(* For the counterexample below only, and more than a watch channel fed by *)
(* all pools promises: the newest market price of each DEX is heard over   *)
(* and over, and the tasks are polled.                                     *)
Current(d) == [dex |-> d, price |-> market, slot |-> chain]

Fairness ==
    /\ \A d \in Dexes : SF_vars(Receive(Current(d), TRUE))
    /\ WF_vars(Writer) /\ WF_vars(Reader) /\ WF_vars(StoreLegacy)
    /\ SF_vars(InsertPair("SOLUSDC"))

FairSpec == Spec /\ Fairness
-----------------------------------------------------------------------------
(* Types of every variable.                                                *)
TypeOK ==
    /\ cell \in [Dexes -> Entries \cup {NoEntry}]
    /\ currentSlot \in Slots
    /\ cex \in Clock \cup {NoQuote}
    /\ pairs \in [Symbols -> Clock \cup {NoQuote}]
    /\ wpc \in {"idle", "compare", "store", "slot"}
    /\ upd \in [dex : Dexes, price : Nat, slot : Slots]
    /\ cpc \in {"idle", "legacy"}
    /\ quoted \in [symbol : Symbols, at : Clock]
    /\ rpc \in {"idle", "slot", "cex", "orca", "raydium"}
    /\ reading \in [at : Clock, slot : Slots, quote : Clock \cup {NoQuote},
                    orca : Slots \cup {NoSlot}]
    /\ snap \in [dex : Dexes \cup {"none"}, slot : Slots \cup {NoSlot},
                 quote : Clock \cup {NoQuote}, currentSlot : Slots, takenAt : Clock]
    /\ now \in Clock /\ chain \in Slots
    /\ market \in Prices /\ moves \in 0 .. MaxMoves

Filled(d) == cell[d].slot # NoSlot

(* The two DEX prices a snapshot can meet are never further apart than the *)
(* cross-check allows, although the check and the store are two steps:     *)
(* one task does both for both DEXes.                                      *)
CellsAgree ==
    (\A d \in Dexes : Filled(d))
        => \E d \in Dexes : ~Far(cell[d].price, cell[Other(d)].price)

(* What makes it inductive: an update about to be stored still agrees with *)
(* the other cell.                                                         *)
StoreIsChecked ==
    wpc = "store" => \/ ~Filled(Other(upd.dex))
                     \/ ~Far(upd.price, cell[Other(upd.dex)].price)

(* The slot tracker is never behind a cell, but for the one update between *)
(* its store and its fetch_max; so a price cannot look fresh for being     *)
(* newer than anything the tracker has seen.                               *)
TrackerCoversCells ==
    \A d \in Dexes :
        \/ cell[d].slot <= currentSlot
        \/ wpc = "slot" /\ upd.dex = d /\ cell[d].slot <= upd.slot

(* A snapshot in progress sees the clock and the slot tracker of a moment  *)
(* after the last snapshot's and not after the present one.                *)
ReadsInOrder ==
    /\ snap.currentSlot <= currentSlot
    /\ rpc \in {"cex", "orca", "raydium"} =>
          snap.currentSlot <= reading.slot /\ reading.slot <= currentSlot
    /\ rpc \in {"orca", "raydium"} => QuoteFresh(reading.quote, reading.at)
    /\ rpc = "raydium" /\ reading.orca # NoSlot => reading.slot - reading.orca <= MaxDexAge

(* The entry and the quote of a snapshot pass the filters at the slot and  *)
(* the time the snapshot itself carries, however the writers interleaved   *)
(* with its loads.                                                         *)
SnapshotIsFresh ==
    snap # NoSnap =>
        /\ snap.slot # NoSlot
        /\ snap.currentSlot - snap.slot <= MaxDexAge
        /\ QuoteFresh(snap.quote, snap.takenAt)

(* Successive snapshots never go back in the slots they know of.           *)
SnapshotsMoveForward == [][snap'.currentSlot >= snap.currentSlot]_vars

(* But between the map's insert and the store, the legacy cell holds the   *)
(* quote of SOLUSDC: snapshot() uses what cex_for_pair("SOLUSDC") answers. *)
LegacyInSync ==
    /\ cpc = "idle" \/ quoted.symbol # "SOLUSDC" => cex = pairs["SOLUSDC"]
    /\ cpc = "legacy" => pairs[quoted.symbol] = quoted.at

(* The prices of the market stay within the gap of one another, and what   *)
(* else is decoded is insane or beyond it, on either side.                 *)
Near(p, q) == (p - q) * 100 <= GapPct * q /\ (q - p) * 100 <= GapPct * q

Banded ==
    /\ \A p, q \in Prices : Near(p, q)
    /\ \A g \in Stray, p \in Prices : Sane(g) => ~Near(g, p)

(* Both DEXes have been heard, and with market prices.                     *)
InBand == \A d \in Dexes : Filled(d) /\ cell[d].price \in Prices

(* Past that point the cross-check keeps all garbage out, from both cells, *)
(* and turns no market price away, however old the entry that price is     *)
(* compared with: the lockout shown by GarbageDoesNotLast can only start   *)
(* while a cell is empty.                                                  *)
TurnsMarketAway == wpc = "compare" /\ upd.price \in Prices /\ wpc' = "slot"

MarketIsHeard == [][Banded /\ InBand => InBand' /\ ~TurnsMarketAway]_vars

-----------------------------------------------------------------------------
(* Claims of the documentation that the code does not keep.                *)

(* README.md:122: the cross-check guards against garbage decode values;    *)
(* once it has seen the market's price of the other DEX, no stray price    *)
(* lasts in a cell.                                                        *)
GarbageDoesNotLast ==
    \A d \in Dexes : []<>(cell[d].price \notin Stray)
=============================================================================
