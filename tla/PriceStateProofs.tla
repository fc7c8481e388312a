-------------------------- MODULE PriceStateProofs --------------------------
(***************************************************************************)
(* Proofs about PriceState for every gap, age limit and price, and every   *)
(* interleaving of the two writers with the reader.                        *)
(***************************************************************************)
EXTENDS PriceState, TLAPS

USE DEF Dexes, Symbols, Slots, Clock, NoSlot, NoQuote, NoEntry, Entries,
        NoSnap, NoRead, NoUpdate, NoneQuoted, Other, ComparedWith,
        RaisedSlot, AlsoLegacy

(* Types are kept by the writers, the reader and the environment.          *)
LEMMA TypeStep == ASSUME StateAssumption, TypeOK, [Next]_vars PROVE TypeOK'
<1> USE DEF StateAssumption, TypeOK
<1>1. ASSUME NEW u \in Updates, NEW deep \in BOOLEAN, Receive(u, deep)
      PROVE  TypeOK'
  <2>1. u \in [dex : Dexes, price : Nat, slot : Slots]
    BY DEF Updates, Recent
  <2>2. QED
    BY <1>1, <2>1 DEF Receive, dexSide, cexSide, feed, reader, world
<1>2. CASE Compare
  BY <1>2 DEF Compare, dexSide, cexSide, feed, reader, world
<1>3. CASE StoreDex
  <2>1. cell' \in [Dexes -> Entries \cup {NoEntry}]
    BY <1>3 DEF StoreDex
  <2>2. QED
    BY <1>3, <2>1 DEF StoreDex, cexSide, feed, reader, world
<1>4. CASE RaiseSlot
  BY <1>4 DEF RaiseSlot, cexSide, feed, reader, world
<1>5. ASSUME NEW s \in Symbols, InsertPair(s) PROVE TypeOK'
  BY <1>5 DEF InsertPair, dexSide, geyser, reader, world
<1>6. CASE StoreLegacy
  BY <1>6 DEF StoreLegacy, dexSide, geyser, reader, world
<1>7. CASE ReadClock
  BY <1>7 DEF ReadClock, dexSide, cexSide, geyser, feed, world
<1>8. CASE ReadSlot
  BY <1>8 DEF ReadSlot, dexSide, cexSide, geyser, feed, world
<1>9. CASE ReadCex
  BY <1>9 DEF ReadCex, dexSide, cexSide, geyser, feed, world
<1>10. CASE CexStale
  BY <1>10 DEF CexStale, dexSide, cexSide, geyser, feed, world
<1>11. CASE ReadOrca
  <2>1. FreshSlot(cell["orca"].slot, reading.slot) \in Slots \cup {NoSlot}
    BY DEF FreshSlot
  <2>2. QED
    BY <1>11, <2>1 DEF ReadOrca, dexSide, cexSide, geyser, feed, world
<1>12. CASE ReadRaydium
  <2>1. FreshSlot(cell["raydium"].slot, reading.slot) \in Slots \cup {NoSlot}
    BY DEF FreshSlot
  <2>2. QED
    BY <1>12, <2>1 DEF ReadRaydium, dexSide, cexSide, geyser, feed, world
<1>13. CASE World
  BY <1>13 DEF World, SlotAdvance, Tick, MarketMoves,
               dexSide, cexSide, geyser, feed, reader
<1>14. CASE UNCHANGED vars
  BY <1>14 DEF vars, dexSide, cexSide, geyser, feed, reader, world
<1>15. QED
  BY <1>1, <1>2, <1>3, <1>4, <1>5, <1>6, <1>7, <1>8, <1>9, <1>10, <1>11,
     <1>12, <1>13, <1>14 DEF Next, Writer, Reader

-----------------------------------------------------------------------------
(* The DEX writer: what its three steps do to the cells and the tracker.   *)

Checked == CellsAgree /\ StoreIsChecked

(* Only the writer's own steps touch what the next lemmas speak of.        *)
LEMMA OthersLeaveDexSide ==
    ASSUME [Next]_vars,
           ~(\E u \in Updates, deep \in BOOLEAN : Receive(u, deep)), ~Writer
    PROVE  UNCHANGED <<dexSide, geyser>>
<1>1. CASE \E s \in Symbols : InsertPair(s)
  BY <1>1 DEF InsertPair
<1>2. CASE StoreLegacy
  BY <1>2 DEF StoreLegacy
<1>3. CASE Reader
  BY <1>3 DEF Reader, ReadClock, ReadSlot, ReadCex, CexStale, ReadOrca, ReadRaydium
<1>4. CASE World
  BY <1>4 DEF World, SlotAdvance, Tick, MarketMoves
<1>5. CASE UNCHANGED vars
  BY <1>5 DEF vars
<1>6. QED
  BY <1>1, <1>2, <1>3, <1>4, <1>5 DEF Next

(* The cells agree after a store because the price that is stored was      *)
(* compared with a cell that nothing has changed since.                    *)
LEMMA AgreeStep ==
    ASSUME StateAssumption, TypeOK, Checked, [Next]_vars PROVE Checked'
<1> USE DEF StateAssumption, TypeOK, Checked, CellsAgree, StoreIsChecked, Filled
<1>1. ASSUME NEW u \in Updates, NEW deep \in BOOLEAN, Receive(u, deep)
      PROVE  Checked'
  BY <1>1 DEF Receive, dexSide
<1>2. CASE Compare
  BY <1>2 DEF Compare, dexSide
<1>3. CASE StoreDex
  <2>1. CASE Filled(Other(upd.dex))
    <3>1. /\ cell'[upd.dex].price = upd.price
          /\ cell'[Other(upd.dex)] = cell[Other(upd.dex)]
      BY <1>3 DEF StoreDex
    <3>2. ~Far(cell'[upd.dex].price, cell'[Other(upd.dex)].price)
      BY <1>3, <2>1, <3>1 DEF StoreDex
    <3>3. QED
      BY <1>3, <3>2 DEF StoreDex
  <2>2. CASE ~Filled(Other(upd.dex))
    BY <1>3, <2>2 DEF StoreDex
  <2>3. QED
    BY <2>1, <2>2
<1>4. CASE RaiseSlot
  BY <1>4 DEF RaiseSlot
<1>5. CASE UNCHANGED <<dexSide, geyser>>
  BY <1>5 DEF dexSide, geyser
<1>6. QED
  BY <1>1, <1>2, <1>3, <1>4, <1>5, OthersLeaveDexSide DEF Writer

(* Every step keeps the tracker at or above the slots of the cells.        *)
LEMMA CoverStep ==
    ASSUME StateAssumption, TypeOK, TrackerCoversCells, [Next]_vars
    PROVE  TrackerCoversCells'
<1> USE DEF StateAssumption, TypeOK, TrackerCoversCells
<1>1. ASSUME NEW u \in Updates, NEW deep \in BOOLEAN, Receive(u, deep)
      PROVE  TrackerCoversCells'
  BY <1>1 DEF Receive, dexSide
<1>2. CASE Compare
  BY <1>2 DEF Compare, dexSide
<1>3. CASE StoreDex
  BY <1>3 DEF StoreDex
<1>4. CASE RaiseSlot
  BY <1>4 DEF RaiseSlot
<1>5. CASE UNCHANGED <<dexSide, geyser>>
  BY <1>5 DEF dexSide, geyser
<1>6. QED
  BY <1>1, <1>2, <1>3, <1>4, <1>5, OthersLeaveDexSide DEF Writer

-----------------------------------------------------------------------------
(* The tracker only rises, so what the reader has loaded stays behind it.  *)
LEMMA TrackerRises ==
    ASSUME StateAssumption, TypeOK, [Next]_vars PROVE currentSlot' >= currentSlot
<1> USE DEF StateAssumption, TypeOK
<1>1. ASSUME NEW u \in Updates, NEW deep \in BOOLEAN, Receive(u, deep)
      PROVE  currentSlot' = currentSlot
  BY <1>1 DEF Receive, dexSide
<1>2. CASE Compare
  BY <1>2 DEF Compare, dexSide
<1>3. CASE StoreDex
  BY <1>3 DEF StoreDex
<1>4. CASE RaiseSlot
  BY <1>4 DEF RaiseSlot
<1>5. CASE UNCHANGED <<dexSide, geyser>>
  BY <1>5 DEF dexSide
<1>6. QED
  BY <1>1, <1>2, <1>3, <1>4, <1>5, OthersLeaveDexSide DEF Writer

Reads == ReadsInOrder /\ SnapshotIsFresh

(* Nobody but the reader moves what the reader has read.                   *)
LEMMA OthersLeaveReader ==
    ASSUME [Next]_vars, ~Reader PROVE UNCHANGED reader
<1>1. CASE \E u \in Updates, deep \in BOOLEAN : Receive(u, deep)
  BY <1>1 DEF Receive
<1>2. CASE Writer
  BY <1>2 DEF Writer, Compare, StoreDex, RaiseSlot
<1>3. CASE (\E s \in Symbols : InsertPair(s)) \/ StoreLegacy
  BY <1>3 DEF InsertPair, StoreLegacy
<1>4. CASE World
  BY <1>4 DEF World, SlotAdvance, Tick, MarketMoves
<1>5. CASE UNCHANGED vars
  BY <1>5 DEF vars
<1>6. QED
  BY <1>1, <1>2, <1>3, <1>4, <1>5 DEF Next

(* Every step keeps the snapshot fresh and its slot from falling.          *)
LEMMA ReadStep ==
    ASSUME StateAssumption, TypeOK, Reads, [Next]_vars
    PROVE  Reads' /\ snap'.currentSlot >= snap.currentSlot
<1> DEFINE Goal == Reads' /\ snap'.currentSlot >= snap.currentSlot
<1> USE DEF StateAssumption, TypeOK, Reads, ReadsInOrder, SnapshotIsFresh
<1>1. currentSlot' >= currentSlot
  BY TrackerRises
<1>2. CASE UNCHANGED reader
  BY <1>1, <1>2, TypeStep DEF reader, QuoteFresh
<1>3. CASE ReadClock
  BY <1>1, <1>3 DEF ReadClock, dexSide, QuoteFresh
<1>4. CASE ReadSlot
  BY <1>4 DEF ReadSlot, dexSide, QuoteFresh
<1>5. CASE ReadCex
  BY <1>5 DEF ReadCex, dexSide, QuoteFresh
<1>6. CASE CexStale
  BY <1>6 DEF CexStale, dexSide, QuoteFresh
<1>7. CASE ReadOrca
  BY <1>7 DEF ReadOrca, dexSide, QuoteFresh, FreshSlot
<1>8. CASE ReadRaydium
  BY <1>8 DEF ReadRaydium, dexSide, QuoteFresh, FreshSlot
<1>9. QED
  BY <1>2, <1>3, <1>4, <1>5, <1>6, <1>7, <1>8, OthersLeaveReader DEF Reader

(* The feed is alone on the CEX side.                                      *)
LEMMA LegacyStep ==
    ASSUME StateAssumption, TypeOK, LegacyInSync, [Next]_vars PROVE LegacyInSync'
<1> USE DEF StateAssumption, TypeOK, LegacyInSync
<1>1. ASSUME NEW s \in Symbols, InsertPair(s) PROVE LegacyInSync'
  BY <1>1 DEF InsertPair
<1>2. CASE StoreLegacy
  BY <1>2 DEF StoreLegacy
<1>3. CASE UNCHANGED <<cexSide, feed>>
  BY <1>3 DEF cexSide, feed
<1>4. ASSUME \E u \in Updates, deep \in BOOLEAN : Receive(u, deep)
      PROVE  UNCHANGED <<cexSide, feed>>
  BY <1>4 DEF Receive
<1>5. ASSUME Writer \/ Reader \/ World \/ UNCHANGED vars
      PROVE  UNCHANGED <<cexSide, feed>>
  <2>1. CASE Writer
    BY <2>1 DEF Writer, Compare, StoreDex, RaiseSlot
  <2>2. CASE Reader
    BY <2>2 DEF Reader, ReadClock, ReadSlot, ReadCex, CexStale, ReadOrca, ReadRaydium
  <2>3. CASE World
    BY <2>3 DEF World, SlotAdvance, Tick, MarketMoves
  <2>4. CASE UNCHANGED vars
    BY <2>4 DEF vars
  <2>5. QED
    BY <1>5, <2>1, <2>2, <2>3, <2>4
<1>6. QED
  BY <1>1, <1>2, <1>3, <1>4, <1>5 DEF Next

-----------------------------------------------------------------------------
(* What is past the sanity bounds is a price somebody sent.                *)
UpdateKnown ==
    wpc \in {"compare", "store"} =>
        Sane(upd.price) /\ upd.price \in Prices \cup Stray

LEMMA KnownStep ==
    ASSUME StateAssumption, TypeOK, UpdateKnown, [Next]_vars PROVE UpdateKnown'
<1> USE DEF StateAssumption, TypeOK, UpdateKnown
<1>1. ASSUME NEW u \in Updates, NEW deep \in BOOLEAN, Receive(u, deep)
      PROVE  UpdateKnown'
  <2>1. u.price \in Prices \cup Stray
    BY DEF Updates
  <2>2. QED
    BY <1>1, <2>1 DEF Receive
<1>2. CASE Compare
  BY <1>2 DEF Compare
<1>3. CASE StoreDex \/ RaiseSlot
  BY <1>3 DEF StoreDex, RaiseSlot
<1>4. CASE UNCHANGED <<dexSide, geyser>>
  BY <1>4 DEF geyser
<1>5. QED
  BY <1>1, <1>2, <1>3, <1>4, OthersLeaveDexSide DEF Writer

(* The gap of the code is the one on either side.                          *)
LEMMA FarIsNotNear ==
    ASSUME NEW p \in Nat, NEW o \in Nat, StateAssumption PROVE Far(p, o) <=> ~Near(p, o)
<1> DEFINE G == GapPct * o
<1>1. G \in Int
  BY DEF StateAssumption
<1>2. Far(p, o) <=> (IF p >= o THEN p - o ELSE o - p) * 100 > G
  BY DEF Far
<1>3. Near(p, o) <=> (p - o) * 100 <= G /\ (o - p) * 100 <= G
  BY DEF Near
<1>4. G >= 0
  BY DEF StateAssumption
<1> HIDE DEF G
<1>5. QED
  BY <1>1, <1>2, <1>3, <1>4

(* A price in the market's band passes the comparison with one that is in  *)
(* it, and garbage does not; so a store keeps the cells in the band.       *)
LEMMA HeardStep ==
    ASSUME StateAssumption, TypeOK, Checked, UpdateKnown, Banded, InBand, [Next]_vars
    PROVE  InBand' /\ ~TurnsMarketAway
<1> USE DEF StateAssumption, TypeOK, InBand, Filled
<1>1. ASSUME NEW p \in Prices \cup Stray, NEW q \in Prices, Sane(p)
      PROVE  Far(p, q) <=> p \notin Prices
  BY <1>1, FarIsNotNear DEF Banded
<1>2. CASE StoreDex
  <2>1. upd.price \in Prices
    BY <1>1, <1>2 DEF StoreDex, Checked, StoreIsChecked, UpdateKnown
  <2>2. QED
    BY <1>2, <2>1 DEF StoreDex, TurnsMarketAway
<1>3. CASE Compare
  <2>1. upd.price \in Prices => wpc' = "store"
    BY <1>1, <1>3 DEF Compare, UpdateKnown
  <2>2. QED
    BY <1>3, <2>1 DEF Compare, dexSide, TurnsMarketAway
<1>4. ASSUME NEW u \in Updates, NEW deep \in BOOLEAN, Receive(u, deep)
      PROVE  InBand' /\ ~TurnsMarketAway
  BY <1>4 DEF Receive, dexSide, TurnsMarketAway
<1>5. CASE RaiseSlot
  BY <1>5 DEF RaiseSlot, TurnsMarketAway
<1>6. CASE UNCHANGED <<dexSide, geyser>>
  BY <1>6 DEF dexSide, geyser, TurnsMarketAway
<1>7. QED
  BY <1>2, <1>3, <1>4, <1>5, <1>6, OthersLeaveDexSide DEF Writer

-----------------------------------------------------------------------------
Safe == TypeOK /\ UpdateKnown /\ Checked /\ TrackerCoversCells /\ Reads /\ LegacyInSync

(* Every invariant above holds at the start.                               *)
LEMMA InitSafe == ASSUME StateAssumption, Init PROVE Safe
<1> USE DEF StateAssumption, Init
<1>1. TypeOK
  BY DEF TypeOK
<1>2. UpdateKnown /\ Checked /\ TrackerCoversCells /\ LegacyInSync
  BY DEF UpdateKnown, Checked, CellsAgree, StoreIsChecked, Filled, TrackerCoversCells, LegacyInSync
<1>3. Reads
  BY DEF Reads, ReadsInOrder, SnapshotIsFresh
<1>4. QED
  BY <1>1, <1>2, <1>3 DEF Safe

(* So they hold in every reachable state.                                  *)
LEMMA SafeAlways == Spec => []Safe
<1>1. Safe /\ [Next]_vars => Safe'
  BY StateAssumption, TypeStep, KnownStep, AgreeStep, CoverStep, ReadStep, LegacyStep DEF Safe
<1>2. Init => Safe
  BY StateAssumption, InitSafe
<1>3. QED
  BY <1>1, <1>2, PTL DEF Spec

(* Every variable keeps its type.                                          *)
THEOREM TypeCorrect == Spec => []TypeOK
<1>1. Safe => TypeOK
  BY DEF Safe
<1>2. QED
  BY <1>1, SafeAlways, PTL

(* The cross-check of update_dex holds between the cells themselves.       *)
THEOREM CellsStayClose == Spec => []CellsAgree
<1>1. Safe => CellsAgree
  BY DEF Safe, Checked
<1>2. QED
  BY <1>1, SafeAlways, PTL

(* No cell is newer than the slot tracker, but for the one being stored.   *)
THEOREM TrackerCovers == Spec => []TrackerCoversCells
<1>1. Safe => TrackerCoversCells
  BY DEF Safe
<1>2. QED
  BY <1>1, SafeAlways, PTL

(* A snapshot satisfies both filters at its own slot and time.             *)
THEOREM SnapshotsAreFresh == Spec => []SnapshotIsFresh
<1>1. Safe => SnapshotIsFresh
  BY DEF Safe, Reads
<1>2. QED
  BY <1>1, SafeAlways, PTL

(* The legacy cell and the pair map give the same SOLUSDC quote.           *)
THEOREM LegacyFollows == Spec => []LegacyInSync
<1>1. Safe => LegacyInSync
  BY DEF Safe
<1>2. QED
  BY <1>1, SafeAlways, PTL

(* Snapshots never go back in slots.                                       *)
THEOREM Forward == Spec => SnapshotsMoveForward
<1>1. Safe /\ [Next]_vars => snap'.currentSlot >= snap.currentSlot
  BY StateAssumption, ReadStep DEF Safe
<1>2. Safe /\ [Next]_vars => [snap'.currentSlot >= snap.currentSlot]_vars
  BY <1>1
<1>3. QED
  BY <1>2, SafeAlways, PTL DEF Spec, SnapshotsMoveForward

(* Once both DEXes were heard in the market's band, garbage stays out and  *)
(* no market price is turned away.                                         *)
THEOREM MarketHeard == Spec => MarketIsHeard
<1>1. Safe /\ [Next]_vars => [Banded /\ InBand => InBand' /\ ~TurnsMarketAway]_vars
  BY StateAssumption, HeardStep DEF Safe
<1>2. QED
  BY <1>1, SafeAlways, PTL DEF Spec, MarketIsHeard
=============================================================================
