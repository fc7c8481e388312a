# Verification of pnl-bot

pnl-bot watches SOL/USDC on Binance (the CEX) and in Orca and Raydium pools
(the DEXes), looks for a price gap that pays after fees, and trades it: on
paper in `paper_trade` and by default in `live_trade`, with real orders on
both venues when `live_trade` is started live. This directory holds TLA+
models of its core, the TLC runs that check them on small instances, and
proofs that TLAPS checks for every value of the constants.

Paths below are relative to the repository; `coordinator.rs` means
`src/execution/coordinator.rs`, and so on for names that occur once.

Contents: 1 the system · 2 what can go wrong · 3 the modules · 4 the runs and
their bounds · 5 fairness · 6 proofs · 7 disagreements found · 8 limits of the
models · 9 the plan · 10 running the checks.

## 1. The system

```
 Yellowstone gRPC ──► PoolMonitor ──watch channel──► geyser_task ─┐  writes
                       (decoders)                                 ▼
 Binance bookTicker ─► BinanceWs ─────────writes────────────► PriceState
                                                                  │ snapshot()
                                                                  ▼
                                    detector_task ── check() ─ SpreadDetector
                                          │ on_signal (lock, awaited)
                                          ▼
                                     Coordinator ──paper──► PaperEngine ──► PnlTracker
                                          └────live──► Binance REST  ║  Jupiter + RPC
                                                        (tokio::join! of two legs)
```

All tasks run in one tokio process. `PriceState` is shared without a lock
(atomic cells); coordinator, engine and tracker sit behind `tokio::sync::Mutex`.
Nothing is persisted.

| Component | State it keeps | Operations | What makes it correct | Modelled |
|---|---|---|---|---|
| Coordinator (`execution/coordinator.rs`) | `trade_counter`, `last_live_at`, and handles on engine, tracker and both clients | `on_signal` | no order before the gates pass; two legs or a report that says so; trades apart by the cooldown; every call returns | yes |
| Price state (`strategy/price_state.rs`) | one cell per DEX, the slot tracker, the legacy CEX cell, the CEX map by symbol, counters | `update_dex`, `update_slot`, `update_cex_quote_for_pair`, `snapshot`, `cex_for_pair` | the two DEX prices agree; a snapshot is fresh although it is several loads; it goes forward; the cross-check keeps garbage out and lets the market in | all but the demo's `update_cex` and the counters |
| Spread detector (`strategy/spread_detector.rs`) | time of the last signal, seven counters | `check`, `stats`, `reset_cooldown` | signals are a cooldown apart; each check is counted once; a paying gap signals | `check` |
| Paper engine (`paper/paper_engine.rs`) | balance, closed trades, `open_trade`, skipped counter | `on_signal`, `stats` | each signal is a trade or a counted skip; the balance is what the trades add up to; `stats` agrees with the tracker | yes |
| P&L tracker (`paper/pnl_tracker.rs`) | running totals, extremes, drawdown, streaks, Welford moments | `record`, `snapshot`, `reset` | each O(1) statistic, and each one derived from it, is what it claims of the list of trades | all but the sums of fees and slippage and the moments |
| Tasks and shutdown of both binaries (`bin/*.rs`) | the cancellation token, join handles | `detector_task`, `geyser_task`, `display_task`, `main` | nothing is lost between a trade and its report; a stop leaves nothing unsaid | the detector tasks, `geyser_task`, Ctrl+C, join and report |
| Binance REST client (`execution/binance_rest.rs`) | HTTP client, optional credentials | `get_balances`, `place_market_order` | an Ok says what the venue did; an error is never taken for "nothing happened" | requests, answers and parsing; no signing, JSON or rounding |
| Jupiter client (`execution/jupiter.rs`) | HTTP and RPC clients, optional key | `get_quote`, `execute_swap`, confirmation | as above; a quote that moves the price too far is not swapped | gates, requests and confirmation; no bodies, no transaction bytes |
| Pool monitor (`dex/pool_monitor.rs`) | stream, attempt counter, statistics, watch channel | `start_pool_monitor`, `monitor_loop`, `run_subscription`, `handle_update` | reconnects for as long as needed and not too fast; every update is accounted for; the reader gets the newest price | yes |
| Binance WebSocket feed (`execution/binance_ws.rs`) | session, backoff, counters | `run_with_reconnect`, `run_session` | reads every ticker; answers every ping; reconnects until cancelled, and then stops | yes |
| Pool decoders (`dex/whirlpool.rs`, `dex/raydium.rs`) | none | account bytes to price | no panic at any length; every field read where its program wrote it | lengths, offsets, discriminators, price; no 128-bit or `f64` precision |
| `pool_monitor_live`, module files | none of their own | printing, re-exports | – | no |

What they do to each other:

* **Shared state.** `geyser_task` is the only writer of the DEX cells, the
  Binance feed the only writer of the CEX cell and map, and `detector_task`
  reads both without waiting for either.
* **Awaited calls.** `detector_task` calls `on_signal` inside its select arm
  and holds the coordinator's lock through it. So signals are handled one at a
  time, and an await of `on_signal` that never ends stops detection, the
  display of the coordinator and the reaction to Ctrl+C.
* **Venues.** A request that times out is not a request that failed: an order
  at a venue can fill after the call returned, or after the process ended.
* **Shutdown.** `main` cancels, waits two (`paper_trade`) or three
  (`live_trade`) seconds for the tasks, prints the tracker and returns; the
  runtime then drops every task at the await it stands at.

## 2. What can go wrong

`PROJECT.json` lists each hazard at its line with the properties that watch it.
The groups, and the module each is for:

* **Two legs, one of them done** (Coordinator): partial fills across venues,
  lost replies, late executions, dropped futures.
* **Checked early, used late** (Coordinator): prerequisites, balance and slot
  age are read before awaits and used after them.
* **Assembled from separate loads** (PriceState): `snapshot` is five loads,
  `update_dex` two or three steps, a quote two stores.
* **A filter that starves** (PriceState): each DEX cell is compared with the
  other's last value, however old; a pair of wrong values can lock the right
  ones out.
* **Incremental statistics** (PnlTracker): one update in the wrong order is
  wrong for the rest of the session.
* **Between two locks** (PaperTrading): the engine has the trade before the
  tracker does, and the task can be dropped in between.
* **A wall clock that goes back** (SpreadDetector): NTP moves
  `SystemTime::now`.
* **Bytes of the wrong shape** (PoolDecoders, PoolMonitor): short accounts,
  stripped discriminators, an address listed under both programs and routed to
  the last of them; a decoder that panics takes the one monitoring task with it.
* **A channel of one value** (PoolMonitor): updates of all pools overwrite each
  other before the reader looks.
* **Sessions that end** (PoolMonitor, BinanceWs): at every await and with every
  result; backoffs that start from zero, never grow or never end; a parser that
  does not fit the endpoint; a ping that is not answered.
* **Cancellation windows** (BinanceWs): the token is looked at before a session
  and watched by two selects, not while the task connects, sends or closes.
* **What a reply is worth** (ExecuteLegs): requests that are answered and lost,
  an Ok of an order that executed nothing, a profit computed from a quote, legs
  sized from the signal and not from each other.

Three hazards have no property, and `PROJECT.json` says why at each: a slot
tracker that stands still makes the last price look new for ever, a clock that
steps back makes a quote look new, and a silent stream is not noticed. In each the
code has no rule one could state; section 7 lists what the documents say.

## 3. The modules

### Coordinator

`Coordinator.tla` models `on_signal` from the call by `detector_task` to its
return. It is cut where the future can be suspended, because there the chain
advances (`SlotAdvance`), time passes (`Tick`), the venues act (`ExecuteCex`,
`ExecuteDex`, `Refuse`, `Expire`) and the process may end (`Abort`):

| `pc` | code | leaves by |
|---|---|---|
| `idle` | the detector is not inside `on_signal` | `OnSignal` |
| `gates` | freshness gate, the paper path, prerequisites, cooldown | `SignalStale`, `PaperTrade`, `PaperSkip`, `PrerequisitesNotMet`, `LiveCooldownSkip`, `AskBalances` |
| `balance` | `get_balances().await`, then the USDC test | `BalancesRead` and then `BalanceFailed`, `InsufficientBalance` or `Fire` |
| `legs` | `tokio::join!` of the two legs | `ReplyOk`, `ReplyErr`, `ReplyLost` per leg, then `LegsJoined` |
| `dead` | the runtime dropped the future | – |

`memory` (what the process remembers), `venues` (what is true outside it) and
`history` (what a reader of the log knows) are kept apart, so that properties
can relate what was reported to what happened. Of the money the module keeps
Binance's USDC, the one balance `on_signal` compares. What an order moves there is
any of `Amounts` the venue allows: a buy spends at most the trade size, a sale is
sized in SOL at the signal's price and brings what the market pays. SOL is left
out, because neither leg is sized by the other and nothing says that they cancel;
`ExecuteLegs` has the amounts of one trade.
A Binance order is `pending` until the venue decides; a market order that
executed nothing is `expired`, and `ReplyOk` treats it like one that filled
because `place_market_order` parses it to price zero (`binance_rest.rs:402`).
A leg whose client holds no credentials is `unsent`: its call fails without
a request, while `get_balances` of such a client answers a dummy balance.
Tracker totals at start are arbitrary, see *limits*.

`PaperTrade` leaves out the tracker's lock between the engine's trade and its
entry: `PaperTrading` has it.

Properties: `OrdersAreLicensed`, `ReportMatchesVenues`,
`StaleBalanceNeedsLostReply`, the action property
`LiveSpacing`, the liveness property `SignalResolved`, two claims of the
documentation that do not hold (section 7), and three that are proved and need
no run of their own: `TradesAreSequential`, `LegsFollowContract` and
`TakesEveryAnswer` (below).

`ReportMatchesVenues` says what each result is worth, and no more. `Filled` means
that the swap landed and that Binance answered; an order that expired is answered
too, and then the trade is one-sided although it counts as filled, which happens in
no other way (section 7). A DEX error alone means that Binance answered. After a
stop, one trade at most has no result, it is the newest, and its legs may stand
in any state: the process writes nothing down from which more could be known.

### LegContract and ExecuteLegs

`ExecuteLegs.tla` opens up what `Coordinator` takes as one step per leg:
`execute_both_legs` with `place_market_order` beside `get_quote` and
`execute_swap`. Each client has a program counter, each venue its order; the
requests may fail before they arrive, fail after they arrived, or be answered
with a body that cannot be read.

| Client | Places (`cpc`, `dpc`) | Actions |
|---|---|---|
| Binance | `place`, `sent`, `body`, `done` | `OrderRefusedByClient` (no credentials), `PlaceOrder`, `OrderRequestFails`, `OrderAnswered`, `BodyRead`, `BodyLost` |
| Jupiter | `quote`, `swap`, `confirm`, `done` | `QuoteFails`, `QuoteRefused` (price impact, no output), `Quoted`, `SwapFails`, `SwapSent`, `Confirmed`, `ConfirmFails` |
| both | – | `Join`: the first error wins, or the gross profit is computed |
| venues | – | `Execute`, `NotExecuted`, `Land`, `Dropped`, also after the client gave up |

Unlike in `Coordinator`, amounts matter: SOL and USDC are whole units, a fill
may be partial, better or worse than the signal promised, a swap may pay less
than its quote within the slippage. `fill` is what Binance executed and `seen` what
the client made of it: a quantity or a value that is no number is read as zero
(`binance_rest.rs:418`).

`LegContract.tla` is what `Coordinator` counts on for one leg: an Ok needs a
venue that answered, an error proves nothing, and the call resolves.
`LegsKeepContract` shows that both clients implement it. From the other side
`CoordinatorProofs` shows that each leg of `Coordinator` follows the same contract
from one `Fire` to the next (`LegsFollowContract`) and that a waiting call takes
every answer the contract allows (`TakesEveryAnswer`), so that the coarse legs of
`Coordinator` stand for the fine ones. Only the venues of `Coordinator` are narrower:
they execute what the USDC at Binance affords. A leg with credentials counts as
placed from its first poll (`AtVenue`): the contract has no state for an order that was
never sent, and one that stays pending for ever is the same to a caller.

Properties: `GrossIsSettled` relates the reported gross profit to what the
venues hold more than before, for each direction, each fill and each payout.
`ProfitIsReal` looks at both assets: the legs are sized apart, so a trade leaves SOL
behind or short, and counted at the price of Binance's fill the two venues together
still gained what is reported, partial fills included. It needs
`NoWorseThanSignal`, that Binance sold its SOL or Jupiter paid it out no worse than
the signal's price: the report does not see a worse one (section 7).
`LegsKeepContract` is the refinement, its liveness included.

### PriceState

`PriceState.tla` models the accesses to the atomic cells one at a time, by
three tasks:

* the Geyser task: `Receive` (sanity bounds and liquidity), `Compare` (load of
  the *other* cell and the 10 % test), `StoreDex`, `RaiseSlot` (the two
  `fetch_max` with the same slot, of which the second is a no-op);
* the feed: `InsertPair`, `StoreLegacy`;
* the detector in `snapshot()`: `ReadClock`, `ReadSlot`, `ReadCex` or
  `CexStale`, `ReadOrca`, `ReadRaydium`, the last of which chooses the entry
  and returns.

The world moves the chain's slot, the clock and the market's price. An update
carries the market's price or a *stray* one; stray prices stand for partial
decodes and for the other pools of the same DEX that are monitored by default
and routed to the same cell. Updates may trail the chain by `MaxLag` slots and
come in any order. Prices matter only through the bounds and the percent gap,
quotes only through their time.

Properties: `CellsAgree`, `TrackerCoversCells`, `SnapshotIsFresh`,
`LegacyInSync`, `SnapshotsMoveForward`; the strengthenings `StoreIsChecked`
and `ReadsInOrder`, used by the proofs; the action property `MarketIsHeard`; and
the claim `GarbageDoesNotLast`.

`MarketIsHeard` and `GarbageDoesNotLast` are the two sides of the cross-check. Once
both cells hold market prices, and as long as the market moves within the gap and
garbage is beyond it (`Banded`), no garbage enters either cell and no market price is
turned away, however old the entry it is compared with. Before that point two
garbage prices can agree and keep the market out for good, as the run
`PriceState_garbage` shows. What is not claimed is that a snapshot comes in the
end: the watch channel keeps one value of all pools, so no feed is promised to be
heard, and whether a snapshot passes the age filters depends on when they are.

### PnlTracker

`PnlTracker.tla` is `record()` and `reset()` next to the `ledger`, the list
of the trades the tracker was given and does not keep. `Snapshot` is what
`snapshot()` derives from the running totals, `EngineStats` what
`PaperEngine::stats` computes afresh from its list of trades. Every property says
what a statistic is *of the ledger*. `StatisticsAreTrue` is the conjunction of

* `CountsAddUp` and `MoneyAddsUp`: classes and sums;
* `StreaksAreRuns`: the longest runs anywhere and at the end;
* `ExtremesAreTrades`: best and worst bound the results and are two of them;
* `SnapshotIsSound`: the two sets of statistics agree where both have a field,
  means lie between the trades they are means of, and a profit factor without
  losses is the cap.

`DrawdownIsDeepestFall` stands alone, and the action property `RecordsStand` is
proved only. The module also serves as the abstract specification of the
paper path.

### SpreadDetector and PaperTrading

`SpreadDetector.tla` is `check()`: five gates with their arithmetic in integers
(rates in thousandths of a percent, money in hundredths of a cent), the
counters, and the wall clock, which goes both ways. `check()` has one
caller and no await, so it is one action, `Reject` or `Emit`. Integer
division rounds where `f64` does not; the instances' snapshots lie well away
from the thresholds.

`PaperTrading.tla` EXTENDS it with what follows a check: the coordinator's
freshness gate (in `live_trade`; the demo calls the engine itself), the
engine's fills, skips and trades, the entry in the tracker, and the end of
the process:

| action | code |
|---|---|
| `CheckRejects`, `CheckEmits` | a tick of `detector_task` |
| `SignalStale` | `coordinator.rs` gate 1 |
| `Skip`, `Trade` | `PaperEngine::on_signal`, which opens and closes in one call |
| `RecordTrade` | the tracker's lock is granted and `record` runs |
| `Cancel`, `Stop` | Ctrl+C; the select arm sees it between two ticks only |
| `PrintReport`, `Exit` | the bounded join ends; the runtime drops the task |

It is shown to implement `PnlTracker` under `ledger <- Fed`, the engine's
trades as far as the tracker has them (`LedgerKept`): the tracker is fed each
trade once, in order, with ids and balances that follow one another. Other
properties: `ChecksAccountedFor`, `PaperNeverLoses`, `ReportIsComplete`,
`SignalsSpaced`, the claim `PayingGapSignals`, and `TrackerFollowsEngine`,
which is proved.

### PoolDecoders

`PoolDecoders.tla` has no state: it says what becomes of an account's bytes when
one of the two decoders reads them. `Layout` is the account as its program
writes it, a sequence of fields with sizes, and a field starts after the sizes of
those before it (`StartsAt`); `WhirlpoolReads` and
`RaydiumReads` are the decoders' own tables of offsets and widths. A read that
hits a field of the layout returns the account's value of it, any other read
returns `noise`; an account shorter than a read makes the decoder panic
(`Crashes`) unless the length check came first (`TooShort`). `DecodeError`
keeps the order of the code's checks, `Decoded` is the price with the estimated depth.
Accounts carry what stands there in either layout, because an account can reach
the other program's decoder. Square roots are in tenths (2^64 in the code) and
prices in hundredths.

### PoolMonitor and LatestValue

`PoolMonitor.tla` is the task behind `start_pool_monitor` and, at the other end of the
watch channel, the `geyser_task` of the binaries:

| `pc` | code | leaves by |
|---|---|---|
| `loop` | head of `monitor_loop`: count the attempt, look at the limit | `StartAttempt`, `GiveUp` |
| `connect`, `subscribe` | the two awaits that open a session | `Connected`, `Subscribed`, or their failures |
| `stream` | the read of the stream | `Receive(m)`, `StreamEnds` |
| `ping` | the keepalive, which only a message triggers | `PingSent`, `PingFails` |
| `handle` | `handle_update` | `Ignored`, `DecodeFails`, `GateDrops`, `Publish`, `StreamErrors` |
| `backoff` | the sleep | `Tick`, `BackoffOver` |
| `stopped`, `panicked` | the task is gone | – |

The watch channel is a value and a version; the receiver remembers the version
it saw. `changed()` and `borrow()` are two actions (`Changed`, `Borrow`), because
another price may be sent in between. `LatestValue.tla` is the abstract
register: values may be conflated, the last one never is. `ChannelIsARegister` is
the refinement.

`DefaultPools` is the list of the code, three Orca addresses entered twice
included, and `Route` takes the last entry of an address, as collecting into a
map does. The runs use an excerpt that keeps one such pair.

Properties: `NeverPanics`; `PublishedAsLaidOut`, that is `ReadInPlace`
(price and depth of an account in the decoder's own layout are what its fields say,
at the decimals of the list or, on Raydium, of the account) and
`RaydiumDiscriminator` (an account that names another program is not published as
Raydium's); `UpdatesAccountedFor`, across sessions; `NoHotReconnect`;
`ChannelIsARegister`; under fairness `KeepsReconnecting` and `PricesAreNoticed`; and
the claim `OrcaDiscriminator`, which does not hold (section 7). None of this says
that an account is read by its own decoder: Raydium's lets a zeroed discriminator
pass whoever wrote the account (`raydium.rs:282`), and Orca's looks at none.
`StopsAtLimit`, `DeepEnough` and
`WaitsWithTheLast` are proved.

### BinanceWs

`BinanceWs.tla` is the task behind `start_binance_ws`, one place per await:
`loop`, `connect`, `stream`, `ping`, `pong`, `closing`, `backoff`, `stopped`.
The endpoint (`Sent`) and the parser (`Parsed`) are chosen by two tests of the
code and are two operators here. A quote is only its class, *sane*, *crossed* or
*outside*, because that is what the two filters on its way (`BookTicker::prices` and
`PriceState::price_is_sane`) tell apart.

Properties: `FramesAreHandled`, that is `TickersAreRead`, `QuotesAreSane` and
`EveryPingAnswered`; `BackoffDoubles`, the delay before the n-th reconnect as a
closed formula against the code's incremental one; `CancelStops` and
`KeepsConnecting` under fairness. `StopsOnlyWhenCancelled` is proved.

## 4. The runs

`MC*.tla` give constants values; configurations replace no definition.

| Run | Question | Bounds | Distinct states |
|---|---|---|---|
| `Coordinator_safety` | Are gates overtaken, reports at odds with the venues, trades too close, balances stale, calls stuck? | 2 trades of at most 2 units of USDC out of 3, tracker of at most 5 trades with a gate at 2, cooldown of 2 ticks, ages 0..3 with a limit of 2, 1 slot of drift | 777 594 |
| `Coordinator_flatten` | Does a failed leg get flattened, as documented? *No.* | 1 trade | counterexample |
| `Coordinator_fresh` | Is the signal fresh when the legs fire, as documented? *No.* | 1 trade | counterexample |
| `ExecuteLegs_safety` | Is the reported profit what came in, in USDC and in both assets; do the legs keep their contract? | 1 trade of 12 USDC in both directions at 3 and 4, fills of 2..5 SOL for 8, 12 or 16, outputs 0, 3, 4, 12, 16, slippage 25 % | 14 286 |
| `PriceState_safety` | What can a snapshot meet while both writers run, and what does the cross-check let in? | market 100 or 109, one move, stray 50, slots 0..1 with lag 1, clock 0..1, age limits 0 | 6 894 500 |
| `PriceState_garbage` | Does the cross-check get rid of garbage, as documented? *No.* | one price, one stray at half of it | counterexample |
| `PnlTracker_safety` | Is each statistic what it claims to be? | all sequences of up to 6 of 5 results, and resets | 19 531 |
| `PaperTrading_safety` | Is everything counted, recorded and reported, also when interrupted? | 4 checks of 9 kinds of snapshot, 3 configurations, clock 1..4 with cooldown 2 | 208 104 |
| `PaperTrading_threshold` | Does a gap that clears the threshold signal, as documented? *No.* | the same, 2 configurations | counterexample |
| `PoolMonitor_safety` | Is anything published that is not so, lost, or never taken; does the task survive and reconnect? | 3 pools, one under both programs, 6 accounts, 2 account updates, any number of sessions without a limit and 2 with one | 165 186 |
| `PoolMonitor_foreign` | Does the Orca decoder refuse an account that is not a Whirlpool, as documented? *No.* | the same | counterexample |
| `BinanceWs_safety` | Are frames read, pings answered, reconnects spaced, cancellations seen? | PAIRS with 0, 1 and 2 names, 2 text frames a session, backoff 1, 2, 4, 5, sessions counted to 4 | 8 517 |

Why the bounds are enough for the questions:

* *Coordinator.* Two trades are the fewest in which an order of one call
  outlives it and meets the next one's balance, cooldown or report. Of 3 units
  a first buy of 2 leaves less than the trade size and one of 1 does not, so
  `Affordable` and `InsufficientBalance` bite and an order filled in part is among the
  cases. Three wins of five trades are exactly the 60 % of the gate. A cooldown of two ticks separates "just ended",
  "cooling" and "over"; one slot of drift separates both sides of the age
  limit. `FairSpec` is used for the whole run so that `SignalResolved` is checked
  on the same states.
* *PriceState.* 100 and 109 pass each other's 10 % test; 50 is sane and passes
  neither's, and below both, so that a test of one side only lets it in. An age limit
  of zero with a second slot and a second tick puts every filter on both sides. The
  writer's three steps and the reader's five interleave in full, in states where
  both cells hold market prices, where one or both are empty, and where garbage
  came first.
* *PnlTracker.* Six trades fit a fall over several trades, a partial
  recovery, a new peak and a second, deeper fall, and runs of both
  outcomes broken by a breakeven. With a cent of 1 the result 1 is a breakeven
  at the edge of its band, 2 and -2 are a win and a loss just outside it.
* *PaperTrading.* There is one snapshot per outcome of a check or a
  trade, among them one that both gates judge differently (age 3), one
  that the slippage charged twice turns into a skip and one that ends within
  a cent of zero. Four checks fit two trades, the cooldown between
  them, and a skip or a stale signal on either side.
* *ExecuteLegs.* The module is one call. At 12 USDC between prices 3 and 4 both
  divisions are exact, so that fills at exactly the signal's prices occur; 2, 3, 4 and 5
  SOL are fills below, at and above the estimates, for 8, 12 and 16 USDC dearer and
  cheaper than the signal; 16, 12 and the small outputs are gains, break-even and losses.
* *PoolMonitor.* Two updates are the fewest of which one overwrites the other
  between `changed()` and `borrow()`. The accounts are one of each program, one that is
  shallow, one dead, one cut behind the tick (the length an exported
  constant allows) and one without discriminator, and each may arrive under each
  address. Sessions are not bounded: the attempt counter saturates at 11,
  behind the tenth attempt where the backoff stops growing.
* *BinanceWs.* The backoff reaches its cap at the fourth reconnect, and the count
  of sessions saturates there. Two text frames fit a ticker that another one
  overwrites; sessions are not bounded.

`CHECK_DEADLOCK FALSE` is set where a behaviour really may end: the process
stops (`Coordinator`, `PaperTrading`), the task does (`PoolMonitor`, `BinanceWs`),
the one call returns (`ExecuteLegs`), and the bounds on trades and checks
are reached. Bounds that are not the code's (`MaxTrades`, `MaxPaper`,
`MaxDrift`, `MaxLag`, `MaxSlot`, `MaxClock`, `MaxMoves`, `MaxLedger`,
`MaxChecks`, `MaxUpdates`, `AttemptCap`, `MaxTexts`, `SessionCap`) are constants
named as such in each module and stand in guards or saturate a counter.

## 5. Fairness

*Coordinator.* Weak fairness of `Gates`, `Balance`, each leg's `LegDone`
and `LegsJoined`. Both HTTP clients carry a request timeout (5 s at Binance,
10 s at Jupiter), and the RPC client gives up on a confirmation, so an
await ends whatever the venue does: `ReplyLost` is what an await ending without
an answer looks like. The task that holds the future is polled while
the process lives. Nothing is assumed of the venues: an order may stay
pending for ever. With it `SignalResolved` holds: the call returns, or the
process ends.

*PriceState.* `PriceState_safety` assumes none. `FairSpec` serves the counterexample
of `PriceState_garbage` only: strong fairness of `Receive(Current(d), TRUE)` and of
`InsertPair("SOLUSDC")`, weak fairness of the three tasks' steps. That is more than a
watch channel fed by all pools gives, and the garbage stays even so.

*ExecuteLegs.* Weak fairness of `Cex`, `Dex` and `Join`: every request has its
client's timeout, the RPC node gives up on a confirmation, and `join!` polls
both legs. The venues owe nothing.

*PoolMonitor.* Weak fairness of `Monitor` (connecting and subscribing carry 10 s
timeouts, the other steps run when polled; sends of pings are taken to end), `Tick` and `Receiver`. No
fairness of messages and none of `StreamEnds`: a stream may fall silent for
ever, the read has no timeout, and `KeepsReconnecting` speaks of sessions that
ended. `TaskStops` is not fair either: the reader of a cancelled task may go
on for a while.

*BinanceWs.* Weak fairness of the reconnect loop and its sleep, strong
fairness of `CancelSeen`: `select!` polls its arms in random order, so a token
that stays cancelled is taken in the end however busy the stream; it is
disabled for a moment whenever the task answers a ping. Nothing is assumed of
the network: `connect_async` has no timeout, a send may hang, and `CancelStops`
names exactly these awaits as the places where a cancelled feed can stay.

`PnlTracker` and `PaperTrading` claim no liveness and assume no fairness.

## 6. Proofs

| Module | Theorems |
|---|---|
| `CoordinatorProofs` | `TypeCorrect`, `Licensed`, `ReportsMatch`, `Sequential`, `StaleBalance`, `Spacing`, `FollowsContract`, `TakesEveryAnswer`, `ColdStartNeverFires` |
| `ExecuteLegsProofs` | `TypeCorrect`, `GrossSettled`, `ProfitReal`, `LegsAreSafe` |
| `PriceStateProofs` | `TypeCorrect`, `CellsStayClose`, `TrackerCovers`, `SnapshotsAreFresh`, `LegacyFollows`, `Forward`, `MarketHeard` |
| `PnlTrackerProofs` | `TypeCorrect`, `Drawdown`, `Extremes`, `Statistics`, `Stand` |
| `PaperTradingProofs` | `TypeCorrect`, `Accounted`, `NeverLoses`, `Follows`, `Complete`, `Spaced`, `Implements` |
| `PoolMonitorProofs` | `TypeCorrect`, `NoPanic`, `EveryUpdateCounted`, `StopsExactly`, `NeverHammers`, `AsLaidOut`, `AlwaysDeepEnough`, `RaydiumChecked`, `HoldsTheLast`, `RefinesRegister` |
| `BinanceWsProofs` | `TypeCorrect`, `FramesHandled`, `FeedStopsOnlyWhenCancelled`, `PausesBeforeReconnect`, `PausesDouble` |
| `FoldLemmas` | lemmas about sums over finite sets, folds and iterated functions, cited by the others |

Each is proved from the module's named assumption on its constants
(`ConfigAssumption`, `LegsAssumption`, `StateAssumption`, `TrackerAssumption`,
`DetectorAssumption`, `EngineAssumption`, `MonitorAssumption`, `FeedAssumption`),
which TLC evaluates in the runs.
The assumptions say that the constants are natural numbers or sets of them; the
further ones are `MinPaperTrades > 0` (50 in the code, and with zero the
win rate of no trades would be asked for), `HalfSpread < Unit` (a fill
price is positive), `Infinity` above every result, `Cooldown > 0`, a `MaxClock` above zero and some
snapshot (the detector starts on a clock that runs), prices and
fills above zero, a reconnect delay of at most `MaxDelay` (2 s and 30 s in the
code), an initial backoff of at least a tick and at most the cap, and a slippage
of at most 100 %.

**FoldLemmas.** Counters, gross sums and offsets are sums of unbounded length,
and the sums of the community modules are folds, defined by a recursive function
that `CHOOSE` picks: before anything can be said of its value, such a function has to be
shown to exist. The induction theorems of the library take an operator as parameter
and are of no use here, so the module starts from well-foundedness of the naturals
(`WFMin`) and states induction about sets: a set with 0 and all successors holds every
natural number (`SetInduction`), one that is closed under adding an element to finite
subsets holds them all (`SubsetInduction`). From these follow that a fold and an iterated
function exist (`FoldExists`, `IterationExists`: functions that obey the recursion up to
size n are extended one size at a time) and the laws of a sum: any element may be taken
off, added or changed, whatever order the fold took.

**Coordinator.** `Safe` is inductive: the type invariant, `CallCoherent` and
the four properties. `CallCoherent` is what a call knows at each of its awaits:
at `balance`, that the prerequisites hold and the cooldown is over; they cannot
be overtaken, because the tracker is written by paper trades only and a process is
paper or live for good. At `legs`, that the id awaited is the newest one, and that
an `ok` reply came from a venue that had answered. `OrdersAreLicensed` alone is
not inductive, because `Fire` does not look at the gates again. `LiveSpacing`
follows from `~CoolingDown` at `balance` and `sinceLast = quiet`, which says that
the stamp is where the legs really ended.

`ReportsMatch` needs of `CallCoherent` that an `ok` came from a venue that had answered
and that a swap never expires; `ExecutesOne` says that a venue's step moves one order
of one trade, which is why a late execution of an earlier trade cannot make another
trade's report wrong.

`ColdStartNeverFires` is about the
binary as it is: in live mode a tracker that starts empty stays empty, so that not
one order is placed in the whole run.

**ExecuteLegs.** `Inv` is what each leg leaves true for the join: how its place, its
order and its reply go together (`CexCoherent`, `DexCoherent`), that the quote
in hand is for the size of the signal, that a swap paid at least the quote less
the slippage, and that a result once written stays true although the venues go
on (`JoinCoherent`): both legs said Ok, so no order is pending. `ProfitReal` is one
inequality per direction over products of amounts; for a buy, that the estimate times
its price is at most the trade (`EstimateIsCovered`) and that therefore the SOL Jupiter
sells costs, at the price of Binance's fill, no more than the trade (`WorthTheTrade`). `LegsAreSafe` maps
each step of one leg to a step of its contract and each step of the other one
to a stutter. `FollowsContract` and `TakesEveryAnswer` of `CoordinatorProofs` are the
other half of that argument: a leg of the coordinator does what its contract says, and its
call is ready for whatever the contract allows. The second is an equivalence of
actions in any state that satisfies `Safe`, not a statement about the coordinator's own
steps, of which it would be trivially true.

**PriceState.** `CellsAgree` needs `StoreIsChecked`, an update past the 10 %
test still agrees with the other cell when it is stored. It holds because the one
task that could change that cell is the one that stands between the two steps;
a second writer per DEX would break it. `SnapshotsMoveForward` needs
`ReadsInOrder`: the slot a snapshot in progress has read lies between the last
snapshot's and the tracker. `MarketHeard` needs `StoreIsChecked` too, since the entry
about to be stored was compared one step earlier, and that a price near another is
not far from it (`FarIsNotNear`): the property states the band by itself and not by
the code's test.

**PnlTracker.** The drawdown is the deepest fall because `peak` is the highest
balance so far (`PeakIsHighest`), the balance is the last of the ledger and
ids follow one another (`Base`); the extremes are proved the same way.
`Statistics` is the whole of `StatisticsAreTrue`, for ledgers of any length, and each
part has an inductive invariant of its own:

* `StreakInv`: the current run is the run that ends the list, and cannot be extended
  to the front; the longest runs are somewhere in the list, and none is longer. A new
  trade makes no new run but at the end.
* `BookInv`: each counter is the cardinality of the trades of its class and each sum
  the sum over them, by `SumAdd` under an appended trade.
* `WalkInv`: the walk of `PaperEngine::stats()` over the balances, a fold over the list, has
  arrived at the tracker's peak and drawdown; appending a trade is one more step of it.
* `MeanInv`: gross sums lie between their count times the least and the greatest
  they can be made of. That keeps the means inside the extremes without a division in
  the invariant.

**PaperTrading.** `IInv` has five parts: the shape of the state, how far the
tracker is behind the engine at each program point (`Follow`), that nothing has
lost so far (`NoLoss`), what the report says (`Reported`), and that signals are
settled, in hand or lost with the process (`Tally`). `Accounted` follows from the last;
the rejections are a sum over the reasons' counters, of which a check raises one.
`TypeCorrect` needs all of them: that a balance stays positive is no matter of
types, it holds because no trade loses. `PaperNeverLoses`
follows from gate 3, which opens a trade only with a positive result, for
*any* price, fee, pool and size: the slippage arithmetic is never expanded.
`Implements` is a refinement in the usual two halves: the initial tracker is new
over an empty ledger, and `RecordTrade` is `Pnl!Record` under the mapping, all
other steps leave tracker and mapped ledger alone.

**PoolMonitor.** `NoPanic` comes down to a lemma about the two tables of reads,
for an account of *any* length: no read ends behind the length the decoder asks
for. `EveryUpdateCounted` is inductive once a panic is excluded, because a panic
counts an update and no error. `NeverHammers` needs `SleepsLongEnough`: while the task
sleeps, the ticks slept and the ticks left make up the delay, and
a backoff is at least the configured delay as soon as an attempt was counted.
`StopsExactly` needs the counter to stay within the limit while the task runs.
`AsLaidOut` computes where each field of either layout starts, sixteen sizes
added up one at a time, and finds the decoders' constants there: 65 and 49 in a
Whirlpool, 253, 237, 233 and 234 in a Raydium pool.
`RefinesRegister` maps "the version is not the one seen, or a look is due" to the
register's `owed`; its step condition needs that the reader's version is never ahead
of the sender's.

**BinanceWs.** `FeedInvariant` says that what was slept and what is left make up the
backoff and that only a task about to send a pong owes one. `EveryTickerIsRead`
rests on `ParserFits`: for every list of symbols with at least one in it the test
that picks the endpoint and the test that picks the parser agree. `BackoffDoubles`
compares the code's doubling with the power `Doubled`, a recursive function that exists by
`IterationExists`. The inductive form (`Grown`) says that the next backoff is at least what is due
after one session more, and that capping and doubling may be done in either order.

**Only model-checked.** The liveness properties are outside what the prover handles:
`SignalResolved`, `KeepsReconnecting`, `PricesAreNoticed`,
`CancelStops`, `KeepsConnecting`, and of `LegsKeepContract` the promise that a leg resolves
(`LegsAreSafe` is the rest of it). The runs check them on the bounds of section 4. Every
invariant and every other action property of a passing run is a theorem. The five
claims of section 7 are refuted by a run each and have nothing to prove.

## 7. Disagreements found

With a run each:

| Run | Documented | What the code does |
|---|---|---|
| `Coordinator_flatten` | `coordinator.rs:12-13`: a failed leg leads to "Recovery (flatten + cooldown)" | it logs and returns `LegFailed`; the leg that filled stays |
| `Coordinator_fresh` | `README.md:134`: slot age within 2 "at execution time" | the age is of two slots frozen at detection, before two locks and a request |
| `PriceState_garbage` | `README.md:122`: the cross-check guards against garbage decodes | with the other cell empty anything sane is stored; two that agree lock the market's price out |
| `PoolMonitor_foreign` | `whirlpool.rs:277`: "Discriminator check — skip if zeroed", and the test at `:655` expects `BadDiscriminator` | the comparison at `:278-286` is commented out: any account of the right length under an Orca address is decoded and published |
| `PaperTrading_threshold` | `paper_trade.rs:20`: `MIN_NET_SPREAD_PCT` is the signal threshold | `paper_trade.rs:101` reads the largest believable gap from the same name, so a set value rejects every gap that clears it |

Seen while modelling, with no run because a run would only repeat one line:

* `README.md:122` speaks of 3 %, the code tests 10 % (`price_state.rs:280`).
* `README.md:102` gives `MIN_NET_SPREAD_PCT` the default 0.20, the code 0.15.
* `README.md:79` asks for 20 profitable trades, `README.md:131` for 50
  completed; the code counts `total_trades` (`coordinator.rs:226`) while the
  field's comment says profitable (`coordinator.rs:65`).
* The SOL balance is fetched and not compared (`coordinator.rs:254`).
* `Filled` is documented as "Both legs filled, P&L recorded" (`coordinator.rs:105`, and
  again at `:124`). A Binance order that executed nothing is answered with success
  and parsed to price zero (`binance_rest.rs:402`), so `Filled` covers a trade of which
  only the swap took place; `ReportMatchesVenues` says exactly when. And a live trade is
  never written to the tracker.
* `README.md:132` asks for a win rate "above 60%"; the code refuses what is below
  (`coordinator.rs:234`), so exactly 60 % passes.
* "Realized P&L" (`coordinator.rs:364`) counts USDC only, and of a buy the trade size
  and not what Binance took: SOL left over or short and a fill worse than the signal's
  price are not in it. `ProfitIsReal` names the condition. `dex_fill_qty_sol`
  (`coordinator.rs:421`) holds Binance's quantity and not what was sold on the DEX.
* A live process starts with an empty tracker, and live mode does not fill it:
  the 50 paper trades cannot be on record in the process that asks for them.
* The detector lets age 3 through and starts its cooldown; the coordinator
  drops everything above 2.
* Slippage is part of the fill prices and charged again as a fraction
  (`paper_engine.rs`); the error is on the safe side.
* `SkipReason::TradeAlreadyOpen` cannot occur: `open_trade` is set and taken
  in one call.
* `README.md:133` has the balance confirmed via Binance; a client without
  credentials answers a dummy 10 000 USDC (`binance_rest.rs:319`), and if only
  Jupiter holds a key the DEX leg goes out alone. `ReportMatchesVenues` covers what
  is said of it afterwards.
* "Both legs fire at the same instant": the CEX order leaves with the first poll, the
  DEX order after two more requests, and the price impact is looked at in between.
* The quote passed back to `/swap` is said to be the full quote (`jupiter.rs:138`); a
  `#[serde(flatten)]` field holds only the fields not named beside it, so
  `inputMint`, `inAmount`, `outputMint`, `outAmount`, `priceImpactPct` and
  `slippageBps` are missing.
* `SwapResult.out_amount` is documented as the tokens received and holds the quoted
  amount; `ConfirmTimeout` is never returned.
* `binance_rest.rs` says that it counts USDC, USDT and SOL fees; the filter drops
  SOL.
* The signal's symbol is always `SOLUSDC`; the trade log of `live_trade` is never
  written.
* The pool monitor's backoff is linear where the comment says exponential, ends at 20 s
  with the default delay although the cap is 30 s, and is never set back;
  `max_reconnect_attempts` counts good connections too.
* Its ping "every 10s" is sent only when a message arrives; `max_slot_age` is never
  read; an exported minimum length of 85 bytes is not enough for the decoder, which
  asks for 213 itself.
* The Orca pools of WIF, JTO and BONK are listed again as Raydium pools with the same
  addresses and therefore go to the Raydium decoder, which refuses them.
* A single name in `PAIRS` subscribes to `solusdc` whatever it is; several without
  `solusdc` never feed the detector. A quote that `PriceState` refuses counts as an
  update.
* The Binance feed's backoff is not reset after a good session;
  `stale_warn_ms` is looked at only when a ping is due.

## 8. Limits of the models

* *Tracker at start.* `Coordinator` begins with an arbitrary tracker. The
  binary begins with an empty one, with which live mode would never get past its
  prerequisites; the arbitrary one is what the coordinator's interface allows and
  the only way to look at the live half.
* *Venues.* What Binance, Jupiter and Solana do is external. In `Coordinator` an
  execution moves USDC once, by an amount of the venue's choice, and a swap moves
  nothing the module keeps; quantities, prices and slippage are in `ExecuteLegs`.
  `Expire` is the external fact that a market order may be answered without fills.
* *Memory order.* The model is sequentially consistent; the code's cells are
  `AtomicCell`s and `current_slot` is accessed `Relaxed`. A relaxed load may see an
  older slot, or one loaded after the cells. `SnapshotIsFresh` compares only
  values the snapshot itself loaded, `SnapshotsMoveForward` needs one location to
  be coherent for one reader, and each cell has one writer, so none of them leans
  on an order between locations. A `fetch_max` that becomes visible before the store
  keeps `TrackerCoversCells` all the more.
* *Clocks.* `PriceState`'s wall clock only goes forward; `SpreadDetector`'s
  goes both ways.
* *Numbers.* No `f64`: NaN, infinities and rounding are outside (the realised
  P&L of an unfilled order is NaN in the code).
* *Accounts.* A read that misses its field returns one fixed value, `noise`. The
  128-bit and `f64` steps from a square root to a price are exact here.
* *Amounts.* `ExecuteLegs` counts whole units and rounds a division down where the
  clients cut to lot sizes and lamports; commissions are left out.
* *Time.* `PoolMonitor` and `BinanceWs` count ticks; a send or a request takes none.
* *Left out of modelled components.* `update_cex`, used by the demo's simulated
  feed; the counters of `PriceState`; `stats()` of the detector; fee, slippage and Welford
  sums of the tracker; HMAC signing, lot rounding, JSON, transaction
  bytes; helpers no program calls (price impact and sufficient liquidity of a pool);
  log lines such as the staleness warning; all rendering.
* *Not modelled.* The demo's `binance_task` with its display state: a random walk
  that feeds `PriceState` without any rule to check. `pool_monitor_live`: it prints
  what `PoolMonitor` publishes. The module files: re-exports.

## 9. The plan

In order of importance; built so far are 1 to 8.

1. **Coordinator**: the one part that moves money. *Built, proved.*
2. **PriceState**: the lock-free heart. *Built, proved.*
3. **PnlTracker**, as reference for the statistics and as abstract
   specification. *Built, proved.*
4. **SpreadDetector + PaperTrading**, composed, refining `PnlTracker`. *Built,
   proved.*
5. **PoolDecoders + PoolMonitor** with `geyser_task`, refining `LatestValue`.
   *Built, proved but for liveness.*
6. **BinanceWs**. *Built, proved but for liveness.*
7. **ExecuteLegs**, refining `LegContract` twice. *Built; its safety proved.*
8. **Coordinator over ExecuteLegs**: the coordinator's own legs follow
   `LegContract`. *Proved.*
9. **SignalPath**: PriceState, detector gate and coordinator gate with the
   chain's real slot: how old, in the chain's slots, can a price be when it is
   traded (`README.md:117` says about 1.2 s), given that only updates move the
   slot tracker. *Open.* It would join the two runs `PriceState_safety` and
   `Coordinator_fresh` look at from either side.

## 10. Running the checks

From this directory:

```
tlc -workers 2 -config Coordinator_safety.cfg MCCoordinator.tla
tlapm CoordinatorProofs.tla
```

and likewise for the other configurations (the prefix of a `.cfg` names the
`MC` module) and `*Proofs.tla` modules. The eight modules of proofs take some
minutes together on two cores, `PoolMonitor_safety` and `PriceState_safety` about a
minute and a half each, `Coordinator_safety` about one, every other run less. `PROJECT.json` maps each definition to the lines it
models, and names for every property a change of the code that would break it: the operators
introduced as "Mutant:" in the modules are those changes, and nothing uses them.
