----------------------------- MODULE PoolMonitor -----------------------------
(***************************************************************************)
(* dex/pool_monitor.rs: the task that subscribes to the pool accounts over *)
(* Geyser, decodes what arrives and reconnects for ever, and the           *)
(* geyser_task of the binaries that takes the prices from its tokio watch  *)
(* channel.                                                                *)
(*                                                                         *)
(* Time passes in ticks.  The sender's part of the channel is the value    *)
(* and its version; the receiver remembers the version it has seen.        *)
(***************************************************************************)
EXTENDS PoolDecoders

CONSTANTS
    Configs,        \* the configurations start_pool_monitor may be given
    Accounts,       \* the accounts, true or damaged, a message may carry
    Unknown,        \* an address no configuration lists
    Slots,          \* the slots of the messages
    MaxUpdates,     \* bound: account updates of one behaviour
    AttemptCap      \* bound: the attempt counter saturates here

(* (reconnect_delay * attempt.min(10)).min(30s): with the default delay    *)
(* the cap of 30 s is out of reach.                                        *)
MaxFactor == 10
MaxDelay  == 30

ASSUME MonitorAssumption ==
    /\ \A c \in Configs :
          /\ c.pools \in Seq({c.pools[i] : i \in DOMAIN c.pools})
          /\ c.ping_interval \in Nat /\ c.reconnect_delay \in 0 .. MaxDelay
          /\ c.max_reconnect_attempts \in 0 .. AttemptCap - 1
          /\ c.min_liquidity_usd \in Nat
    /\ \A a \in Accounts : a.len \in Nat
    /\ MaxUpdates \in Nat /\ AttemptCap \in Nat \ {0}

VARIABLES
    config,
    pc,             \* where the monitor's task is
    attempt,        \* connections begun since the start, never reset
    hand,           \* the message in hand
    sincePing,      \* ticks since last_ping, saturating
    delay,          \* what is left of the sleep
    idle,           \* ticks since the last session ended
    updatesReceived, decodeErrors, gated,   \* the counters, and the gates' drops
    value, version, \* the watch channel
    from,           \* the message the value was decoded from
    gpc,            \* where geyser_task is
    seen, applied,  \* the version it has seen, the value it took last
    cancelled

session  == <<attempt, sincePing, delay, idle>>
counters == <<updatesReceived, decodeErrors, gated>>
channel  == <<value, version, from>>
receiver == <<gpc, seen, applied>>
vars     == <<config, pc, hand, session, counters, channel, receiver, cancelled>>

Ended == {"stopped", "panicked"}

NoPrice   == [pool |-> "none"]
NoMessage == [kind |-> "none"]

-----------------------------------------------------------------------------
Entry(dex, address, a, b) ==
    [address |-> address, dex |-> dex, decimals |-> [a |-> a, b |-> b]]

(* The three Raydium entries at the end name the Orca addresses: pools::*  *)
(* is in scope, not ray_pools.                                             *)
DefaultPools ==
    <<Entry("Orca", "SOL_USDC_64", 9, 6), Entry("Orca", "SOL_USDC_8", 9, 6),
      Entry("Orca", "SOL_USDT_64", 9, 6), Entry("Raydium", "RAY_SOL_USDC", 9, 6),
      Entry("Orca", "WIF_USDC", 9, 6), Entry("Orca", "JTO_USDC", 8, 6),
      Entry("Orca", "BONK_USDC", 8, 6),
      Entry("Raydium", "WIF_USDC", 9, 6), Entry("Raydium", "JTO_USDC", 8, 6),
      Entry("Raydium", "BONK_USDC", 8, 6)>>

(* PoolMonitorConfig::from_env and new.  Nothing reads max_slot_age.       *)
DefaultConfig ==
    [pools |-> DefaultPools, ping_interval |-> 10, reconnect_delay |-> 2,
     max_reconnect_attempts |-> 0, max_slot_age |-> 5, min_liquidity_usd |-> 10000]

(* pool_map: collected from the list, so that of two entries with one      *)
(* address the last one stays.                                             *)
Route(pools, address) ==
    pools[SelectLastInSeq(pools, LAMBDA e : e.address = address)]

Addresses == UNION {{c.pools[i].address : i \in DOMAIN c.pools} : c \in Configs}

Listed(address) == \E i \in DOMAIN config.pools : config.pools[i].address = address

(* Grows with every attempt, the good ones included.                       *)
\* Mutant: the attempts counted from zero.
BackoffFromZero(c, n) ==
    LET d == c.reconnect_delay * (IF n - 1 < MaxFactor THEN n - 1 ELSE MaxFactor)
    IN  IF d < MaxDelay THEN d ELSE MaxDelay

Backoff(c, n) ==
    LET d == c.reconnect_delay * (IF n < MaxFactor THEN n ELSE MaxFactor)
    IN  IF d < MaxDelay THEN d ELSE MaxDelay

(* The attempt about to be counted is one too many.                        *)
\* Mutant: a limit of zero counts as a limit.
ZeroIsALimit(c, n) == n + 1 > c.max_reconnect_attempts

Exhausted(c, n) == c.max_reconnect_attempts > 0 /\ n + 1 > c.max_reconnect_attempts

(* The validation gates.  max_slot_age is not one of them.                 *)
Passes(c, price) == price.depth >= c.min_liquidity_usd /\ price.price > 0

(* The decoder the message's address leads to, and what it returns.        *)
RoutedTo(m) == Route(config.pools, m.address)

Price(m) == Decoded(m.account, RoutedTo(m).dex, m.address, RoutedTo(m).decimals, m.slot)

(* send_if_modified always answers true.                                   *)
\* Mutant: only a price that differs wakes the receiver.
VersionIfChanged(price) == IF price = value THEN version ELSE version + 1

\* Mutant: the closure answers false.
SameVersion(price) == version

NextVersion(price) == version + 1

Saturated(n, cap) == IF n < cap THEN n + 1 ELSE cap

-----------------------------------------------------------------------------
Init ==
    /\ config \in Configs
    /\ pc = "loop" /\ hand = NoMessage
    /\ attempt = 0 /\ sincePing = 0 /\ delay = 0 /\ idle = 0
    /\ updatesReceived = 0 /\ decodeErrors = 0 /\ gated = 0
    /\ value = NoPrice /\ version = 0 /\ from = NoMessage
    /\ gpc = "wait" /\ seen = 0 /\ applied = NoPrice
    /\ cancelled = FALSE

(* The head of the loop: attempt += 1, then the limit.                     *)
GiveUp ==
    /\ pc = "loop" /\ Exhausted(config, attempt)
    /\ pc' = "stopped" /\ attempt' = Saturated(attempt, AttemptCap)
    /\ UNCHANGED <<config, hand, sincePing, delay, idle, counters, channel, receiver, cancelled>>

StartAttempt ==
    /\ pc = "loop" /\ ~Exhausted(config, attempt)
    /\ pc' = "connect" /\ attempt' = Saturated(attempt, AttemptCap)
    /\ idle' = 0
    /\ UNCHANGED <<config, hand, sincePing, delay, counters, channel, receiver, cancelled>>

(* run_subscription returned, Ok or Err alike: sleep before the next.      *)
EndSession ==
    /\ pc' = "backoff" /\ hand' = NoMessage
    /\ delay' = Backoff(config, attempt)
    /\ UNCHANGED <<config, attempt, sincePing, idle, counters, channel, receiver, cancelled>>

ConnectFails == pc = "connect" /\ EndSession

Connected ==
    /\ pc = "connect" /\ pc' = "subscribe"
    /\ UNCHANGED <<config, hand, session, counters, channel, receiver, cancelled>>

(* Opening the stream or sending the request fails.                        *)
SubscribeFails == pc = "subscribe" /\ EndSession

Subscribed ==
    /\ pc = "subscribe" /\ pc' = "stream"
    /\ sincePing' = 0
    /\ UNCHANGED <<config, hand, attempt, delay, idle, counters, channel, receiver, cancelled>>

(* A message; only now does the task look whether a ping is due.           *)
Receive(m) ==
    /\ pc = "stream"
    /\ hand' = m
    /\ pc' = IF sincePing >= config.ping_interval THEN "ping" ELSE "handle"
    /\ UNCHANGED <<config, session, counters, channel, receiver, cancelled>>

StreamEnds == pc = "stream" /\ EndSession

PingSent ==
    /\ pc = "ping" /\ pc' = "handle"
    /\ sincePing' = 0
    /\ UNCHANGED <<config, hand, attempt, delay, idle, counters, channel, receiver, cancelled>>

(* The message in hand is lost with the session.                           *)
PingFails == pc = "ping" /\ EndSession

StreamErrors == pc = "handle" /\ hand.kind = "error" /\ EndSession

-----------------------------------------------------------------------------
(* handle_update.                                                          *)
Handling(kind) == pc = "handle" /\ hand.kind = kind

BackToStream ==
    /\ pc' = "stream" /\ hand' = NoMessage
    /\ UNCHANGED <<config, session, receiver, cancelled>>

(* Pong, slot, none, an account without info or of an unknown address.     *)
Ignored ==
    /\ \/ Handling("other")
       \/ Handling("account") /\ ~Listed(hand.address)
    /\ BackToStream
    /\ UNCHANGED <<counters, channel>>

(* The account of a listed address: what its decoder makes of it.          *)
Decoding == Handling("account") /\ Listed(hand.address)

Crashing(m) == Crashes(m.account, RoutedTo(m).dex)
Readable(m) == ~Crashing(m) /\ DecodeError(m.account, RoutedTo(m).dex) = "none"

(* An error; or a panic, with which the spawned task dies and the sender   *)
(* with it.                                                                *)
DecodeFails ==
    /\ Decoding /\ ~Readable(hand)
    /\ pc' = IF Crashing(hand) THEN "panicked" ELSE "stream"
    /\ hand' = NoMessage
    /\ updatesReceived' = updatesReceived + 1
    /\ decodeErrors' = IF Crashing(hand) THEN decodeErrors ELSE decodeErrors + 1
    /\ UNCHANGED <<config, session, gated, channel, receiver, cancelled>>

GateDrops ==
    /\ Decoding /\ Readable(hand) /\ ~Passes(config, Price(hand))
    /\ BackToStream
    /\ updatesReceived' = updatesReceived + 1 /\ gated' = gated + 1
    /\ UNCHANGED <<decodeErrors, channel>>

Publish ==
    /\ Decoding /\ Readable(hand) /\ Passes(config, Price(hand))
    /\ BackToStream
    /\ updatesReceived' = updatesReceived + 1
    /\ value' = Price(hand) /\ version' = NextVersion(Price(hand)) /\ from' = hand
    /\ UNCHANGED <<decodeErrors, gated>>

-----------------------------------------------------------------------------
BackoffOver ==
    /\ pc = "backoff" /\ delay = 0
    /\ pc' = "loop"
    /\ UNCHANGED <<config, hand, session, counters, channel, receiver, cancelled>>

(* Time matters to the keepalive and to the sleep.                         *)
Tick ==
    /\ \/ /\ pc = "stream"
          /\ sincePing' = Saturated(sincePing, config.ping_interval)
          /\ UNCHANGED <<delay, idle>>
       \/ /\ pc = "backoff" /\ delay > 0
          /\ delay' = delay - 1
          /\ idle' = Saturated(idle, config.reconnect_delay)
          /\ UNCHANGED sincePing
    /\ UNCHANGED <<config, pc, hand, attempt, counters, channel, receiver, cancelled>>

(* geyser_task: changed() answers as soon as the version is not the one    *)
(* seen, even after the sender is gone, and marks it seen ...              *)
Changed ==
    /\ gpc = "wait" /\ seen # version
    /\ gpc' = "borrow" /\ seen' = version
    /\ UNCHANGED <<config, pc, hand, session, counters, channel, applied, cancelled>>

(* ... borrow() takes what is there by then.                               *)
\* Mutant: the message in hand instead of the value.
BorrowMessage ==
    /\ gpc = "borrow" /\ gpc' = "wait"
    /\ applied' = hand
    /\ UNCHANGED <<config, pc, hand, session, counters, channel, seen, cancelled>>

Borrow ==
    /\ gpc = "borrow" /\ gpc' = "wait"
    /\ applied' = value
    /\ UNCHANGED <<config, pc, hand, session, counters, channel, seen, cancelled>>

\* Mutant: a closed channel is noticed before its last value.
ClosedFirst ==
    /\ gpc = "wait" /\ pc \in Ended
    /\ gpc' = "stopped"
    /\ UNCHANGED <<config, pc, hand, session, counters, channel, seen, applied, cancelled>>

ChannelClosed ==
    /\ gpc = "wait" /\ seen = version /\ pc \in Ended
    /\ gpc' = "stopped"
    /\ UNCHANGED <<config, pc, hand, session, counters, channel, seen, applied, cancelled>>

TaskStops ==
    /\ gpc = "wait" /\ cancelled
    /\ gpc' = "stopped"
    /\ UNCHANGED <<config, pc, hand, session, counters, channel, seen, applied, cancelled>>

(* Ctrl+C.  Nobody tells the monitor: dropping its handle does not stop it.*)
Cancel ==
    /\ ~cancelled /\ cancelled' = TRUE
    /\ UNCHANGED <<config, pc, hand, session, counters, channel, receiver>>

-----------------------------------------------------------------------------
Updates  == [kind : {"account"}, address : Addresses \cup {Unknown},
             account : Accounts, slot : Slots]
Messages == Updates \cup {[kind |-> "other"], [kind |-> "error"]}

Session ==
    \/ ConnectFails \/ Connected \/ SubscribeFails \/ Subscribed
    \/ PingSent \/ PingFails
HandleUpdate == Ignored \/ DecodeFails \/ GateDrops \/ Publish
Monitor  == GiveUp \/ StartAttempt \/ Session \/ StreamErrors \/ HandleUpdate \/ BackoffOver
Receiver == Changed \/ Borrow \/ ChannelClosed

Next ==
    \/ Monitor
    \/ updatesReceived < MaxUpdates /\ \E m \in Messages : Receive(m)
    \/ StreamEnds
    \/ Tick
    \/ Receiver \/ TaskStops
    \/ Cancel

Spec == Init /\ [][Next]_vars

(* Connecting and subscribing end within their 10 s timeouts, the sleep    *)
(* runs out and both tasks are polled.  A message may never come and a     *)
(* silent stream never ends: there is no timeout on the read.              *)
FairSpec == Spec /\ WF_vars(Monitor) /\ WF_vars(Tick) /\ WF_vars(Receiver)
-----------------------------------------------------------------------------
Entries == UNION {{c.pools[i] : i \in DOMAIN c.pools} : c \in Configs}

Prices == UNION {{Decoded(m.account, e.dex, m.address, e.decimals, m.slot) : e \in Entries} :
                 m \in Updates}

(* Types of every variable.                                                *)
TypeOK ==
    /\ config \in Configs
    /\ pc \in {"loop", "connect", "subscribe", "stream", "ping", "handle", "backoff"} \cup Ended
    /\ hand \in Messages \cup {NoMessage}
    /\ hand # NoMessage <=> pc \in {"ping", "handle"}
    /\ attempt \in 0 .. AttemptCap
    /\ sincePing \in Nat /\ delay \in Nat /\ idle \in Nat
    /\ updatesReceived \in Nat /\ decodeErrors \in Nat /\ gated \in Nat
    /\ value \in Prices \cup {NoPrice} /\ version \in Nat
    /\ from \in Updates \cup {NoMessage}
    /\ gpc \in {"wait", "borrow", "stopped"} /\ seen \in Nat
    /\ applied \in Prices \cup {NoPrice}
    /\ cancelled \in BOOLEAN

(* No account, of whatever length and program, makes a decoder read past   *)
(* the end of its data: a panic would end the one monitoring task, for     *)
(* good and without a word.                                                *)
NeverPanics == pc # "panicked"

(* Whatever account a decoder is handed, its price and depth come from the *)
(* bytes where its own program keeps them (they are garbage if another     *)
(* program wrote the account), by the decimals of the list (Orca) or of    *)
(* the account (Raydium).                                                  *)
ReadInPlace ==
    value # NoPrice =>
        LET fields   == from.account.at[value.dex]
            decimals == IF value.dex = "Orca" THEN RoutedTo(from).decimals
                        ELSE [a |-> fields.decimalsA, b |-> fields.decimalsB]
        IN  /\ value.price = HumanPrice(fields.sqrtPrice, decimals)
            /\ value.depth = fields.liquidity * value.price

(* An account that names another program is not published as Raydium's:    *)
(* the Orca pools of WIF, JTO and BONK, which the list hands to Raydium's  *)
(* decoder, yield nothing while they keep their discriminator.  Of one     *)
(* without (zeroed) nothing is known; and Orca's decoder does not look,    *)
(* see OrcaDiscriminator.                                                  *)
RaydiumDiscriminator ==
    value # NoPrice /\ value.dex = "Raydium" => from.account.disc \in {"Raydium", Zeroed}

(* What is published is what the decoder of the list's entry makes of its  *)
(* own layout, and under Raydium's name never an account that names        *)
(* another program.  Not: that the account is the decoder's.               *)
PublishedAsLaidOut == ReadInPlace /\ RaydiumDiscriminator

(* Every account update that was counted was published, dropped by a gate  *)
(* or counted as an error: whatever lies between, none is lost or counted  *)
(* twice, across sessions and reconnects.                                  *)
UpdatesAccountedFor == updatesReceived = decodeErrors + gated + version

(* With a limit the monitor makes exactly that many connections, the good  *)
(* ones included; without one it never stops.                              *)
StopsAtLimit ==
    pc = "stopped" => /\ config.max_reconnect_attempts > 0
                      /\ attempt = config.max_reconnect_attempts + 1

(* What the strategy sees has the liquidity the configuration asks for.    *)
DeepEnough == applied # NoPrice => applied.depth >= config.min_liquidity_usd

(* A new connection is begun a full delay after the session before it      *)
(* ended, whatever ended it: a failing endpoint is not hammered.           *)
NoHotReconnect ==
    [][attempt' # attempt /\ attempt > 0 => idle >= config.reconnect_delay]_vars

(* The channel is a register: updates may be conflated, but the receiver   *)
(* never goes back to an older value and is never left with one that is    *)
(* not the last, unless it stopped.                                        *)
Register == INSTANCE LatestValue WITH
    latest <- value, taken <- applied, owed <- seen # version \/ gpc = "borrow",
    Values <- Prices, Nothing <- NoPrice

ChannelIsARegister == Register!Spec

(* A receiver that waits and has been told of everything holds the last    *)
(* price, although it is told first and looks later.                       *)
WaitsWithTheLast == gpc = "wait" /\ seen = version => applied = value

(* Without a limit the start, and every session that ended, is followed by *)
(* a new connection.                                                       *)
KeepsReconnecting ==
    pc \in {"loop", "backoff"} /\ config.max_reconnect_attempts = 0 ~> pc = "connect"

(* A published version is noticed, the sender alive or gone, or the task   *)
(* was cancelled.                                                          *)
PricesAreNoticed == seen # version ~> seen = version \/ cancelled

-----------------------------------------------------------------------------
(* Claims of the documentation that the code does not keep.                *)

(* whirlpool.rs:277 heads the check of the discriminator, and the test at  *)
(* whirlpool.rs:655-665 expects BadDiscriminator for a wrong one that is   *)
(* not zero: an account that names another program would not be published  *)
(* as Orca's.  The check (whirlpool.rs:278-286) is commented out.          *)
OrcaDiscriminator ==
    value # NoPrice /\ value.dex = "Orca" => from.account.disc \in {"Orca", Zeroed}
=============================================================================
