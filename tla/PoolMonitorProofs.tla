------------------------- MODULE PoolMonitorProofs -------------------------
(***************************************************************************)
(* Theorems of PoolMonitor for any lists of pools, accounts of any length, *)
(* delays and limits, and any interleaving of the monitor with the task    *)
(* that takes its prices.                                                  *)
(***************************************************************************)
EXTENDS PoolMonitor, FoldLemmas, TLAPS

(* The length check covers every read of the decoder that makes it.        *)
LEMMA NoDecoderReadsPast ==
    ASSUME NEW account, account.len \in Nat, NEW k
    PROVE  ~Crashes(account, k)
<1>1. CASE k = "Orca"
  BY <1>1 DEF Crashes, TooShort, NeededLength, ReadsPast, Reads, WhirlpoolReads, Read
<1>2. CASE k # "Orca"
  BY <1>2 DEF Crashes, TooShort, NeededLength, ReadsPast, Reads, RaydiumReads, Read
<1>3. QED
  BY <1>1, <1>2

(* The entry found for a listed address is one of the list.                *)
LEMMA RouteIsListed ==
    ASSUME MonitorAssumption, config \in Configs, NEW address, Listed(address)
    PROVE  Route(config.pools, address) \in Entries
<1> DEFINE I == {i \in 1 .. Len(config.pools) : config.pools[i].address = address}
<1>1. /\ Len(config.pools) \in Nat
      /\ DOMAIN config.pools = 1 .. Len(config.pools)
  BY DEF MonitorAssumption
<1>2. I # {} /\ I \in SUBSET (1 .. Len(config.pools))
  BY <1>1 DEF Listed
<1>3. Max(I) \in I
  <2> HIDE DEF I
  <2> QED BY <1>1, <1>2, SomeLast
<1>4. Route(config.pools, address) = config.pools[Max(I)]
  BY <1>2 DEF Route, SelectLastInSeq
<1>5. Max(I) \in DOMAIN config.pools
  <2> HIDE DEF I
  <2> QED BY <1>1, <1>2, <1>3
<1>6. QED
  <2> HIDE DEF I
  <2> QED BY <1>4, <1>5 DEF Entries

-----------------------------------------------------------------------------
USE DEF session, counters, channel, receiver

(* What a published price is.                                              *)
LEMMA PriceIsOne ==
    ASSUME MonitorAssumption, TypeOK, Decoding
    PROVE  Price(hand) \in Prices /\ hand \in Updates
<1>1. hand \in Updates
  BY DEF TypeOK, Decoding, Handling, Messages, NoMessage
<1>2. RoutedTo(hand) \in Entries
  BY RouteIsListed DEF TypeOK, Decoding, RoutedTo
<1>3. QED
  BY <1>1, <1>2 DEF Price, Prices

(* No listed account makes a decoder read past its end.                    *)
LEMMA NoCrash ==
    ASSUME MonitorAssumption, TypeOK, Decoding PROVE ~Crashing(hand)
<1>1. hand.account \in Accounts
  BY PriceIsOne DEF Updates
<1>2. QED
  BY <1>1, NoDecoderReadsPast DEF MonitorAssumption, Crashing

(* A saturated product is a duration.                                      *)
LEMMA SaturatedIsNat ==
    ASSUME NEW n \in Nat, NEW c \in Nat PROVE Saturated(n, c) \in Nat
BY DEF Saturated

(* The durations of a configuration are natural numbers.                   *)
LEMMA ConfigTypes ==
    ASSUME MonitorAssumption, NEW c \in Configs
    PROVE  /\ c.ping_interval \in Nat /\ c.reconnect_delay \in Nat
           /\ c.reconnect_delay <= MaxDelay
           /\ c.max_reconnect_attempts \in Nat
           /\ c.max_reconnect_attempts < AttemptCap
           /\ AttemptCap \in Nat /\ AttemptCap > 0
<1>1. /\ c.ping_interval \in Nat /\ c.reconnect_delay \in 0 .. MaxDelay
      /\ c.max_reconnect_attempts \in 0 .. AttemptCap - 1
      /\ AttemptCap \in Nat \ {0}
  BY DEF MonitorAssumption
<1>2. c.reconnect_delay \in Nat /\ c.reconnect_delay <= MaxDelay
  <2> DEFINE d == c.reconnect_delay
  <2>1. d \in 0 .. MaxDelay
    BY <1>1
  <2> HIDE DEF d
  <2>2. d \in Nat /\ d <= MaxDelay
    BY <2>1 DEF MaxDelay
  <2>3. QED
    BY <2>2 DEF d
<1>3. /\ AttemptCap \in Nat /\ AttemptCap > 0
      /\ c.max_reconnect_attempts \in Nat
      /\ c.max_reconnect_attempts < AttemptCap
  <2> DEFINE m == c.max_reconnect_attempts
  <2>1. m \in 0 .. AttemptCap - 1 /\ AttemptCap \in Nat \ {0}
    BY <1>1
  <2> HIDE DEF m
  <2>2. m \in Nat /\ m < AttemptCap /\ AttemptCap \in Nat /\ AttemptCap > 0
    BY <2>1
  <2>3. QED
    BY <2>2 DEF m
<1>4. QED
  BY <1>1, <1>2, <1>3

(* The backoff of any attempt is at least the configured delay.            *)
LEMMA BackoffIsEnough ==
    ASSUME MonitorAssumption, NEW c \in Configs, NEW n \in Nat
    PROVE  Backoff(c, n) \in Nat /\ (n > 0 => Backoff(c, n) >= c.reconnect_delay)
<1> DEFINE d == c.reconnect_delay
           f == IF n < MaxFactor THEN n ELSE MaxFactor
<1>1. d \in Nat /\ d <= 30
  BY ConfigTypes DEF MaxDelay
<1>2. f \in 0 .. 10 /\ (n > 0 => f \in 1 .. 10)
  BY DEF MaxFactor
<1>3. d * f \in Nat /\ (n > 0 => d * f >= d)
  <2> HIDE DEF d, f
  <2>1. \/ f = 0 \/ f = 1 \/ f = 2 \/ f = 3 \/ f = 4 \/ f = 5 \/ f = 6
        \/ f = 7 \/ f = 8 \/ f = 9 \/ f = 10
    BY <1>2
  <2>2. QED
    BY <1>1, <1>2, <2>1
<1>4. Backoff(c, n) = IF d * f < MaxDelay THEN d * f ELSE MaxDelay
  BY DEF Backoff
<1>5. QED
  <2> HIDE DEF f
  <2> QED BY <1>1, <1>3, <1>4 DEF MaxDelay

(* Types are kept by the monitor, its receiver and time.                   *)
LEMMA TypeStep == ASSUME MonitorAssumption, TypeOK, [Next]_vars PROVE TypeOK'
<1> USE DEF TypeOK
<1>1. CASE GiveUp \/ StartAttempt
  <2>1. Saturated(attempt, AttemptCap) \in 0 .. AttemptCap
    BY DEF Saturated, MonitorAssumption
  <2>2. QED
    BY <1>1, <2>1 DEF GiveUp, StartAttempt, Ended
<1>2. CASE EndSession /\ pc \in {"connect", "subscribe", "stream", "ping", "handle"}
  <2>1. Backoff(config, attempt) \in Nat
    <3>1. config \in Configs /\ attempt \in Nat
      BY ConfigTypes
    <3>2. QED
      BY <3>1, BackoffIsEnough
  <2>2. QED
    BY <1>2, <2>1 DEF EndSession, Ended
<1>3. CASE Connected \/ Subscribed \/ PingSent \/ BackoffOver
  BY <1>3 DEF Connected, Subscribed, PingSent, BackoffOver, Ended
<1>4. CASE \E m \in Messages : Receive(m)
  <2>1. NoMessage \notin Messages
    BY DEF Messages, Updates, NoMessage
  <2>2. QED
    BY <1>4, <2>1 DEF Receive, Ended
<1>5. CASE Ignored
  BY <1>5 DEF Ignored, Handling, BackToStream, Ended
<1>6. CASE DecodeFails
  BY <1>6 DEF DecodeFails, Ended
<1>7. CASE GateDrops
  BY <1>7 DEF GateDrops, BackToStream, Decoding, Handling, Ended
<1>8. CASE Publish
  <2>1. NextVersion(Price(hand)) \in Nat
    BY DEF NextVersion
  <2>2. Price(hand) \in Prices /\ hand \in Updates
    BY <1>8, PriceIsOne DEF Publish
  <2>3. QED
    BY <1>8, <2>1, <2>2 DEF Publish, BackToStream, Ended
<1>9. CASE Tick
  <2>1. /\ Saturated(sincePing, config.ping_interval) \in Nat
        /\ Saturated(idle, config.reconnect_delay) \in Nat
    <3>1. config.ping_interval \in Nat /\ config.reconnect_delay \in Nat
      BY ConfigTypes
    <3>2. QED
      BY <3>1, SaturatedIsNat
  <2>2. delay > 0 => delay - 1 \in Nat
    OBVIOUS
  <2>3. /\ sincePing' \in Nat /\ delay' \in Nat /\ idle' \in Nat
    <3> USE <2>1, <2>2
    <3>1. CASE pc = "stream"
      BY <1>9, <3>1 DEF Tick
    <3>2. CASE pc # "stream"
      BY <1>9, <3>2 DEF Tick
    <3>3. QED
      BY <3>1, <3>2
  <2>4. UNCHANGED <<config, pc, hand, attempt, counters, channel, receiver, cancelled>>
    BY <1>9 DEF Tick
  <2>5. QED
    BY <2>3, <2>4 DEF Ended
<1>10. CASE Receiver \/ TaskStops \/ Cancel
  BY <1>10 DEF Receiver, Changed, Borrow, ChannelClosed, TaskStops, Cancel, Ended
<1>11. CASE UNCHANGED vars
  BY <1>11 DEF vars
<1>12. QED
  BY <1>1, <1>2, <1>3, <1>4, <1>5, <1>6, <1>7, <1>8, <1>9, <1>10, <1>11
     DEF Next, Monitor, Session, HandleUpdate, ConnectFails, SubscribeFails,
         StreamEnds, PingFails, StreamErrors, Handling

(* Every variable keeps its type.                                          *)
THEOREM TypeCorrect == Spec => []TypeOK
<1>1. Init => TypeOK
  <2> SUFFICES ASSUME Init PROVE TypeOK
    OBVIOUS
  <2>1. AttemptCap \in Nat
    BY MonitorAssumption DEF MonitorAssumption
  <2>2. NoMessage \notin Messages
    BY DEF Messages, Updates, NoMessage
  <2>3. hand # NoMessage <=> pc \in {"ping", "handle"}
    BY DEF Init
  <2>4. attempt \in 0 .. AttemptCap
    BY <2>1 DEF Init
  <2>5. /\ sincePing \in Nat /\ delay \in Nat /\ idle \in Nat
        /\ updatesReceived \in Nat /\ decodeErrors \in Nat /\ gated \in Nat
        /\ version \in Nat /\ seen \in Nat
    BY DEF Init
  <2>6. /\ value \in Prices \cup {NoPrice} /\ applied \in Prices \cup {NoPrice}
        /\ hand \in Messages \cup {NoMessage} /\ from \in Updates \cup {NoMessage}
    BY DEF Init
  <2>7. /\ config \in Configs /\ cancelled \in BOOLEAN
        /\ gpc \in {"wait", "borrow", "stopped"}
        /\ pc \in {"loop", "connect", "subscribe", "stream", "ping", "handle", "backoff"} \cup Ended
    BY DEF Init
  <2> QED
    BY <2>3, <2>4, <2>5, <2>6, <2>7 DEF TypeOK
<1>2. TypeOK /\ [Next]_vars => TypeOK'
  BY MonitorAssumption, TypeStep
<1>3. QED
  BY <1>1, <1>2, PTL DEF Spec

(* No account can make the monitor's task panic.                           *)
THEOREM NoPanic == Spec => []NeverPanics
<1>1. Init => NeverPanics
  BY DEF Init, NeverPanics
<1>2. TypeOK /\ NeverPanics /\ [Next]_vars => NeverPanics'
  <2> SUFFICES ASSUME TypeOK, NeverPanics, [Next]_vars PROVE NeverPanics'
    OBVIOUS
  <2>1. CASE DecodeFails
    BY <2>1, MonitorAssumption, NoCrash DEF DecodeFails, NeverPanics
  <2>2. CASE ~DecodeFails
    BY <2>2 DEF NeverPanics, Next, Monitor, Session, HandleUpdate, GiveUp, StartAttempt,
       ConnectFails, Connected, SubscribeFails, Subscribed, Receive, StreamEnds,
       PingSent, PingFails, StreamErrors, EndSession, Ignored, GateDrops, Publish,
       BackToStream, BackoffOver, Tick, Receiver, Changed, Borrow, ChannelClosed,
       TaskStops, Cancel, vars
  <2>3. QED
    BY <2>1, <2>2
<1>3. QED
  BY <1>1, <1>2, TypeCorrect, PTL DEF Spec

(* What the counters, the channel and the attempts do not take part in.    *)
LEMMA CountersKept ==
    ASSUME [Next]_vars, ~DecodeFails, ~GateDrops, ~Publish
    PROVE  UNCHANGED <<counters, channel>>
BY DEF Next, Monitor, Session, HandleUpdate, GiveUp, StartAttempt, ConnectFails,
   Connected, SubscribeFails, Subscribed, Receive, StreamEnds, PingSent, PingFails,
   StreamErrors, EndSession, Ignored, BackToStream, BackoffOver, Tick, Receiver,
   Changed, Borrow, ChannelClosed, TaskStops, Cancel, vars

(* Only publishing and the receiver touch the channel.                     *)
LEMMA OnlyPublishAndReceiver ==
    ASSUME [Next]_vars, ~(Publish \/ Changed \/ Borrow \/ ChannelClosed \/ TaskStops)
    PROVE  UNCHANGED <<config, channel, receiver>>
BY DEF Next, Monitor, Session, HandleUpdate, GiveUp, StartAttempt, ConnectFails,
   Connected, SubscribeFails, Subscribed, Receive, StreamEnds, PingSent, PingFails,
   StreamErrors, EndSession, Ignored, DecodeFails, GateDrops, BackToStream,
   BackoffOver, Tick, Receiver, Cancel, vars

(* Only starting and giving up change the attempt and stop the monitor.    *)
LEMMA OthersKeepAttempts ==
    ASSUME [Next]_vars, ~GiveUp, ~StartAttempt
    PROVE  /\ config' = config /\ attempt' = attempt
           /\ pc' = "stopped" <=> pc = "stopped"
BY DEF Next, Monitor, Session, HandleUpdate, ConnectFails, Connected, SubscribeFails,
   Subscribed, Receive, StreamEnds, PingSent, PingFails, StreamErrors, EndSession,
   Ignored, DecodeFails, GateDrops, Publish, Decoding, Handling, BackToStream,
   BackoffOver, Tick, Receiver, Changed, Borrow, ChannelClosed, TaskStops, Cancel, vars

(* The counters add up, whatever the accounts, for any number of sessions. *)
THEOREM EveryUpdateCounted == Spec => []UpdatesAccountedFor
<1>1. Init => UpdatesAccountedFor
  BY DEF Init, UpdatesAccountedFor
<1>2. TypeOK /\ UpdatesAccountedFor /\ [Next]_vars => UpdatesAccountedFor'
  <2> SUFFICES ASSUME TypeOK, UpdatesAccountedFor, [Next]_vars PROVE UpdatesAccountedFor'
    OBVIOUS
  <2> USE DEF UpdatesAccountedFor
  <2>1. /\ updatesReceived \in Nat /\ decodeErrors \in Nat
        /\ gated \in Nat /\ version \in Nat
    BY DEF TypeOK
  <2>2. CASE DecodeFails
    <3>1. ~Crashing(hand)
      BY <2>2, MonitorAssumption, NoCrash DEF DecodeFails
    <3>2. /\ updatesReceived' = updatesReceived + 1 /\ decodeErrors' = decodeErrors + 1
          /\ gated' = gated /\ version' = version
      BY <2>2, <3>1 DEF DecodeFails
    <3>3. QED
      BY <2>1, <3>2
  <2>3. CASE GateDrops
    BY <2>1, <2>3 DEF GateDrops, BackToStream
  <2>4. CASE Publish
    BY <2>1, <2>4 DEF Publish, BackToStream, NextVersion
  <2>5. CASE ~DecodeFails /\ ~GateDrops /\ ~Publish
    <3>1. UNCHANGED <<counters, channel>>
      BY <2>5, CountersKept
    <3>2. QED
      BY <3>1
  <2>6. QED
    BY <2>2, <2>3, <2>4, <2>5
<1>3. QED
  BY <1>1, <1>2, TypeCorrect, PTL DEF Spec

-----------------------------------------------------------------------------
(* How often, and how soon, the monitor connects.                          *)
WithinLimit ==
    config.max_reconnect_attempts > 0 /\ pc # "stopped"
        => attempt <= config.max_reconnect_attempts

(* The limit is exact, and zero is none.                                   *)
THEOREM StopsExactly == Spec => []StopsAtLimit
<1> DEFINE Inv == WithinLimit /\ StopsAtLimit
<1>1. Init => Inv
  <2> SUFFICES ASSUME Init PROVE Inv
    OBVIOUS
  <2>1. config.max_reconnect_attempts \in Nat
    BY MonitorAssumption, ConfigTypes DEF Init
  <2>2. QED
    BY <2>1 DEF Init, WithinLimit, StopsAtLimit
<1>2. TypeOK /\ Inv /\ [Next]_vars => Inv'
  <2> SUFFICES ASSUME TypeOK, Inv, [Next]_vars PROVE Inv'
    OBVIOUS
  <2> DEFINE limit == config.max_reconnect_attempts
  <2>1. /\ limit \in Nat /\ limit < AttemptCap /\ AttemptCap \in Nat
        /\ attempt \in Nat /\ attempt <= AttemptCap
    <3>1. config \in Configs /\ attempt \in 0 .. AttemptCap
      BY DEF TypeOK
    <3>2. QED
      BY <3>1, MonitorAssumption, ConfigTypes
  <2>2. WithinLimit = (limit > 0 /\ pc # "stopped" => attempt <= limit)
    BY DEF WithinLimit
  <2>3. StopsAtLimit = (pc = "stopped" => limit > 0 /\ attempt = limit + 1)
    BY DEF StopsAtLimit
  <2>4. CASE GiveUp
    BY <2>1, <2>4 DEF GiveUp, Exhausted, Saturated, WithinLimit, StopsAtLimit
  <2>5. CASE StartAttempt
    BY <2>1, <2>5 DEF StartAttempt, Exhausted, Saturated, WithinLimit, StopsAtLimit
  <2>6. CASE /\ config' = config /\ attempt' = attempt
             /\ pc' = "stopped" <=> pc = "stopped"
    BY <2>6 DEF WithinLimit, StopsAtLimit
  <2>7. QED
    BY <2>4, <2>5, <2>6, OthersKeepAttempts
<1>3. QED
  BY <1>1, <1>2, TypeCorrect, PTL DEF Spec

(* The sleep that is left makes up the delay.                              *)
SleepsLongEnough ==
    /\ pc = "backoff" => idle + delay >= config.reconnect_delay
    /\ pc = "loop" /\ attempt > 0 => idle >= config.reconnect_delay
    /\ pc \in {"connect", "subscribe", "stream", "ping", "handle"} => attempt > 0

(* Every step keeps the sleeps long enough.                                *)
LEMMA SleepStep ==
    ASSUME MonitorAssumption, TypeOK, SleepsLongEnough, [Next]_vars
    PROVE  SleepsLongEnough'
<1> USE DEF SleepsLongEnough
<1>1. /\ config \in Configs /\ attempt \in Nat /\ idle \in Nat /\ delay \in Nat
      /\ attempt \in 0 .. AttemptCap
  <2>1. AttemptCap \in Nat
    BY DEF MonitorAssumption
  <2>2. QED
    BY <2>1 DEF TypeOK
<1>2. config.reconnect_delay \in Nat /\ AttemptCap \in Nat /\ AttemptCap > 0
  BY <1>1, ConfigTypes
<1>3. CASE GiveUp \/ StartAttempt
  <2>1. Saturated(attempt, AttemptCap) > 0
    BY <1>1, <1>2 DEF Saturated
  <2>2. QED
    BY <1>3, <2>1 DEF GiveUp, StartAttempt
<1>4. CASE EndSession /\ pc \in {"connect", "subscribe", "stream", "ping", "handle"}
  <2>1. Backoff(config, attempt) \in Nat /\ Backoff(config, attempt) >= config.reconnect_delay
    BY <1>1, <1>4, BackoffIsEnough
  <2>2. /\ pc' = "backoff" /\ delay' = Backoff(config, attempt)
        /\ idle' = idle /\ config' = config
    BY <1>4 DEF EndSession
  <2>3. QED
    BY <1>1, <1>2, <2>1, <2>2
<1>5. CASE BackoffOver
  <2>1. /\ idle + delay >= config.reconnect_delay /\ delay = 0
        /\ pc' = "loop" /\ idle' = idle /\ config' = config
    BY <1>5 DEF BackoffOver
  <2>2. QED
    BY <1>1, <1>2, <2>1
<1>6. CASE Tick
  <2>1. CASE pc = "stream"
    BY <1>6, <2>1 DEF Tick
  <2>2. CASE pc = "backoff"
    <3>1. /\ pc' = pc /\ config' = config
          /\ delay > 0 /\ delay' = delay - 1
          /\ idle' = Saturated(idle, config.reconnect_delay)
      BY <1>6, <2>2 DEF Tick
    <3>2. /\ idle' \in Nat
          /\ idle' >= idle + 1 \/ idle' >= config.reconnect_delay
      BY <1>1, <1>2, <3>1 DEF Saturated
    <3>3. idle' + delay' >= config.reconnect_delay
      BY <1>1, <1>2, <2>2, <3>1, <3>2
    <3>4. QED
      BY <2>2, <3>1, <3>3
  <2>3. QED
    BY <1>6, <2>1, <2>2 DEF Tick
<1>7. CASE Connected \/ Subscribed \/ PingSent \/ \E m \in Messages : Receive(m)
  BY <1>7 DEF Connected, Subscribed, PingSent, Receive
<1>8. CASE HandleUpdate
  BY <1>8 DEF HandleUpdate, Ignored, DecodeFails, GateDrops, Publish, Decoding,
              Handling, BackToStream
<1>9. CASE Receiver \/ TaskStops \/ Cancel \/ UNCHANGED vars
  BY <1>9 DEF Receiver, Changed, Borrow, ChannelClosed, TaskStops, Cancel, vars
<1>10. QED
  BY <1>3, <1>4, <1>5, <1>6, <1>7, <1>8, <1>9
     DEF Next, Monitor, Session, ConnectFails, SubscribeFails, StreamEnds,
         PingFails, StreamErrors, Handling

(* No connection comes sooner than the configured delay after a session.   *)
THEOREM NeverHammers == Spec => NoHotReconnect
<1> DEFINE Soon == attempt' # attempt /\ attempt > 0 => idle >= config.reconnect_delay
<1>1. Init => SleepsLongEnough
  BY DEF Init, SleepsLongEnough
<1>2. TypeOK /\ SleepsLongEnough /\ [Next]_vars => SleepsLongEnough'
  BY MonitorAssumption, SleepStep
<1>3. SleepsLongEnough /\ [Next]_vars => [Soon]_vars
  <2> SUFFICES ASSUME SleepsLongEnough, [Next]_vars, attempt' # attempt PROVE Soon
    OBVIOUS
  <2>1. GiveUp \/ StartAttempt
    BY OthersKeepAttempts
  <2>2. QED
    BY <2>1 DEF GiveUp, StartAttempt, SleepsLongEnough
<1>4. QED
  BY <1>1, <1>2, <1>3, TypeCorrect, PTL DEF Spec, NoHotReconnect

-----------------------------------------------------------------------------
(* What is published.                                                      *)
PublishedPasses ==
    /\ value # NoPrice => value.depth >= config.min_liquidity_usd
    /\ DeepEnough

(* The strategy never sees a pool shallower than configured.               *)
THEOREM AlwaysDeepEnough == Spec => []DeepEnough
<1>1. Init => PublishedPasses
  BY DEF Init, PublishedPasses, DeepEnough
<1>2. PublishedPasses /\ [Next]_vars => PublishedPasses'
  <2> SUFFICES ASSUME PublishedPasses, [Next]_vars PROVE PublishedPasses'
    OBVIOUS
  <2> USE DEF PublishedPasses, DeepEnough
  <2>1. CASE Publish
    BY <2>1 DEF Publish, BackToStream, Passes
  <2>2. CASE Borrow
    BY <2>2 DEF Borrow
  <2>3. CASE ~Publish /\ ~Borrow
    <3>1. UNCHANGED <<config, value, applied>>
      BY <2>3, OnlyPublishAndReceiver DEF Changed, ChannelClosed, TaskStops
    <3>2. QED
      BY <3>1
  <2>4. QED
    BY <2>1, <2>2, <2>3
<1>3. PublishedPasses => DeepEnough
  BY DEF PublishedPasses
<1>4. QED
  BY <1>1, <1>2, <1>3, PTL DEF Spec

(* Raydium's decoder publishes no account that names another program,      *)
(* whatever the list of pools says; it takes one that names none.          *)
THEOREM RaydiumChecked == Spec => []RaydiumDiscriminator
<1>1. Init => RaydiumDiscriminator
  BY DEF Init, RaydiumDiscriminator
<1>2. RaydiumDiscriminator /\ [Next]_vars => RaydiumDiscriminator'
  <2> SUFFICES ASSUME RaydiumDiscriminator, [Next]_vars PROVE RaydiumDiscriminator'
    OBVIOUS
  <2>1. CASE Publish
    <3>1. /\ value' = Price(hand) /\ from' = hand /\ Readable(hand)
      BY <2>1 DEF Publish
    <3>2. CASE RoutedTo(hand).dex = "Orca"
      <4>1. Price(hand).dex = "Orca"
        BY <3>2 DEF Price, Decoded, WhirlpoolPrice
      <4>2. QED
        BY <3>1, <4>1 DEF RaydiumDiscriminator
    <3>3. CASE RoutedTo(hand).dex # "Orca"
      <4>1. RaydiumError(hand.account) = "none"
        BY <3>1, <3>3 DEF Readable, DecodeError
      <4>2. ~BadDiscriminator(hand.account)
        BY <4>1 DEF RaydiumError
      <4>3. QED
        BY <3>1, <4>2 DEF BadDiscriminator, RaydiumDiscriminator
    <3>4. QED
      BY <3>2, <3>3
  <2>2. CASE ~Publish
    <3>1. value' = value /\ from' = from
      BY <2>2, OnlyPublishAndReceiver DEF Changed, Borrow, ChannelClosed, TaskStops
    <3>2. QED
      BY <3>1 DEF RaydiumDiscriminator
  <2>3. QED
    BY <2>1, <2>2
<1>3. QED
  BY <1>1, <1>2, PTL DEF Spec

-----------------------------------------------------------------------------
(* Where the decoders' tables have a field, the layout has it.             *)

Sizes(k) == [j \in DOMAIN Layout[k] |-> Layout[k][j].size]

OrcaSizes    == <<8, 32, 1, 2, 2, 2, 2, 16, 16, 4, 8, 8, 32, 32, 16, 32>>
RaydiumSizes == <<8, 1, 32, 32, 32, 32, 32, 32, 32, 1, 1, 2, 16, 16, 4>>

(* The sizes and names of the layouts, field by field.                     *)
LEMMA LayoutFields ==
    /\ DOMAIN Layout["Orca"] = 1 .. 16 /\ DOMAIN Layout["Raydium"] = 1 .. 15
    /\ Len(Layout["Orca"]) = 16 /\ Len(Layout["Raydium"]) = 15
    /\ \A j \in 1 .. 16 : Sizes("Orca")[j] = OrcaSizes[j]
    /\ \A j \in 1 .. 15 : Sizes("Raydium")[j] = RaydiumSizes[j]
BY DEF Layout, DexKind, Field, Sizes, OrcaSizes, RaydiumSizes

(* The only field of a name is the one that is found.                      *)
LEMMA FoundAt ==
    ASSUME NEW k, NEW field, NEW n \in Nat, Len(Layout[k]) = n, NEW i \in 1 .. n,
           \A j \in 1 .. n : Layout[k][j].name = field <=> j = i
    PROVE  StartsAt(k, field) = SumFunctionOnSet(Sizes(k), 1 .. i - 1)
<1> DEFINE I == {j \in 1 .. Len(Layout[k]) : Layout[k][j].name = field}
<1>1. I = {i}
  OBVIOUS
<1>2. Min(I) = i
  <2> HIDE DEF I
  <2> QED BY <1>1 DEF Min
<1>3. SelectInSeq(Layout[k], LAMBDA f : f.name = field) = i
  BY <1>1, <1>2 DEF SelectInSeq
<1> QED BY <1>3 DEF StartsAt, Sizes

(* A sum over an interval, one more at the end.                            *)
LEMMA SumNext ==
    ASSUME NEW f, NEW n \in Nat, \A j \in 1 .. n + 1 : f[j] \in Int
    PROVE  SumFunctionOnSet(f, 1 .. n + 1) = SumFunctionOnSet(f, 1 .. n) + f[n + 1]
<1>1. IsFiniteSet(1 .. n) /\ n + 1 \notin 1 .. n /\ 1 .. n + 1 = (1 .. n) \cup {n + 1}
  BY FS_Interval
<1>2. \A j \in (1 .. n) \cup {n + 1} : f[j] \in Int
  BY <1>1
<1> DEFINE S == 1 .. n  x == n + 1
<1>3. SumFunctionOnSet(f, S \cup {x}) = SumFunctionOnSet(f, S) + f[x]
  <2>1. IsFiniteSet(S) /\ x \notin S /\ \A j \in S \cup {x} : f[j] \in Int
    BY <1>1, <1>2
  <2> HIDE DEF S, x
  <2> QED BY <2>1, SumAdd
<1> QED BY <1>1, <1>3

(* The offsets of the fields a price and a depth are made of.              *)
LEMMA OrcaOffsets == StartsAt("Orca", "sqrtPrice") = 65 /\ StartsAt("Orca", "liquidity") = 49
<1> DEFINE f == Sizes("Orca")
           Sum(n) == SumFunctionOnSet(f, 1 .. n)
<1>1. \A j \in 1 .. 16 : f[j] = OrcaSizes[j] /\ f[j] \in Int
  BY LayoutFields DEF OrcaSizes
<1> HIDE DEF f
<1>2. \A n \in 0 .. 15 : Sum(n + 1) = Sum(n) + f[n + 1]
  <2> SUFFICES ASSUME NEW n \in 0 .. 15 PROVE Sum(n + 1) = Sum(n) + f[n + 1]
    OBVIOUS
  <2>1. \A j \in 1 .. n + 1 : f[j] \in Int
    BY <1>1
  <2> QED BY <2>1, SumNext
<1>3. Sum(0) = 0
  <2>1. 1 .. 0 = {}
    OBVIOUS
  <2> QED BY <2>1, SumEmpty
<1>4. Sum(8) = 65 /\ Sum(7) = 49
  <2> HIDE DEF Sum
  <2>1. /\ Sum(1) = Sum(0) + f[1] /\ Sum(2) = Sum(1) + f[2] /\ Sum(3) = Sum(2) + f[3]
        /\ Sum(4) = Sum(3) + f[4] /\ Sum(5) = Sum(4) + f[5] /\ Sum(6) = Sum(5) + f[6]
        /\ Sum(7) = Sum(6) + f[7] /\ Sum(8) = Sum(7) + f[8]
    BY <1>2
  <2>2. /\ f[1] = 8 /\ f[2] = 32 /\ f[3] = 1 /\ f[4] = 2 /\ f[5] = 2 /\ f[6] = 2
        /\ f[7] = 2 /\ f[8] = 16
    BY <1>1 DEF OrcaSizes
  <2> QED BY <1>3, <2>1, <2>2
<1>5. StartsAt("Orca", "sqrtPrice") = Sum(8)
  <2>1. \A j \in 1 .. 16 : Layout["Orca"][j].name = "sqrtPrice" <=> j = 9
    BY DEF Layout, DexKind, Field
  <2>2. 9 \in 1 .. 16 /\ 16 \in Nat /\ Len(Layout["Orca"]) = 16
    BY LayoutFields
  <2>3. StartsAt("Orca", "sqrtPrice") = SumFunctionOnSet(Sizes("Orca"), 1 .. 9 - 1)
    BY <2>1, <2>2, FoundAt, Zenon
  <2> QED BY <2>3 DEF f
<1>6. StartsAt("Orca", "liquidity") = Sum(7)
  <2>1. \A j \in 1 .. 16 : Layout["Orca"][j].name = "liquidity" <=> j = 8
    BY DEF Layout, DexKind, Field
  <2>2. 8 \in 1 .. 16 /\ 16 \in Nat /\ Len(Layout["Orca"]) = 16
    BY LayoutFields
  <2>3. StartsAt("Orca", "liquidity") = SumFunctionOnSet(Sizes("Orca"), 1 .. 8 - 1)
    BY <2>1, <2>2, FoundAt, Zenon
  <2> QED BY <2>3 DEF f
<1> QED BY <1>4, <1>5, <1>6

(* The offsets of a Raydium account that its decoder reads.                *)
LEMMA RaydiumOffsets ==
    /\ StartsAt("Raydium", "sqrtPrice") = 253 /\ StartsAt("Raydium", "liquidity") = 237
    /\ StartsAt("Raydium", "decimalsA") = 233 /\ StartsAt("Raydium", "decimalsB") = 234
<1> DEFINE f == Sizes("Raydium")
           Sum(n) == SumFunctionOnSet(f, 1 .. n)
<1>1. \A j \in 1 .. 15 : f[j] = RaydiumSizes[j] /\ f[j] \in Int
  BY LayoutFields DEF RaydiumSizes
<1> HIDE DEF f
<1>2. \A n \in 0 .. 14 : Sum(n + 1) = Sum(n) + f[n + 1]
  <2> SUFFICES ASSUME NEW n \in 0 .. 14 PROVE Sum(n + 1) = Sum(n) + f[n + 1]
    OBVIOUS
  <2>1. \A j \in 1 .. n + 1 : f[j] \in Int
    BY <1>1
  <2> QED BY <2>1, SumNext
<1>3. Sum(0) = 0
  <2>1. 1 .. 0 = {}
    OBVIOUS
  <2> QED BY <2>1, SumEmpty
<1>4. Sum(9) = 233 /\ Sum(10) = 234 /\ Sum(12) = 237 /\ Sum(13) = 253
  <2> HIDE DEF Sum
  <2>1. /\ Sum(1) = Sum(0) + f[1] /\ Sum(2) = Sum(1) + f[2] /\ Sum(3) = Sum(2) + f[3]
        /\ Sum(4) = Sum(3) + f[4] /\ Sum(5) = Sum(4) + f[5] /\ Sum(6) = Sum(5) + f[6]
        /\ Sum(7) = Sum(6) + f[7] /\ Sum(8) = Sum(7) + f[8] /\ Sum(9) = Sum(8) + f[9]
        /\ Sum(10) = Sum(9) + f[10] /\ Sum(11) = Sum(10) + f[11]
        /\ Sum(12) = Sum(11) + f[12] /\ Sum(13) = Sum(12) + f[13]
    BY <1>2
  <2>2. /\ f[1] = 8 /\ f[2] = 1 /\ f[3] = 32 /\ f[4] = 32 /\ f[5] = 32 /\ f[6] = 32
        /\ f[7] = 32 /\ f[8] = 32 /\ f[9] = 32 /\ f[10] = 1 /\ f[11] = 1 /\ f[12] = 2
        /\ f[13] = 16
    BY <1>1 DEF RaydiumSizes
  <2> QED BY <1>3, <2>1, <2>2
<1> HIDE DEF Sum
<1>5. \A field : \A i \in 1 .. 15 :
         (\A j \in 1 .. 15 : Layout["Raydium"][j].name = field <=> j = i)
            => StartsAt("Raydium", field) = Sum(i - 1)
  <2> SUFFICES ASSUME NEW field, NEW i \in 1 .. 15,
                      \A j \in 1 .. 15 : Layout["Raydium"][j].name = field <=> j = i
               PROVE  StartsAt("Raydium", field) = Sum(i - 1)
    OBVIOUS
  <2>1. 15 \in Nat /\ Len(Layout["Raydium"]) = 15
    BY LayoutFields
  <2>2. StartsAt("Raydium", field) = SumFunctionOnSet(Sizes("Raydium"), 1 .. i - 1)
    BY <2>1, FoundAt, Zenon
  <2> QED BY <2>2 DEF f, Sum
<1>6. \A j \in 1 .. 15 : /\ Layout["Raydium"][j].name = "sqrtPrice" <=> j = 14
                         /\ Layout["Raydium"][j].name = "liquidity" <=> j = 13
                         /\ Layout["Raydium"][j].name = "decimalsA" <=> j = 10
                         /\ Layout["Raydium"][j].name = "decimalsB" <=> j = 11
  BY DEF Layout, DexKind, Field
<1>7. /\ StartsAt("Raydium", "sqrtPrice") = Sum(14 - 1)
      /\ StartsAt("Raydium", "liquidity") = Sum(13 - 1)
      /\ StartsAt("Raydium", "decimalsA") = Sum(10 - 1)
      /\ StartsAt("Raydium", "decimalsB") = Sum(11 - 1)
  BY <1>5, <1>6
<1> QED BY <1>4, <1>7

(* What a decoder reads for a price is what the account has there.         *)
LEMMA FieldsRead ==
    ASSUME NEW account
    PROVE  /\ Value(account, "Orca", "sqrtPrice") = account.at["Orca"]["sqrtPrice"]
           /\ Value(account, "Orca", "liquidity") = account.at["Orca"]["liquidity"]
           /\ \A field \in {"sqrtPrice", "liquidity", "decimalsA", "decimalsB"} :
                 Value(account, "Raydium", field) = account.at["Raydium"][field]
<1>1. Reads("Orca")["sqrtPrice"].at = 65 /\ Reads("Orca")["liquidity"].at = 49
  BY DEF Reads, WhirlpoolReads, Read
<1>2. /\ Reads("Raydium")["sqrtPrice"].at = 253 /\ Reads("Raydium")["liquidity"].at = 237
      /\ Reads("Raydium")["decimalsA"].at = 233 /\ Reads("Raydium")["decimalsB"].at = 234
  BY DEF Reads, RaydiumReads, Read
<1> QED BY <1>1, <1>2, OrcaOffsets, RaydiumOffsets DEF Value

(* Of every account, whoever wrote it, price and depth are read where the  *)
(* decoder's own program keeps them: the offset tables add up to the two   *)
(* layouts; and no account that names another program passes as Raydium's. *)
THEOREM AsLaidOut == Spec => []PublishedAsLaidOut
<1>1. Init => ReadInPlace
  BY DEF Init, ReadInPlace
<1>2. ReadInPlace /\ [Next]_vars => ReadInPlace'
  <2> SUFFICES ASSUME ReadInPlace, [Next]_vars PROVE ReadInPlace'
    OBVIOUS
  <2>1. CASE Publish
    <3>1. value' = Price(hand) /\ from' = hand /\ config' = config
      BY <2>1 DEF Publish, BackToStream
    <3>2. CASE RoutedTo(hand).dex = "Orca"
      <4>1. Price(hand) = WhirlpoolPrice(hand.account, hand.address, RoutedTo(hand).decimals, hand.slot)
        BY <3>2 DEF Price, Decoded
      <4>2. /\ value'.dex = "Orca"
            /\ value'.price = HumanPrice(hand.account.at["Orca"].sqrtPrice, RoutedTo(hand).decimals)
            /\ value'.depth = hand.account.at["Orca"].liquidity * value'.price
        BY <3>1, <4>1, FieldsRead DEF WhirlpoolPrice
      <4> QED BY <3>1, <4>2 DEF ReadInPlace, RoutedTo
    <3>3. CASE RoutedTo(hand).dex # "Orca"
      <4>1. Price(hand) = RaydiumPrice(hand.account, hand.address, hand.slot)
        BY <3>3 DEF Price, Decoded
      <4>2. RaydiumDecimals(hand.account)
               = [a |-> hand.account.at["Raydium"].decimalsA, b |-> hand.account.at["Raydium"].decimalsB]
        BY FieldsRead DEF RaydiumDecimals
      <4>3. /\ value'.dex = "Raydium"
            /\ value'.price = HumanPrice(hand.account.at["Raydium"].sqrtPrice,
                                         RaydiumDecimals(hand.account))
            /\ value'.depth = hand.account.at["Raydium"].liquidity * value'.price
        BY <3>1, <4>1, FieldsRead DEF RaydiumPrice
      <4> QED BY <3>1, <4>2, <4>3 DEF ReadInPlace
    <3> QED BY <3>2, <3>3
  <2>2. CASE ~Publish
    <3>1. value' = value /\ from' = from /\ config' = config
      BY <2>2, OnlyPublishAndReceiver DEF Changed, Borrow, ChannelClosed, TaskStops
    <3> QED BY <3>1 DEF ReadInPlace, RoutedTo
  <2> QED BY <2>1, <2>2
<1> QED BY <1>1, <1>2, RaydiumChecked, PTL DEF Spec, PublishedAsLaidOut

-----------------------------------------------------------------------------
(* The watch channel between the two tasks.                                *)

Behind == seen <= version

(* The receiver has seen no version that was not sent.                     *)
LEMMA NeverAhead == Spec => []Behind
<1> USE DEF Behind
<1>1. Init => Behind
  BY DEF Init
<1>2. TypeOK /\ Behind /\ [Next]_vars => Behind'
  <2> SUFFICES ASSUME TypeOK, Behind, [Next]_vars PROVE Behind'
    OBVIOUS
  <2>1. seen \in Nat /\ version \in Nat
    BY DEF TypeOK
  <2>2. CASE Publish
    BY <2>1, <2>2 DEF Publish, BackToStream, NextVersion
  <2>3. CASE Changed
    BY <2>1, <2>3 DEF Changed
  <2>4. CASE ~Publish /\ ~Changed
    <3>1. UNCHANGED <<version, seen>>
      BY <2>4, OnlyPublishAndReceiver DEF Borrow, ChannelClosed, TaskStops
    <3>2. QED
      BY <3>1
  <2>5. QED
    BY <2>2, <2>3, <2>4
<1>3. QED
  BY <1>1, <1>2, TypeCorrect, PTL DEF Spec

(* A receiver that waits never sees a version without its value.           *)
THEOREM HoldsTheLast == Spec => []WaitsWithTheLast
<1>1. Init => WaitsWithTheLast
  BY DEF Init, WaitsWithTheLast
<1>2. TypeOK /\ Behind /\ WaitsWithTheLast /\ [Next]_vars => WaitsWithTheLast'
  <2> SUFFICES ASSUME TypeOK, Behind, WaitsWithTheLast, [Next]_vars
               PROVE  WaitsWithTheLast'
    OBVIOUS
  <2>1. seen \in Nat /\ version \in Nat
    BY DEF TypeOK
  <2>2. CASE Publish
    <3>1. seen' = seen /\ version' = version + 1
      BY <2>2 DEF Publish, BackToStream, NextVersion
    <3>2. QED
      BY <2>1, <3>1 DEF WaitsWithTheLast, Behind
  <2>3. CASE Changed \/ Borrow \/ ChannelClosed \/ TaskStops
    BY <2>3 DEF Changed, Borrow, ChannelClosed, TaskStops, WaitsWithTheLast
  <2>4. CASE ~(Publish \/ Changed \/ Borrow \/ ChannelClosed \/ TaskStops)
    <3>1. UNCHANGED <<value, version, gpc, seen, applied>>
      BY <2>4, OnlyPublishAndReceiver
    <3>2. QED
      BY <3>1 DEF WaitsWithTheLast
  <2>5. QED
    BY <2>2, <2>3, <2>4
<1>3. QED
  BY <1>1, <1>2, TypeCorrect, NeverAhead, PTL DEF Spec

(* The channel implements the register: every publication is its Send, the *)
(* look at the value its Take, and all else leaves it alone.               *)
THEOREM RefinesRegister == Spec => ChannelIsARegister
<1>1. Init => Register!Init
  BY DEF Init, Register!Init
<1>2. TypeOK /\ Behind /\ [Next]_vars => [Register!Next]_(Register!registerVars)
  <2> SUFFICES ASSUME TypeOK, Behind, [Next]_vars
               PROVE  [Register!Next]_(Register!registerVars)
    OBVIOUS
  <2> USE DEF Register!Next, Register!registerVars
  <2>1. seen \in Nat /\ version \in Nat
    BY DEF TypeOK
  <2>2. CASE Publish
    <3>1. Price(hand) \in Prices
      BY <2>2, MonitorAssumption, PriceIsOne DEF Publish
    <3>2. /\ value' = Price(hand) /\ applied' = applied
          /\ seen' = seen /\ version' = version + 1
      BY <2>2 DEF Publish, BackToStream, NextVersion
    <3>3. seen' # version'
      BY <2>1, <3>2 DEF Behind
    <3>4. Register!Send(Price(hand))
      BY <3>2, <3>3 DEF Register!Send
    <3>5. QED
      BY <3>1, <3>4
  <2>3. CASE Borrow
    <3>1. Register!Take
      BY <2>3 DEF Borrow, Register!Take
    <3>2. QED
      BY <3>1
  <2>4. CASE Changed \/ ChannelClosed \/ TaskStops
    BY <2>4 DEF Changed, ChannelClosed, TaskStops
  <2>5. CASE ~(Publish \/ Changed \/ Borrow \/ ChannelClosed \/ TaskStops)
    <3>1. UNCHANGED <<value, version, gpc, seen, applied>>
      BY <2>5, OnlyPublishAndReceiver
    <3>2. QED
      BY <3>1
  <2>6. QED
    BY <2>2, <2>3, <2>4, <2>5
<1>3. QED
  BY <1>1, <1>2, TypeCorrect, NeverAhead, PTL
     DEF Spec, ChannelIsARegister, Register!Spec
=============================================================================
