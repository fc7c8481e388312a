------------------------------ MODULE BinanceWs ------------------------------
(***************************************************************************)
(* execution/binance_ws.rs: the task behind start_binance_ws.  It connects *)
(* to Binance's bookTicker streams, hands quotes to PriceState, answers    *)
(* pings and reconnects with a growing backoff until it is cancelled.      *)
(*                                                                         *)
(* A quote is only its class: sane; crossed (or zero, or no number), which *)
(* BookTicker::prices refuses; outside PriceState's bounds.  The keepalive *)
(* timer may fire at any time.  Pongs and binary frames change nothing.    *)
(***************************************************************************)
EXTENDS Integers, Sequences, Functions

CONSTANTS
    Symbols,            \* pairs, "solusdc" among them
    Environments,       \* values of PAIRS, split into its non-empty entries
    BackoffInitial, BackoffMax,     \* in ticks
    MaxTexts,           \* bound: text frames of one session
    SessionCap          \* bound: the count of ended sessions saturates here

ASSUME FeedAssumption ==
    /\ "solusdc" \in Symbols
    /\ Environments \subseteq Seq(Symbols)
    /\ BackoffInitial \in Nat \ {0} /\ BackoffMax \in Nat
    /\ BackoffInitial <= BackoffMax
    /\ MaxTexts \in Nat /\ SessionCap \in Nat \ {0}

VARIABLES
    symbols,            \* config.symbols
    pc,                 \* where the task is
    result,             \* how the last session ended
    backoff, left,      \* the next sleep, what is left of this one
    sessions, waited,   \* sessions ended so far, ticks since the last one
    texts, good,        \* this session's text frames, those with valid quotes
    updates, parseErrs, \* its counters
    owed,               \* pings of this session not answered yet
    pairs,              \* cex_pairs: per symbol the class of its quote
    cancelled

retry  == <<backoff, left, sessions, waited>>
frames == <<texts, good, updates, parseErrs, owed, pairs>>
vars   == <<symbols, pc, result, retry, frames, cancelled>>

NoQuote == "none"
Classes == {"sane", "crossed", "outside"}

-----------------------------------------------------------------------------
(* main: one entry in PAIRS, any one, is the default configuration.        *)
Subscribed(env) == IF Len(env) = 1 THEN <<"solusdc">> ELSE env

(* ws_url: the single endpoint sends bare tickers, the combined one wraps  *)
(* them.                                                                   *)
Sent(syms) == IF Len(syms) = 1 THEN "bare" ELSE "wrapped"

(* is_combined: the parser that will be used.                              *)
\* Mutant: one symbol is a combined stream too.
ParsedFromOne(syms) == IF Len(syms) >= 1 THEN "wrapped" ELSE "bare"

Parsed(syms) == IF Len(syms) > 1 THEN "wrapped" ELSE "bare"

(* BookTicker::prices.                                                     *)
HasPrices(class) == class # "crossed"

(* PriceState::price_is_sane, of the bid and of the ask.                   *)
InBounds(class) == class # "outside"

(* The states in which a select! watches the cancellation.                 *)
\* Mutant: the session's select does not.
OnlyBackoff == {"backoff"}

Watched == {"stream", "backoff"}

(* Where the reconnect loop goes after a session.                          *)
\* Mutant: an error ends the loop.
ErrorStops(r) == IF r = "Disconnected" THEN "backoff" ELSE "stopped"

AfterSession(r) == IF r = "Cancelled" THEN "stopped" ELSE "backoff"

(* Doubled after the sleep and never set back.                             *)
\* Mutant: a session that ended starts again from the initial backoff.
Reset(b) == BackoffInitial

\* Mutant: no cap.
Uncapped(b) == 2 * b

NextBackoff(b) == IF 2 * b < BackoffMax THEN 2 * b ELSE BackoffMax

-----------------------------------------------------------------------------
Init ==
    /\ symbols \in {Subscribed(env) : env \in Environments}
    /\ pc = "loop" /\ result = "none"
    /\ backoff = BackoffInitial /\ left = 0 /\ sessions = 0 /\ waited = 0
    /\ texts = 0 /\ good = 0 /\ updates = 0 /\ parseErrs = 0 /\ owed = 0
    /\ pairs = [s \in Range(symbols) |-> NoQuote]
    /\ cancelled = FALSE

(* The head of the loop looks at the token.                                *)
LoopStops ==
    /\ pc = "loop" /\ cancelled
    /\ pc' = "stopped"
    /\ UNCHANGED <<symbols, result, retry, frames, cancelled>>

StartSession ==
    /\ pc = "loop" /\ ~cancelled
    /\ pc' = "connect" /\ result' = "none"
    /\ UNCHANGED <<symbols, retry, frames, cancelled>>

(* run_session returns r.                                                  *)
EndSession(r) ==
    /\ pc' = AfterSession(r) /\ result' = r
    /\ left' = backoff /\ waited' = 0
    /\ sessions' = IF sessions < SessionCap THEN sessions + 1 ELSE sessions
    /\ UNCHANGED <<symbols, backoff, frames, cancelled>>

(* connect_async has no timeout and does not watch the token.              *)
ConnectFails == pc = "connect" /\ EndSession("Error")

Connected ==
    /\ pc = "connect" /\ pc' = "stream"
    /\ texts' = 0 /\ good' = 0 /\ updates' = 0 /\ parseErrs' = 0 /\ owed' = 0
    /\ UNCHANGED <<symbols, result, retry, pairs, cancelled>>

(* The end of the stream or a close frame; a read error.                   *)
Disconnected == pc = "stream" /\ EndSession("Disconnected")

ReadFails == pc = "stream" /\ EndSession("Error")

(* The keepalive, and its send.                                            *)
PingDue ==
    /\ pc = "stream" /\ pc' = "ping"
    /\ UNCHANGED <<symbols, result, retry, frames, cancelled>>

PingSent ==
    /\ pc = "ping" /\ pc' = "stream"
    /\ UNCHANGED <<symbols, result, retry, frames, cancelled>>

PingFails == pc = "ping" /\ EndSession("Error")

(* The server's ping, and the answer.                                      *)
PingReceived ==
    /\ pc = "stream" /\ pc' = "pong"
    /\ owed' = owed + 1
    /\ UNCHANGED <<symbols, result, retry, texts, good, updates, parseErrs, pairs, cancelled>>

PongSent ==
    /\ pc = "pong" /\ pc' = "stream"
    /\ owed' = owed - 1
    /\ UNCHANGED <<symbols, result, retry, texts, good, updates, parseErrs, pairs, cancelled>>

(* A session that cannot answer is over.                                   *)
PongFails == pc = "pong" /\ EndSession("Error")

-----------------------------------------------------------------------------
(* A text frame.                                                           *)
Text ==
    /\ pc = "stream" /\ texts < MaxTexts
    /\ texts' = texts + 1
    /\ UNCHANGED <<symbols, pc, result, retry, owed, cancelled>>

(* No ticker: a response or an error of the endpoint.                      *)
OtherText ==
    /\ Text
    /\ parseErrs' = parseErrs + 1
    /\ UNCHANGED <<good, updates, pairs>>

(* A ticker of a subscribed symbol, in the endpoint's form.  PriceState    *)
(* may still refuse it: it counts as an update all the same.               *)
Ticker(s, class) ==
    LET read == Parsed(symbols) = Sent(symbols) /\ HasPrices(class) IN
    /\ Text
    /\ good' = IF class = "crossed" THEN good ELSE good + 1
    /\ updates' = IF read THEN updates + 1 ELSE updates
    /\ parseErrs' = IF read THEN parseErrs ELSE parseErrs + 1
    /\ pairs' = IF read /\ InBounds(class) THEN [pairs EXCEPT ![s] = class] ELSE pairs

-----------------------------------------------------------------------------
(* The cancellation arm of a select!.                                      *)
CancelSeen ==
    /\ cancelled /\ pc \in Watched
    /\ pc' = IF pc = "stream" THEN "closing" ELSE "stopped"
    /\ UNCHANGED <<symbols, result, retry, frames, cancelled>>

(* write.close() returned, whatever it returned.                           *)
Closed == pc = "closing" /\ EndSession("Cancelled")

SleepOver ==
    /\ pc = "backoff" /\ left = 0
    /\ pc' = "loop" /\ backoff' = NextBackoff(backoff)
    /\ UNCHANGED <<symbols, result, left, sessions, waited, frames, cancelled>>

Tick ==
    /\ pc = "backoff" /\ left > 0
    /\ left' = left - 1 /\ waited' = waited + 1
    /\ UNCHANGED <<symbols, pc, result, backoff, sessions, frames, cancelled>>

Cancel ==
    /\ ~cancelled /\ cancelled' = TRUE
    /\ UNCHANGED <<symbols, pc, result, retry, frames>>

Session ==
    \/ ConnectFails \/ Connected \/ Disconnected \/ ReadFails
    \/ PingDue \/ PingSent \/ PingFails
    \/ PingReceived \/ PongSent \/ PongFails
    \/ OtherText
    \/ \E s \in Range(symbols), class \in Classes : Ticker(s, class)
    \/ Closed

Loop == LoopStops \/ StartSession \/ SleepOver \/ Tick

Next == Loop \/ Session \/ CancelSeen \/ Cancel

Spec == Init /\ [][Next]_vars

(* The task is polled, sleeps end.  select! picks among its ready arms at  *)
(* random, so the token is seen in the end however busy the stream.  The   *)
(* network owes nothing: a connect or a send may hang for ever.            *)
FairSpec == Spec /\ WF_vars(Loop) /\ SF_vars(CancelSeen)
-----------------------------------------------------------------------------
(* Types of every variable.                                                *)
TypeOK ==
    /\ symbols \in Seq(Symbols)
    /\ pc \in {"loop", "connect", "stream", "ping", "pong", "closing", "backoff", "stopped"}
    /\ result \in {"none", "Cancelled", "Disconnected", "Error"}
    /\ backoff \in BackoffInitial .. BackoffMax /\ left \in 0 .. BackoffMax
    /\ sessions \in 0 .. SessionCap /\ waited \in 0 .. BackoffMax
    /\ texts \in Nat /\ good \in Nat /\ updates \in Nat /\ parseErrs \in Nat
    /\ owed \in Nat
    /\ pairs \in [Range(symbols) -> Classes \cup {NoQuote}]
    /\ cancelled \in BOOLEAN

(* Whatever happens to a session, only the token ends the feed: the        *)
(* detector is never left without quotes for good.                         *)
StopsOnlyWhenCancelled == pc = "stopped" => cancelled

(* The check of the ticker and the bounds of PriceState together let no    *)
(* crossed and no absurd quote through; neither does alone.                *)
QuotesAreSane == \A s \in Range(symbols) : pairs[s] \in {"sane", NoQuote}

(* The parser fits the endpoint that was subscribed to: every valid ticker *)
(* is an update, every other text frame an error, whatever PAIRS holds.    *)
TickersAreRead == good = updates /\ texts = updates + parseErrs

(* A session goes on only if it owes no pong: Binance cuts off a client    *)
(* that does not answer.                                                   *)
EveryPingAnswered == pc = "stream" => owed = 0

(* No frame goes astray, whatever the server sends and in what order.      *)
FramesAreHandled == TickersAreRead /\ QuotesAreSane /\ EveryPingAnswered

(* Before the n-th reconnect the feed waits the initial backoff doubled    *)
(* n - 1 times, up to the cap, since the session ended.                    *)
Doubled[n \in Nat] == IF n = 0 THEN BackoffInitial ELSE 2 * Doubled[n - 1]

DueAfter(n) == IF Doubled[n - 1] < BackoffMax THEN Doubled[n - 1] ELSE BackoffMax

BackoffDoubles ==
    [][pc = "loop" /\ pc' = "connect" /\ sessions > 0 => waited >= DueAfter(sessions)]_vars

(* Once cancelled the feed stops, or it hangs in an await that does not    *)
(* watch the token.                                                        *)
CancelStops ==
    cancelled ~> (pc = "stopped" \/ [](pc \in {"connect", "ping", "pong", "closing"}))

(* A session that failed is followed by a new connection.                  *)
KeepsConnecting ==
    result \in {"Disconnected", "Error"} ~> pc = "connect" \/ cancelled
=============================================================================
